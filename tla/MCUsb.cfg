CONSTANTS
  Ports = 2
  QueueSize = 7
  MaxRequests = 7
  MaxStale = 2
  Devices <- TestDevices
SPECIFICATION MCSpec
CHECK_DEADLOCK FALSE
INVARIANTS
  WakerQueueFits
PROPERTY
  RequestIsAnswered
  MouseIsHeard
