CONSTANTS
  Tasks = {"recv", "tcp"}
  Reader = "recv"
  R = 24
  Off = 16
  Lens = {4, 7}
  MaxPackets = 3
  MaxWrites = 1
  CallsGetMac = TRUE
  SharedLine = FALSE
SPECIFICATION FairSpec
CHECK_DEADLOCK FALSE
INVARIANTS
  ReaderIsAligned
  NoLostWakeup
PROPERTY
  ReceivedIsRead
