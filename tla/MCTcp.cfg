CONSTANTS
  W = 32
  ServerIss = {10, 31}
  PeerIss = {28}
  PeerBytes = 3
  Writes = 3
  Lens = {1, 2}
  Freq = 1
  MaxTime = 2
  MaxDup = 2
SPECIFICATION FairSpec
CHECK_DEADLOCK FALSE
INVARIANTS
  AckedIsDelivered
  StreamIntactUntilShuffled
PROPERTY
  WrittenIsSent
