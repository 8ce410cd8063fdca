CONSTANTS
  Tasks = {"udp", "usb"}
  Durations = {0, 2}
  MaxTime = 2
  MaxSleeps = 2
  NumCpus = 1
SPECIFICATION FairSpec
INVARIANTS
  SleeperIsListed
PROPERTY
  SleepEnds
