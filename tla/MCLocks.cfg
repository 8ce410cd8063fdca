CONSTANTS
  Tasks = {t1, t2, t3}
  PollLockers = {t3}
  NumCpus = 3
  Aps = {a1, a2}
  MaxDepth = 4
  MaxGuards = 3
SPECIFICATION MCSpec
INVARIANTS
  NoSelfDeadlock
PROPERTIES
  ImplementsLock
  FreeMutexIsTaken
