CONSTANTS
  W = 64
  H = 2
  Base = 9
  Size = 26
  MaxUsed = 5
  Layouts <- SmallLayouts
  Levels <- NoLevels
  Modules = {"interrupts"}
  LogCapacity = 3
  MaxLogs = 2
  LogCpus = 2
SPECIFICATION MCSpec
CHECK_DEADLOCK FALSE
INVARIANTS
  HeapIsTiled
  NoFitMeansNoRoom
PROPERTY
  LoggedIsPrinted
