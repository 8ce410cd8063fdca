CONSTANTS
  Order <- Devs
  Line <- Irqs
  Level = {11}
  Early = {"ps2"}
  Polled = {"ps2"}
  MaxRaises = 2
  Secs = 2
  Mins = 2
  MaxUpdates = 1
  NumCores = 2
  W = 65536
  Lengths = {1, 2, 8, 20}
  Widths = {1, 2, 4}
  MaxRanges = 9
  Machines <- PCs
  Buses = 2
  Slots = 4
  Functions = 2
  max_num_cpus = 4
  WaitTicks = 2
SPECIFICATION MCSpec
CHECK_DEADLOCK FALSE
INVARIANTS
  HandlersAreExclusive
  DateIsWhole
  ScanFindsAll
  RangesAreDisjoint
PROPERTIES
  RaisedIsServed
  TicksGoOn
  EveryListedCpuStarts
