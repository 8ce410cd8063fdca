CONSTANTS
  N = 3
  Bsp = bsp
  Irq = irq
  Producers = {bsp, irq, ap}
  Overlap = FALSE
  MaxPush = 4
SPECIFICATION FairSpec
INVARIANTS
  PopsAreFifo
  LateIsFound
PROPERTY EveryPushPopped
