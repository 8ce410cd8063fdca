CONSTANTS
  N = 2
  Bsp = bsp
  Irq = irq
  Producers = {ap1, ap2}
  Overlap = TRUE
  MaxPush = 4
SPECIFICATION Spec
INVARIANTS
  OnlyModifierOfTail
