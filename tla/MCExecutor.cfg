CONSTANTS
  Tasks = {svc, t1, t2}
  Service = svc
  Aps = {c1}
  Bsp = bsp
  None = none
SPECIFICATION FairSpec
INVARIANTS
  OnePlace
  NoTaskOutlivesRound
PROPERTY WokenIsPolled
