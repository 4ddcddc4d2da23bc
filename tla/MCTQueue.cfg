CONSTANTS
  Items = {i1, i2, i3}
  Poppers = {t1, t2, t3}
  Pushers = {p1, p2}
  Switchers = {m1}
  MaxSwitches = 2
SPECIFICATION FairSpec
INVARIANTS
  TypeOK
  WakeupsSuffice
  NoSleeperInNonblock
PROPERTIES
  ImplementsFifo
  EveryItemDelivered
  NonblockReleases
\* Every item delivered, nobody left to push.
CHECK_DEADLOCK FALSE
