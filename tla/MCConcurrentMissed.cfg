CONSTANTS
  Users = {1, 2}
  Locations = {1, 2, 3}
  LocPath <- MCLocPath
  Threads = {t1}
  Wanted <- MCWanted
  MaxUpdates = 2
SPECIFICATION Spec
INVARIANT SettledFound
