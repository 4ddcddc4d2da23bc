CONSTANTS
  UserIds = {0, 1, 2}
  Interests = {1}
  Locations <- MCLocations
  locationtree <- MCLocationtree
  NewUsers <- MCNewUsers
  Changes <- MCChanges
  NoUser = NoUser
  LocationRows <- MCLocationRows
  UserRows <- MCUserRows
SPECIFICATION LoaderSpec
INVARIANTS
  TypeOK
  MapsAgree
  FreeStackExact
  LocListExact
  ListsInRange
  NoWastedSpace
  LoadedAsWritten
PROPERTIES
  SlotsStable
  ImplementsDirectory
\* A process that exited or crashed takes no further step.
CHECK_DEADLOCK FALSE
