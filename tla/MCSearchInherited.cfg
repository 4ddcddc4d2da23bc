CONSTANTS
  UserIds = {1, 2}
  Interests = {0}
  Locations <- MCLocations
  locationtree <- MCLocationtree
  NewUsers <- MCNewUsers
  Changes <- MCChanges
  Queries <- Criteria
  NoUser = NoUser
SPECIFICATION HistSpec
INVARIANT ListedAsGiven
\* A crashed process takes no further step.
CHECK_DEADLOCK FALSE
