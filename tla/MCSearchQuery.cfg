CONSTANTS
  UserIds = {1, 2}
  Interests = {1}
  Locations <- MCLocations
  locationtree <- MCLocationtree
  NewUsers <- MCNewUsers
  Changes <- MCChanges
  Queries <- MCQueries
  NoUser = NoUser
SPECIFICATION HistSpec
INVARIANTS
  SearchExact
  PagesFit
  RandomFindsOne
\* A crashed process takes no further step.
CHECK_DEADLOCK FALSE
