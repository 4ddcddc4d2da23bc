CONSTANTS
  UserIds = {0, 1}
  Interests = {1}
  Locations <- MCLocations
  locationtree <- MCLocationtree
  NewUsers <- MCNewUsers
  Changes <- MCChanges
  NoUser = NoUser
SPECIFICATION Spec
PROPERTY DeletingIsSafe
CHECK_DEADLOCK FALSE
