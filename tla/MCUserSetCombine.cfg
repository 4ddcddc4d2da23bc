CONSTANTS
  Values = {1, 2, 3, 4, 5}
  MaxLists = 3
  skip = 1
SPECIFICATION Spec
INVARIANTS
  TypeOK
  NewlistFits
  NothingMissed
  AgreesWithLinear
PROPERTY Terminates
