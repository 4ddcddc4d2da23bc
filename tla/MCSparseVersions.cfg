SPECIFICATION VersionsSpec
CONSTANTS
  Indices = {1, 2, 40, 80, 120, 160, 200}
  splitthreshhold = 16
  jointhreshhold = 16
  MaxJoins = 3
INVARIANTS
  BothTypesOK
  BothCanonical
  FramesPartition
  BothReadExact
  BitsAsAsked
  VersionsAgree
\* An array that is no longer sound is not followed further.
CHECK_DEADLOCK FALSE
