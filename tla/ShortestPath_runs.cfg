CONSTANTS
  Elements = {a, b, c}
  Weights = {0, 2}
  INFINITY = 100
  MaxLinks = 3
  Nobody = Nobody
SPECIFICATION FairSpec
INVARIANTS
  FindsShortest
PROPERTIES
  SettledStays
  SearchEnds
CHECK_DEADLOCK FALSE
