CONSTANTS
  None = None
  Damaged = Damaged
  Failure = Failure
  c1 = c1
  c2 = c2
  Clients = {c1, c2}
  Sizes = {36, 70, 70000}
  EndsInNumber = TRUE
  MaxCalls = 3
  MaxFaults = 1
SPECIFICATION FairSpec
CONSTRAINT SomethingPromised
INVARIANTS
  SerialNeverExits
  IntactPairsKeepServerUp
PROPERTIES
  SerialAnswered
  ImplementsCallService
CHECK_DEADLOCK FALSE
