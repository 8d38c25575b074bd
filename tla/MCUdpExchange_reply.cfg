CONSTANTS
  None = None
  Damaged = Damaged
  Failure = Failure
  c1 = c1
  c2 = c2
  Clients = {c1, c2}
  Sizes = {36, 70}
  EndsInNumber = FALSE
  MaxCalls = 1
  MaxFaults = 0
SPECIFICATION Spec
INVARIANTS
  ReturnIsTheReply
CHECK_DEADLOCK FALSE
