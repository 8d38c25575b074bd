CONSTANTS
  l1 = l1
  l2 = l2
  l3 = l3
  Libs = {l1, l2, l3}
  Removable = {l3}
  Unloadable = {l1}
  Blank = {l3}
  Loggers = {l1}
  Misconfigured = {l2}
  Kept = {l1, l2}
  Requires <- MCChain
  MaxLoads = 3
SPECIFICATION MCSpec
INVARIANTS
  CallbacksValid
  ReadyComplete
  OrphansOwned
