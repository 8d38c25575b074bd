CONSTANTS
  l1 = l1
  l2 = l2
  l3 = l3
  Libs = {l1, l2, l3}
  Removable = {}
  Unloadable = {}
  Blank = {}
  Loggers = {l3}
  Misconfigured = {}
  Kept = {}
  Requires <- MCChain
  MaxLoads = 2
SPECIFICATION MCSpec
INVARIANTS
  InstancesInOpenLibraries
