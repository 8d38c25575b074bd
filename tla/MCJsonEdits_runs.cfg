CONSTANTS
  Documents <- MCDocuments
  Values <- MCValues
  Operations <- MCOperations
  Merges <- MCMerges
  Keys <- MCKeys
  Lists <- MCLists
  MaxEdits = 2
SPECIFICATION Spec
INVARIANTS DiffPatches FlattenRestores AddedIsThere
CHECK_DEADLOCK FALSE
