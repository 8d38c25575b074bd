CONSTANTS
  Documents <- MCDocuments
  Inputs <- MCInputs
  MaxKept = 12
  Memory <- MCMemory
  Texts <- MCTexts
  Room = 14
SPECIFICATION MCSpec
INVARIANTS ReadBack CutIsRefused SizesAreTrue BufferHolds WellFormed
CHECK_DEADLOCK FALSE
