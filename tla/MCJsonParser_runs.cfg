CONSTANTS
  Order <- KeyOrder
  Scalars = {}
  MaxTokens = 10
  MaxRefused = 2
SPECIFICATION Spec
CHECK_DEADLOCK FALSE
INVARIANTS
  StacksAgree
  KeptIsWanted
  ParsesTheText
  AcceptsTheGrammar
