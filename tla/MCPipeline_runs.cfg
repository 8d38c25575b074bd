CONSTANTS
  Contexts = {c1}
  StartStates <- MCStartStates
  Priorities <- MCPriorities
  RegStates = {0, 1, 6, 7}
  Jump <- MCJump
  MaxCallbacks = 3
SPECIFICATION MCFairSpec
INVARIANTS
  ListsOrdered
  OutcomeSound
PROPERTIES
  ErrorStopsProcessing
  EveryRunEnds
  ImplementsContract
