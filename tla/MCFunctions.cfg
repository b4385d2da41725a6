SPECIFICATION MCSpec
CONSTANTS
  Programs <- MCPrograms
  NotNames <- MCNotNames
  MaxChain = 3
  MaxMoves = 3
  MaxNatives = 3
  Exceptions = {e1, e2}
  Results = {v1}
  MaxNest = 3
  MaxFrames = 2
  MaxBlocks = 1
  Tries <- MCTries
  LoopForms <- MCLoops
  Unsound = {}
SYMMETRY Symmetry
INVARIANTS VariablesRight StackMemoryRight CallsRight StackAsCompiled
PROPERTIES CapturedKept ImplementsCompletions
CHECK_DEADLOCK FALSE
