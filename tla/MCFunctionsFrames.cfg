SPECIFICATION MCSpec
CONSTANTS
  Programs <- OnlyGenerators
  NotNames <- MCNotNames
  MaxChain = 3
  MaxMoves = 3
  MaxNatives = 3
  Exceptions = {e1}
  Results = {v1}
  MaxNest = 1
  MaxFrames = 1
  MaxBlocks = 0
  Tries <- MCTries
  LoopForms <- MCLoops
  Unsound = {}
INVARIANT FramesFit
CHECK_DEADLOCK FALSE
