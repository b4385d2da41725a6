SPECIFICATION MCSpec
CONSTANTS
  x = x
  y = y
  Names <- MCNames
  Self = "self"
  Sizes <- MCSizes
  Sources <- MCSources
  Rewound <- MCRewound
  Changes = 3
  Trees <- MCTrees
  MaxTests = 2
  Unsound = {}
SYMMETRY MCSymmetry
INVARIANTS NamesResolved SlotsRight  TokensRight ExpressionsRight
CHECK_DEADLOCK FALSE
