SPECIFICATION MCSpec
CONSTANTS
  x = x
  y = y
  Names <- MCNames
  Self = "self"
  Sizes <- OneSize
  Sources <- NoSources
  Rewound <- NoSources
  Changes = 3
  Trees <- NoTrees
  MaxTests = 2
  Unsound = {"class"}
SYMMETRY MCSymmetry
INVARIANTS SlotsRight
CHECK_DEADLOCK FALSE
