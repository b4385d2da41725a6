SPECIFICATION MCSpec
CONSTANTS
  None = None
  HashSpan = 4096
  Literals <- MCLiterals
  Arguments <- MCArguments
  Integral <- MCIntegral
  MaxCodes = 3
  DIGIT_SHIFT = 3
  IntBits = 6
  ByteBits = 2
  AccumLimit = 128
  Bases = {2, 8, 10}
  Lengths = {0, 1, 2, 3, 4, 5}
  MaxValue = 100
  MaxPowerBits = 20
  Unsound = {}
INVARIANTS StringsTruthful MethodsRight NotationRight
PROPERTY ImplementsArithmetic
