SPECIFICATION Spec
CONSTANTS
  Object = Object
  Type = Type
  A = A
  B = B
  eq = eq
  hash = hash
  init = init
  function = function
  classmethod = classmethod
  static = static
  data = data
  reader = reader
  plain = plain
  none = none
  x = x
  Null = Null
  Classes <- MCClasses
  Instances = {x}
  Names <- MCNames
  Dunders <- MCDunders
  Specials <- MCSpecials
  Values <- MCValues
  Kind <- MCKind
  NoHash = none
  Addresses <- MCAddresses
  Line <- MCLine
  Lines = {1}
  Growth = 2
  ObjectTable <- MCObjectTable
  Programs <- MCPrograms
  Unsound = {}
INVARIANTS CacheTruthful EqualNeedsHash RepliesRight
PROPERTY ImplementsAttributes
