SPECIFICATION MCSpec
CONSTANTS
  one = one
  true = true
  seven = seven
  dict = dict
  NoKey = NoKey
  NoValue = NoValue
  Key = {one, true, seven, dict}
  Unhashable = {dict}
  Value = {v1, v2}
  Hash <- MCHash
  EqualTo <- MCEqualTo
  StartCapacity = {0, 2, 4}
  MaxCapacity = 8
  None = None
  End = End
  Nobody = Nobody
  Nothing = Nothing
  s = s
  t = t
  Threads <- MCThreads
  Worth <- MCWorth
  Elements <- MCElements
  MaxLen = 3
  ToSort <- MCToSort
  Indices <- MCIndices
  Slices <- MCSlices
  Sequels <- MCSequels
  Ranges <- MCRanges
  Wanted <- MCWanted
  Simple = {t}
  Nested = {"contains"}
  Unsound = {}
INVARIANTS ProbeEnds EveryPairFound SequencesRight  RunsInOrder
PROPERTIES PositionsStable ImplementsOrderedMap 
