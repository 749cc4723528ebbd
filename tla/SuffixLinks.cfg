SPECIFICATION Spec
CONSTANTS
  KeywordSets <- SmallKeywordSets
  MaxCodePoints = 3
INVARIANTS IInv LinksAreLongest ChainsReachRoot
