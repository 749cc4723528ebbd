SPECIFICATION Spec
CONSTANTS
  Letters = {97, 98}
  Patterns <- ShortPatterns
  Texts <- ShortTexts
  MaxPattern = 5
  MaxText = 7
INVARIANTS MatchPosIsLongest FoundIffOccurs
