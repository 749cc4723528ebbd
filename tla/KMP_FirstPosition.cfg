SPECIFICATION Spec
CONSTANTS
  Letters = {97, 98}
  Patterns <- ShortPatterns
  Texts <- ShortTexts
  MaxPattern = 2
  MaxText = 4
INVARIANT ReturnsFirstPosition
