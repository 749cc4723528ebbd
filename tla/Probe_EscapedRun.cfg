SPECIFICATION Spec
CONSTANTS
  U16Size = 65536
  Inputs <- EscapedRunInput
  MaxPattern = 0
  MaxText = 0
INVARIANT NextLiteralIsBehind
