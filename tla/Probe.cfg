SPECIFICATION Spec
CONSTANTS
  U16Size = 8
  Inputs <- AllInputs
  MaxPattern = 4
  MaxText = 5
INVARIANTS TypeOK NoFalseMatch NoMissedMatch NothingLate NextLiteralIsBehind FreshAtRowStart SegmentExists
PROPERTY EmitsWhatEndsHere
