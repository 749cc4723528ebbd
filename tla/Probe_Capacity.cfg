SPECIFICATION Spec
CONSTANTS
  U16Size = 65536
  Inputs <- CapacityInput
  MaxPattern = 0
  MaxText = 0
INVARIANT NoMissedMatch
