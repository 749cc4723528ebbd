SPECIFICATION CodecSpec
CONSTANTS
  CodePoints <- Boundaries
  WriterLimits = {3, 8, 13}
  MaxCodePoints = 3
INVARIANTS RoundTrip BackIsBegin DecodersAgree
CHECK_DEADLOCK FALSE
