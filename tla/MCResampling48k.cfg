\* The same at 48 kHz.
CONSTANTS
  Rates <- Thrice
  MaxChunk = 6
  MaxSamples = 14
  ModelFrames = 4
SPECIFICATION Spec
INVARIANTS
  StreamedMatchesComplete
CHECK_DEADLOCK FALSE
