\* Every way to cut up to twenty samples, up to 32 kHz.
CONSTANTS
  Rates <- UpToTwice
  MaxChunk = 8
  MaxSamples = 20
  ModelFrames = 4
SPECIFICATION Spec
INVARIANTS
  StreamedMatchesComplete
\* A stream ends.
CHECK_DEADLOCK FALSE
