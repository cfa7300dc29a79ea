\* Two calls and a probe on one executor thread, one caller of shutdown, fair.
CONSTANTS
  id1 = id1
  id2 = id2
  c1 = c1
  c2 = c2
  p1 = p1
  s1 = s1
  RequestIds <- TwoIds
  MaxNonce = 2
  Callers <- OneCaller
  Calls <- TwoCalls
  RequestOf <- Apart
  Probes <- OneProbe
  Executors = 1
  Utterances <- SomeUtterances
  Bytes <- SomeBytes
  U16Max = 64
  U32Max = 72
SPECIFICATION FairAppleSpec
INVARIANTS
  NativeCallsDoNotOverlap
  EncodedAudioIsWhole
  ClosedMeansQuiet
PROPERTIES
  NobodyWaitsForever
\* A closed backend whose callers have returned really stops.
CHECK_DEADLOCK FALSE
