\* A pusher, chunks of several model runs and of none, complete audio.
CONSTANTS
  p1 = p1
  Pushers <- OnePusher
  MaxPushes = 2
  FrameCounts = {0, 5}
  CompleteFrames = {0, 5}
  MaxAudioFrames = 6
  ModelFrames = 2
  AudioCapacity = 1
  EventCapacity = 2
  Inputs = {"Complete", "Stream"}
SPECIFICATION FairSpec
INVARIANTS
  AcceptedAudioIsHeard
  TerminalNeverBlocks
  EventsAgreeWithFinal
  CancelStopsTheModel
PROPERTIES
  ImplementsBackend
  RequestsAreAnswered
\* A client may never finish its stream: the worker then waits for ever.
CHECK_DEADLOCK FALSE
