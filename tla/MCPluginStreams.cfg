\* Two streams under two ids or one, one caller of shutdown who may come again.
CONSTANTS
  id1 = id1
  id2 = id2
  c1 = c1
  RequestIds <- TwoIds
  MaxNonce = 2
  Callers <- OneCaller
SPECIFICATION FairPluginSpec
INVARIANTS
  ResultIsTrue
  NoSinkOutlivesItsCommand
PROPERTIES
  ImplementsBackend
  SinkIsLostOnlyToOverlap
  CallersReturn
\* A closed backend whose callers have returned really stops.
CHECK_DEADLOCK FALSE
