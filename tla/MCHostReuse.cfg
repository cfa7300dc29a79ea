\* Two calls of one id on one backend, with quiesce and shutdown.
CONSTANTS
  id1 = id1
  b1 = b1
  x1 = x1
  s1 = s1
  RequestIds <- OneId
  MaxSequence = 3
  MaxAttemptSequence = 2
  Backends <- OneBackend
  FinalClasses <- Completes
  Cancellers <- NoOne
  Callers <- OneCaller
SPECIFICATION Spec
INVARIANTS
  RoutesMatchOperations
  LifecycleCallsSucceed
  CancelIsNeverLost
  OnlyRacingCancelsStray
PROPERTIES
  ImplementsService
\* The host may be closed with every call returned: it really stops.
CHECK_DEADLOCK FALSE
