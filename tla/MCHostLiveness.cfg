\* One call, one caller of cancel, one of shutdown who may abort and come
\* again, fair.
CONSTANTS
  id1 = id1
  b1 = b1
  x1 = x1
  s1 = s1
  RequestIds <- OneId
  MaxSequence = 2
  MaxAttemptSequence = 2
  Backends <- OneBackend
  FinalClasses <- IsCancelled
  Cancellers <- OneCanceller
  Callers <- OneCaller
SPECIFICATION FairSpec
INVARIANTS
  AbandonedOnlyWhenFaulted
  CleanShutdownIsQuiet
PROPERTIES
  ShutdownCompletes
  CallersReturn
  CancelledTicketsAreAnswered
\* The host may be closed with every call returned: it really stops.
CHECK_DEADLOCK FALSE
