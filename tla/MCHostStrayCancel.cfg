\* A ticket cancel racing the reuse of its id.
CONSTANTS
  id1 = id1
  b1 = b1
  x1 = x1
  s1 = s1
  RequestIds <- OneId
  MaxSequence = 3
  MaxAttemptSequence = 2
  Backends <- OneBackend
  FinalClasses <- Finals
  Cancellers <- NoOne
  Callers <- NoOne
SPECIFICATION Spec
INVARIANTS
  TicketCancelIsScoped
\* The host may be closed with every call returned: it really stops.
CHECK_DEADLOCK FALSE
