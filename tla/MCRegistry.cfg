\* Two ids over two generations, two attempts each, and more progress than
\* its queue holds.
CONSTANTS
  id1 = id1
  id2 = id2
  OpIds <- Ids
  MaxSequence = 3
  MaxAttemptSequence = 3
  ProgressCapacity = 1
  ProgressValues = {1, 2}
  MaxPublished = 2
SPECIFICATION Spec
SYMMETRY IdSymmetry
INVARIANTS
  OneFate
  CancelReachesOnlyItsGeneration
  AttemptsBelongToTheirLeases
  ProgressIsLatest
PROPERTIES
  ImplementsLedger
