\* Three workers, an archive of two, one waiter, under the runtime's fairness.
CONSTANTS
  w1 = w1
  MaxSequence = 4
  ArchiveCapacity = 2
  Waiters <- OneWaiter
SPECIFICATION FairSpec
INVARIANTS
  NeverFaults
  FailureSummaryIsExact
  DrainedMeansDone
PROPERTIES
  ImplementsSupervisedTasks
  ClosedWaitersReturn
