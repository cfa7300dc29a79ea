-------------------------- MODULE SpeechHostProofs --------------------------
(***************************************************************************)
(* For any number of calls, ids, backends, cancellers and callers: the     *)
(* safety properties of the host, by one inductive invariant, Kept.        *)
(*                                                                         *)
(* Kept says stage by stage what an executor, a monitor, a ticket, a       *)
(* canceller and the coordinator may rely on after the lock they decided   *)
(* under was given back.  Its parts need each other: that nothing is left  *)
(* after shutdown needs that monitors stay with their executors, which     *)
(* needs that an executor owns its operation and its route, which needs    *)
(* the registry's own invariant; that one comes from the registry's proofs *)
(* (RP), since the host only ever takes the registry's own steps.          *)
(***************************************************************************)
EXTENDS SpeechHost, TLAPS

RP == INSTANCE OperationRegistryProofs WITH
  OpIds <- RequestIds, ProgressCapacity <- 0, ProgressValues <- {},
  MaxPublished <- 0, published <- [g \in 1 .. (MaxSequence - 1) |-> <<>>]

(* What the executor of a call is bound to the operation in, ...           *)
Holding == {"setup", "dispatching", "admitted", "recancelling", "spawning", "relaying",
            "faulting", "finishing"}

(* ... and where it has also given the route back.                         *)
Ended == {"returning", "delivering", "relayed", "done"}

RegistryKept ==
  /\ R!TypeOK /\ R!OneFate
  /\ R!CancelReachesOnlyItsGeneration /\ R!AttemptsBelongToTheirLeases
  /\ R!TerminalMatchesPhase
  /\ asked \subseteq R!Issued
  /\ attempt_leases \subseteq R!Issued \X R!AttemptNumbers

(* A call holds its operation exactly in the stages Holding: untouched but *)
(* for its phase during setup, and with the one attempt 1 from then on.    *)
ExecutorHolds(g) ==
  /\ executor[g] = "none" <=> g \notin Calls
  /\ g \in Calls => (executor[g] \in Holding <=> R!Holds(g))
  /\ executor[g] = "setup" =>
       /\ operations[leases[g]].phase \in {"Reserved", "Queued", "Running"}
       /\ operations[leases[g]].attempts = {}
       /\ operations[leases[g]].next_attempt_sequence = 1
  /\ executor[g] \in Holding \ {"setup"} =>
       /\ operations[leases[g]].phase = "Running"
       /\ operations[leases[g]].attempts = {1}

ExecutorsHold ==
  /\ executor \in [R!Gens -> Stages]
  /\ \A g \in R!Gens : ExecutorHolds(g)

(* A call owns the route of its id until it has released it, and whoever   *)
(* holds the id after it found it there no more.                           *)
RoutesOwned ==
  /\ selected \in [Calls -> Backends] /\ registered \subseteq Backends
  /\ \A g \in Calls : executor[g] \in Holding \cup {"releasing"} <=> OwnsRoute(g)
  /\ \A id \in DOMAIN routes :
       routes[id].identity \in Calls /\ leases[routes[id].identity] = id
  /\ \A g, h \in Calls : g < h /\ leases[g] = leases[h] => executor[g] \in Ended

(* A monitor relays one call and its ticket; what it answers with is what  *)
(* the backend sent and the registry recorded.                             *)
MonitorRelays(g) ==
  /\ executor[g] \in {"relaying", "delivering", "relayed"} => g \in monitors
  /\ g \in monitors =>
       executor[g] \in {"relaying", "finishing", "releasing", "delivering", "relayed"}
  /\ g \in monitors /\ executor[g] # "relaying" => backend_final[g] # "None"
  /\ g \in monitors /\ executor[g] \notin {"relaying", "finishing"} =>
       released[g].terminal = backend_final[g]
  /\ ticket[g] # "none" => g \in monitors \/ executor[g] = "done"
  /\ ticket[g] = "held" => g \in monitors /\ executor[g] # "relayed"
  /\ ticket[g] \in {"answered", "collected"} =>
       /\ executor[g] \in {"relayed", "done"}
       /\ backend_final[g] # "None"
       /\ released[g].terminal = backend_final[g]

MonitorsRelay ==
  /\ DOMAIN ticket = R!Gens /\ monitors \subseteq Calls
  /\ \A g \in R!Gens : MonitorRelays(g)

(* What a backend holds is a call that was dispatched to it, under its id. *)
BackendsKnowCalls ==
  /\ DOMAIN backend_phase = Backends /\ DOMAIN backend_active = Backends
  /\ backend_final \in [R!Gens -> R!TerminalClass \cup {"None"}]
  /\ \A b \in Backends :
       /\ backend_active[b] \subseteq RequestIds \X R!Gens
       /\ backend_phase[b] = "Closed" => backend_active[b] = {}
       /\ \A e \in backend_active[b] :
            /\ e[2] \in Calls /\ selected[e[2]] = b /\ leases[e[2]] = e[1]
            /\ executor[e[2]] \notin {"setup", "dispatching"}

Unanswered(g) == <<leases[g], g>> \in backend_active[selected[g]] /\ backend_final[g] = "None"

(* A call leaves its backend without an answer only when its monitor was   *)
(* refused, which is after admission closed; so no later call of the id    *)
(* meets an unanswered one.                                                *)
AnsweredBeforeReuse ==
  /\ \A g \in Calls : Unanswered(g) =>
       \/ executor[g] \in {"admitted", "recancelling", "spawning", "relaying"}
       \/ tasks_closed /\ (executor[g] = "faulting" \/ faulted)
  /\ \A g, h \in Calls : g < h /\ leases[g] = leases[h] => ~Unanswered(g)

Newest(g) == \A h \in Calls : leases[h] = leases[g] => h <= g

(* Whoever is bound to cancel at a backend is bound to it for a call, and  *)
(* what quiesce and shutdown captured is the latest of its id.             *)
CancelsAimed ==
  /\ quiesce_cancels \cup shutdown_cancels \subseteq Calls
  /\ \A g \in quiesce_cancels \cup shutdown_cancels : Newest(g)
  /\ DOMAIN canceller = Cancellers
  /\ \A x \in Cancellers : canceller[x].at # "idle" => canceller[x].target \in Calls
  /\ \A g \in R!Gens : ticket[g] \in {"marked", "guarding"} /\ R!Holds(g) => g \in asked
  /\ \A g \in asked : Unanswered(g) => g \in backend_cancelled \cup CancelsUnderWay
  /\ OnlyRacingCancelsStray

(* While the host runs nothing of its end has begun; monitors are refused  *)
(* from the coordinator's first step on.                                   *)
ClosingStages ==
  /\ phase \in {"Running", "Quiescing", "Closed"}
  /\ phase = "Running" => quiesce_cancels = {} /\ shutdown_started = FALSE
  /\ shutdown_started = (coordinator # "none")
  /\ ~shutdown_started => shutdown_cancels = {} /\ shutdown_result = "None"
  /\ tasks_closed = (coordinator \notin {"none", "begin"})
  /\ phase = "Closed" => coordinator = "done"
  /\ shutdown_result # "None" => coordinator = "done" /\ shutdown_result = verdict

(* What the coordinator has seen done stays done.                          *)
Counted == {"draining", "judging", "publishing", "done"}

NothingComesBack ==
  /\ shutdown_started => \A b \in registered \ shutdown_backends : backend_phase[b] = "Closed"
  /\ coordinator \in {"enabling", "checking", "counting", "sleeping"} \cup Counted =>
       shutdown_backends = {}
  /\ coordinator \in Counted /\ verdict = "Ok" => DOMAIN operations = {}
  /\ coordinator \in Counted \ {"draining"} => monitors = {}
  /\ coordinator \in {"publishing", "done"} /\ verdict = "Ok" => ~faulted

Kept ==
  /\ RegistryKept /\ ExecutorsHold /\ RoutesOwned /\ MonitorsRelay /\ BackendsKnowCalls
  /\ AnsweredBeforeReuse /\ CancelsAimed /\ ClosingStages /\ NothingComesBack
---------------------------------------------------------------------------
(* The registry inside the host.                                           *)

LEMMA RegistryBounds == RP!RegistryAssumption
BY HostAssumption DEF RP!RegistryAssumption

LEMMA SameRegistry ==
  RegistryKept <=> RP!TypeOK /\ RP!OneFate /\ RP!Traced /\ RP!TerminalMatchesPhase
<1>1. R!TypeOK <=> RP!TypeOK
  BY DEF R!TypeOK, RP!TypeOK, R!OperationRecord, RP!OperationRecord, R!OperationSnapshot,
     RP!OperationSnapshot, R!Gens, RP!Gens, R!Issued, RP!Issued, R!OperationPhase,
     RP!OperationPhase, R!TerminalClass, RP!TerminalClass, R!AttemptNumbers, RP!AttemptNumbers
<1>2. R!OneFate <=> RP!OneFate
  BY DEF R!OneFate, RP!OneFate, R!Holds, RP!Holds, R!Issued, RP!Issued
<1>3. /\ R!CancelReachesOnlyItsGeneration <=> RP!CancelReachesOnlyItsGeneration
      /\ R!AttemptsBelongToTheirLeases <=> RP!AttemptsBelongToTheirLeases
  BY DEF R!CancelReachesOnlyItsGeneration, RP!CancelReachesOnlyItsGeneration, R!AttemptNumbers,
     RP!AttemptNumbers, R!AttemptsBelongToTheirLeases, RP!AttemptsBelongToTheirLeases
<1>4. R!TerminalMatchesPhase <=> RP!TerminalMatchesPhase
  BY DEF R!TerminalMatchesPhase, RP!TerminalMatchesPhase
<1>5. R!Issued = RP!Issued /\ R!AttemptNumbers = RP!AttemptNumbers
  BY DEF R!Issued, RP!Issued, R!AttemptNumbers, RP!AttemptNumbers
<1> QED BY <1>1, <1>2, <1>3, <1>4, <1>5 DEF RegistryKept, RP!Traced

LEMMA SameRegistryNext ==
  RegistryKept' <=> (RP!TypeOK /\ RP!OneFate /\ RP!Traced /\ RP!TerminalMatchesPhase)'
BY SameRegistry, PTL

LEMMA SameInit == R!Init => RP!Init
BY DEF R!Init, RP!Init, R!NewRecord, RP!NewRecord, R!Snapshot, RP!Snapshot, R!Gens, RP!Gens

LEMMA SameSteps == [R!Next]_(R!vars) => [RP!Next]_(RP!vars)
<1> USE DEF R!Issued, RP!Issued, R!Holds, RP!Holds, R!RecordOf, RP!RecordOf, R!Store, RP!Store,
    R!Retire, RP!Retire, R!Snapshot, RP!Snapshot
<1>1. ASSUME NEW id \in RequestIds, R!Reserve(id) PROVE RP!Reserve(id)
  BY <1>1 DEF R!Reserve, RP!Reserve, R!NewRecord, RP!NewRecord
<1>2. R!RequestCancelAll => RP!RequestCancelAll
  BY DEF R!RequestCancelAll, RP!RequestCancelAll
<1>3. ASSUME NEW g \in R!Issued, R!LeaseStep(g) PROVE RP!LeaseStep(g)
  <2>1. R!Queue(g) \/ R!Start(g) => RP!Queue(g) \/ RP!Start(g)
    BY DEF R!Queue, RP!Queue, R!Start, RP!Start, R!Transition, RP!Transition
  <2>2. ASSUME NEW class, R!Terminal(g, class) PROVE RP!Terminal(g, class)
    BY <2>2 DEF R!Terminal, RP!Terminal
  <2>3. R!Release(g) \/ R!FailSetupAndRelease(g) => RP!Release(g) \/ RP!FailSetupAndRelease(g)
    BY DEF R!Release, RP!Release, R!FailSetupAndRelease, RP!FailSetupAndRelease
  <2>4. R!RequestCancel(g) => RP!RequestCancel(g)
    BY DEF R!RequestCancel, RP!RequestCancel, R!MarkCancelled, RP!MarkCancelled
  <2>5. R!StartAttempt(g) => RP!StartAttempt(g)
    BY DEF R!StartAttempt, RP!StartAttempt
  <2> QED BY <1>3, <2>1, <2>2, <2>3, <2>4, <2>5 DEF R!LeaseStep, RP!LeaseStep, R!TerminalClass,
             RP!TerminalClass
<1>4. ASSUME NEW g \in R!Issued, NEW a \in R!AttemptNumbers, R!AttemptStep(g, a)
      PROVE  RP!AttemptStep(g, a)
  <2>1. ASSUME NEW class, R!FinishAttemptAndRelease(g, a, class)
        PROVE  RP!FinishAttemptAndRelease(g, a, class)
    BY <2>1 DEF R!FinishAttemptAndRelease, RP!FinishAttemptAndRelease
  <2>2. R!AttemptFinish(g, a) => RP!AttemptFinish(g, a)
    BY DEF R!AttemptFinish, RP!AttemptFinish
  <2> QED BY <1>4, <2>1, <2>2 DEF R!AttemptStep, RP!AttemptStep, R!TerminalClass, RP!TerminalClass
<1>5. ASSUME NEW g \in armed, R!GuardStep(g) PROVE RP!GuardStep(g)
  BY <1>5 DEF R!GuardStep, RP!GuardStep, R!ConsumerDrop, RP!ConsumerDrop, R!ConsumerDisarm,
     RP!ConsumerDisarm, R!MarkCancelled, RP!MarkCancelled
<1>6. UNCHANGED R!vars => UNCHANGED RP!vars
  BY DEF R!vars, RP!vars
<1>7. R!AttemptNumbers = RP!AttemptNumbers
  BY DEF R!AttemptNumbers, RP!AttemptNumbers
<1> QED BY <1>1, <1>2, <1>3, <1>4, <1>5, <1>6, <1>7 DEF R!Next, RP!Next

(* Whatever the host does to the registry is a step of the registry, so    *)
(* the registry keeps its own promises.                                    *)
LEMMA RegistryStep ==
  ASSUME RegistryKept, [R!Next]_(R!vars)
  PROVE  RegistryKept'
<1>1. [RP!Next]_(RP!vars)
  BY SameSteps
<1>2. RP!TypeOK /\ RP!OneFate /\ RP!Traced /\ RP!TerminalMatchesPhase
  BY SameRegistry
<1>3. RP!TypeOK' /\ RP!OneFate'
  BY <1>1, <1>2, RegistryBounds, RP!NextTyped, RP!OneFateStep
<1>4. RP!Traced' /\ RP!TerminalMatchesPhase'
  BY <1>1, <1>2, RegistryBounds, RP!TracedStep, RP!SoundStep
<1> QED BY <1>3, <1>4, SameRegistryNext

---------------------------------------------------------------------------
(* The calls: issued, numbered from 1, and what holding says of them.      *)
USE DEF Calls

LEMMA CallsAreGens ==
  ASSUME RegistryKept
  PROVE  /\ next_sequence \in 1 .. MaxSequence
         /\ Calls = 1 .. (next_sequence - 1)
         /\ Calls \subseteq R!Gens
         /\ leases \in [Calls -> RequestIds]
         /\ next_sequence \notin Calls
         /\ next_sequence < MaxSequence => next_sequence \in R!Gens
BY HostAssumption DEF RegistryKept, R!TypeOK, R!Issued, R!Gens

LEMMA RecordsAreHeld ==
  ASSUME RegistryKept, NEW id \in DOMAIN operations
  PROVE  /\ operations[id] \in R!OperationRecord
         /\ operations[id].identity \in Calls
         /\ leases[operations[id].identity] = id
         /\ R!Holds(operations[id].identity)
BY DEF RegistryKept, R!TypeOK, R!OneFate, R!Holds

LEMMA HeldOrReleased ==
  ASSUME RegistryKept, NEW g \in Calls
  PROVE  R!Holds(g) <=> g \notin DOMAIN released
BY DEF RegistryKept, R!OneFate

(* Nobody but the executor of a call ends its operation, and the class it  *)
(* ends with is one of the registry's.                                     *)
LEMMA FinishEndsProperly ==
  ASSUME Kept, NEW g \in Calls, executor[g] = "finishing"
  PROVE  TerminalsOf(g) \subseteq R!TerminalClass
<1>1. g \in R!Gens
  BY CallsAreGens DEF Kept
<1>2. g \in monitors => backend_final[g] # "None"
  BY <1>1 DEF Kept, MonitorsRelay, MonitorRelays
<1> QED BY <1>1, <1>2 DEF Kept, BackendsKnowCalls, TerminalsOf, R!TerminalClass

LEMMA HostStepsRegistry ==
  ASSUME Kept, [Next]_vars
  PROVE  [R!Next]_(R!vars)
<1> USE DEF registryVars
<1>1. UNCHANGED registryVars => UNCHANGED R!vars
  BY DEF R!vars
<1>2. ASSUME NEW id \in RequestIds, NEW b \in Backends, Reserve(id, b) PROVE R!Next
  BY <1>2 DEF Reserve, R!Next
<1>3. ASSUME NEW g \in Calls, ExecutorStep(g) PROVE [R!Next]_(R!vars)
  <2>1. CASE Setup(g)
    BY <2>1 DEF Setup, R!Next, R!LeaseStep
  <2>2. CASE FinishOperation(g)
    <3>1. PICK terminal \in R!TerminalClass : R!FinishAttemptAndRelease(g, 1, terminal)
      BY <2>2, FinishEndsProperly DEF FinishOperation, Advance
    <3>2. 1 \in R!AttemptNumbers
      BY <3>1 DEF Kept, RegistryKept, R!FinishAttemptAndRelease
    <3> QED BY <3>1, <3>2 DEF R!Next, R!AttemptStep
  <2>3. CASE ReturnError(g)
    BY <2>3 DEF ReturnError, R!Next, R!GuardStep, R!ConsumerDrop
  <2>4. CASE BackendAdmits(g) \/ BackendRejects(g) \/ RecheckCancel(g) \/ Recancel(g)
    BY <1>1, <2>4 DEF BackendAdmits, BackendRejects, RecheckCancel, Recancel
  <2>5. CASE SpawnMonitor(g) \/ MonitorRefused(g) \/ DropExecutor(g) \/ FinalArrives(g)
    BY <1>1, <2>5 DEF SpawnMonitor, MonitorRefused, DropExecutor, FinalArrives
  <2>6. CASE ReleaseRoute(g) \/ Deliver(g) \/ JoinMonitor(g)
    BY <1>1, <2>6 DEF ReleaseRoute, Deliver, JoinMonitor
  <2> QED BY <1>3, <2>1, <2>2, <2>3, <2>4, <2>5, <2>6 DEF ExecutorStep
<1>4. ASSUME NEW g \in Calls, DropTicket(g) \/ TicketProgress(g) PROVE [R!Next]_(R!vars)
  <2>1. CASE DropTicket(g) \/ TicketCaptures(g) \/ TicketCancels(g)
    BY <1>1, <2>1 DEF DropTicket, TicketCaptures, TicketCancels
  <2>2. CASE TicketMarks(g)
    BY <1>1, <2>2 DEF TicketMarks, R!Next, R!LeaseStep
  <2>3. CASE TicketGone(g)
    BY <2>3 DEF TicketGone, R!Next, R!GuardStep, R!ConsumerDrop
  <2> QED BY <1>4, <2>1, <2>2, <2>3 DEF TicketProgress
<1>5. ASSUME NEW x \in Cancellers, CancellerProgress(x) PROVE [R!Next]_(R!vars)
  <2>1. CASE CancelMarks(x)
    <3>1. CASE canceller[x].at = "captured" /\ R!Holds(canceller[x].target)
      <4>1. canceller[x].target \in Calls
        BY <3>1 DEF Kept, CancelsAimed
      <4>2. R!RequestCancel(canceller[x].target)
        BY <2>1, <3>1 DEF CancelMarks
      <4> QED BY <4>1, <4>2 DEF R!Next, R!LeaseStep
    <3>2. CASE ~(canceller[x].at = "captured" /\ R!Holds(canceller[x].target))
      BY <1>1, <2>1, <3>2 DEF CancelMarks
    <3> QED BY <3>1, <3>2
  <2>2. CASE CancelDispatches(x)
    BY <1>1, <2>2 DEF CancelDispatches
  <2> QED BY <1>5, <2>1, <2>2 DEF CancellerProgress
<1>6. CASE Quiesce
  BY <1>6 DEF Quiesce, R!Next
<1>7. ASSUME NEW s \in Callers, ShutdownCalled(s) PROVE [R!Next]_(R!vars)
  BY <1>1, <1>7 DEF ShutdownCalled, R!Next
<1>8. ASSUME \/ \E b \in Backends : RegisterBackend(b) \/ BackendStep(b)
             \/ \E g \in Calls : BackendDeclines(g)
             \/ \E x \in Cancellers, id \in RequestIds : CancelCaptures(x, id)
             \/ \E g \in R!Gens : QuiesceDispatches(g)
             \/ \E s \in Callers : ShutdownRepeated(s) \/ CallerAborts(s)
      PROVE  UNCHANGED registryVars
  BY <1>8 DEF RegisterBackend, BackendStep, HostUnchanged, BackendDeclines, CancelCaptures,
     QuiesceDispatches, ShutdownRepeated, CallerAborts, CallerStep
<1>9. ASSUME NEW s \in Callers, CallerProgress(s) PROVE UNCHANGED registryVars
  BY <1>9 DEF CallerProgress, CallerEnables, CallerChecks, CallerDoubts, CallerWakes, CallerStep
<1>10. CoordinatorStep => UNCHANGED registryVars
  BY DEF CoordinatorStep, CloseTasks, CancelsDone, BackendsDone, CoordinatorCancels, StopBackend,
     BackendStopped, CoordinatorEnables, CoordinatorChecks, CoordinatorCounts, CoordinatorWakes,
     MonitorsDrained, Judge, PublishShutdown, Coordinate
<1>11. UNCHANGED vars => UNCHANGED registryVars
  BY DEF vars
<1> QED BY <1>1, <1>2, <1>3, <1>4, <1>5, <1>6, <1>7, <1>8, <1>9, <1>10, <1>11 DEF Next

---------------------------------------------------------------------------
(* Three kinds of step.  What everybody but the executors does:            *)
Outside ==
  \/ \E b \in Backends : RegisterBackend(b) \/ BackendStep(b)
  \/ \E g \in Calls : DropTicket(g) \/ TicketProgress(g)
  \/ \E x \in Cancellers, id \in RequestIds : CancelCaptures(x, id)
  \/ \E x \in Cancellers : CancellerProgress(x)
  \/ Quiesce
  \/ \E g \in R!Gens : QuiesceDispatches(g)
  \/ \E s \in Callers : ShutdownCalled(s) \/ ShutdownRepeated(s)
  \/ \E s \in Callers : CallerProgress(s) \/ CallerAborts(s)
  \/ CoordinatorStep
  \/ UNCHANGED vars

LEMMA StepKinds ==
  ASSUME [Next]_vars
  PROVE  \/ \E id \in RequestIds, b \in Backends : Reserve(id, b)
         \/ \E g \in Calls : ExecutorStep(g) \/ BackendDeclines(g)
         \/ Outside
BY DEF Next, Outside

(* it marks operations at most, ...                                        *)
OnlyMarked ==
  /\ UNCHANGED <<next_sequence, leases, released>>
  /\ DOMAIN operations' = DOMAIN operations
  /\ \A id \in DOMAIN operations :
       /\ operations'[id].identity = operations[id].identity
       /\ operations'[id].phase = operations[id].phase
       /\ operations'[id].attempts = operations[id].attempts
       /\ operations'[id].next_attempt_sequence = operations[id].next_attempt_sequence
  /\ asked \subseteq asked'

LEMMA MarksOnlyMark ==
  ASSUME RegistryKept,
         \/ R!RequestCancelAll
         \/ \E g \in Calls : R!RequestCancel(g) \/ R!ConsumerDrop(g)
         \/ UNCHANGED registryVars
  PROVE  OnlyMarked
<1> USE DEF OnlyMarked
<1>1. CASE R!RequestCancelAll
  BY <1>1, RecordsAreHeld DEF R!RequestCancelAll, R!OperationRecord
<1>2. ASSUME NEW g \in Calls, R!Holds(g), R!MarkCancelled(g),
             UNCHANGED <<next_sequence, leases, released>>
      PROVE  OnlyMarked
  BY <1>2, RecordsAreHeld DEF R!MarkCancelled, R!Store, R!RecordOf, R!Holds, R!OperationRecord
<1>3. ASSUME NEW g \in Calls, R!RequestCancel(g) \/ R!ConsumerDrop(g) PROVE OnlyMarked
  BY <1>2, <1>3 DEF R!RequestCancel, R!ConsumerDrop
<1>4. CASE UNCHANGED registryVars
  BY <1>4 DEF registryVars
<1> QED BY <1>1, <1>3, <1>4

LEMMA OutsideMarks ==
  ASSUME Kept, Outside
  PROVE  OnlyMarked /\ UNCHANGED <<selected, executor, monitors, routes>>
<1> USE DEF stateVars, callVars, taskVars
<1>1. RegistryKept
  BY DEF Kept
<1>2. CASE \E b \in Backends : RegisterBackend(b) \/ BackendStep(b)
  BY <1>1, <1>2, MarksOnlyMark DEF RegisterBackend, BackendStep, HostUnchanged
<1>3. ASSUME NEW g \in Calls, DropTicket(g) \/ TicketProgress(g)
      PROVE  OnlyMarked /\ UNCHANGED <<selected, executor, monitors, routes>>
  <2>1. \/ UNCHANGED registryVars
        \/ R!RequestCancel(g) \/ R!ConsumerDrop(g)
    BY <1>3 DEF DropTicket, TicketProgress, TicketCaptures, TicketMarks, TicketCancels, TicketGone
  <2>2. UNCHANGED <<selected, executor, monitors, routes>>
    BY <1>3 DEF DropTicket, TicketProgress, TicketCaptures, TicketMarks, TicketCancels, TicketGone,
       TicketStep
  <2> QED BY <1>1, <2>1, <2>2, MarksOnlyMark
<1>4. ASSUME NEW x \in Cancellers, CancellerProgress(x)
      PROVE  OnlyMarked /\ UNCHANGED <<selected, executor, monitors, routes>>
  <2>1. canceller[x].at # "idle" => canceller[x].target \in Calls
    BY DEF Kept, CancelsAimed
  <2>2. \/ UNCHANGED registryVars
        \/ canceller[x].at = "captured" /\ R!RequestCancel(canceller[x].target)
    <3>1. CASE CancelDispatches(x)
      BY <3>1 DEF CancelDispatches
    <3>2. CASE CancelMarks(x) /\ canceller[x].at = "captured" /\ R!Holds(canceller[x].target)
      BY <3>2 DEF CancelMarks
    <3>3. CASE CancelMarks(x) /\ ~(canceller[x].at = "captured" /\ R!Holds(canceller[x].target))
      BY <3>3 DEF CancelMarks
    <3> QED BY <1>4, <3>1, <3>2, <3>3 DEF CancellerProgress
  <2>3. UNCHANGED <<selected, executor, monitors, routes>>
    BY <1>4 DEF CancellerProgress, CancelMarks, CancelDispatches, CancellerStep
  <2> QED BY <1>1, <2>1, <2>2, <2>3, MarksOnlyMark
<1>5. CASE \/ \E x \in Cancellers, id \in RequestIds : CancelCaptures(x, id)
           \/ \E g \in R!Gens : QuiesceDispatches(g)
           \/ \E s \in Callers : ShutdownRepeated(s) \/ CallerAborts(s)
           \/ UNCHANGED vars
  BY <1>1, <1>5, MarksOnlyMark DEF CancelCaptures, CancellerStep, QuiesceDispatches,
     ShutdownRepeated, CallerAborts, CallerStep, vars
<1>6. CASE Quiesce \/ \E s \in Callers : ShutdownCalled(s)
  BY <1>1, <1>6, MarksOnlyMark DEF Quiesce, ShutdownCalled, StartCoordinator
<1>7. CASE \E s \in Callers : CallerProgress(s)
  BY <1>1, <1>7, MarksOnlyMark DEF CallerProgress, CallerEnables, CallerChecks, CallerDoubts,
     CallerWakes, CallerStep
<1>8. CASE CoordinatorStep
  <2>1. UNCHANGED registryVars /\ UNCHANGED callVars /\ UNCHANGED <<monitors, routes>>
    BY <1>8 DEF CoordinatorStep, CloseTasks, CancelsDone, BackendsDone, CoordinatorCancels,
       StopBackend, BackendStopped, CoordinatorEnables, CoordinatorChecks, CoordinatorCounts,
       CoordinatorWakes, MonitorsDrained, Judge, PublishShutdown, Coordinate, T!Close
  <2> QED BY <1>1, <2>1, MarksOnlyMark
<1> QED BY <1>2, <1>3, <1>4, <1>5, <1>6, <1>7, <1>8 DEF Outside

(* ... and no step but an admission adds to a backend.                     *)
BackendQuiet ==
  /\ DOMAIN backend_phase' = Backends /\ DOMAIN backend_active' = Backends
  /\ backend_final' \in [R!Gens -> R!TerminalClass \cup {"None"}]
  /\ \A g \in R!Gens : backend_final[g] # "None" => backend_final'[g] = backend_final[g]
  /\ \A b \in Backends :
       /\ backend_active'[b] \subseteq backend_active[b]
       /\ backend_phase[b] = "Closed" => backend_phase'[b] = "Closed"
       /\ backend_phase'[b] = "Closed" => backend_active'[b] = {}
  /\ backend_cancelled \subseteq backend_cancelled'

LEMMA WorkersAreQuiet ==
  ASSUME BackendsKnowCalls,
         \/ \E b \in Backends : \/ B!WorkerStep(b) \/ B!CompleteShutdown(b)
                                \/ B!BeginShutdown(b)
         \/ \E b, id : B!Cancel(b, id)
         \/ UNCHANGED backendVars
  PROVE  BackendQuiet
<1> USE DEF BackendsKnowCalls, BackendQuiet
<1>1. CASE \E b, id : B!Cancel(b, id)
  BY <1>1 DEF B!Cancel
<1>2. CASE UNCHANGED backendVars
  BY <1>2 DEF backendVars
<1>3. ASSUME NEW b \in Backends, NEW g \in R!Gens, NEW class \in FinalClasses,
             B!SendFinal(b, g, class)
      PROVE  BackendQuiet
  BY <1>3, HostAssumption DEF B!SendFinal, R!TerminalClass
<1>4. ASSUME NEW b \in Backends, NEW id \in RequestIds, NEW g \in R!Gens, B!Reap(b, id, g)
      PROVE  BackendQuiet
  BY <1>4 DEF B!Reap
<1>5. ASSUME NEW b \in Backends, B!CompleteShutdown(b) \/ B!BeginShutdown(b)
      PROVE  BackendQuiet
  BY <1>5 DEF B!CompleteShutdown, B!BeginShutdown
<1> QED BY <1>1, <1>2, <1>3, <1>4, <1>5 DEF B!WorkerStep

LEMMA OnlyAdmissionsAdd ==
  ASSUME Kept, [Next]_vars, \A g \in Calls : ~BackendAdmits(g)
  PROVE  BackendQuiet
<1>1. BackendsKnowCalls
  BY DEF Kept
<1>2. CASE \E id \in RequestIds, b \in Backends : Reserve(id, b)
  BY <1>1, <1>2, WorkersAreQuiet DEF Reserve
<1>3. ASSUME NEW g \in Calls, ExecutorStep(g) \/ BackendDeclines(g) PROVE BackendQuiet
  <2>1. UNCHANGED backendVars \/ B!Cancel(selected[g], leases[g])
    BY <1>3 DEF ExecutorStep, Setup, BackendRejects, BackendDeclines, RecheckCancel, Recancel,
       SpawnMonitor, MonitorRefused, DropExecutor, FinalArrives, FinishOperation, ReleaseRoute,
       ReturnError, Deliver, JoinMonitor, BackendCancel
  <2> QED BY <1>1, <2>1, WorkersAreQuiet
<1>4. CASE Outside
  <2>1. CASE \/ \E b \in Backends : RegisterBackend(b) \/ BackendStep(b)
             \/ UNCHANGED vars
    BY <1>1, <2>1, WorkersAreQuiet DEF RegisterBackend, BackendStep, vars
  <2>2. CASE \E g \in Calls : DropTicket(g) \/ TicketProgress(g)
    BY <1>1, <2>2, WorkersAreQuiet DEF DropTicket, TicketProgress, TicketCaptures, TicketMarks,
       TicketCancels, TicketGone, BackendCancel
  <2>3. CASE \/ \E x \in Cancellers, id \in RequestIds : CancelCaptures(x, id)
             \/ \E x \in Cancellers : CancellerProgress(x)
    BY <1>1, <2>3, WorkersAreQuiet DEF CancelCaptures, CancellerProgress, CancelMarks,
       CancelDispatches, BackendCancel
  <2>4. CASE \/ Quiesce
             \/ \E g \in R!Gens : QuiesceDispatches(g)
             \/ \E s \in Callers : ShutdownCalled(s) \/ ShutdownRepeated(s)
    BY <1>1, <2>4, WorkersAreQuiet DEF Quiesce, QuiesceDispatches, ShutdownCalled,
       ShutdownRepeated, CallerStep, BackendCancel
  <2>5. CASE \E s \in Callers : CallerProgress(s) \/ CallerAborts(s)
    BY <1>1, <2>5, WorkersAreQuiet DEF CallerProgress, CallerEnables, CallerChecks, CallerDoubts,
       CallerWakes, CallerAborts, CallerStep
  <2>6. CASE CoordinatorStep
    BY <1>1, <2>6, WorkersAreQuiet DEF CoordinatorStep, CloseTasks, CancelsDone, BackendsDone,
       CoordinatorCancels, StopBackend, BackendStopped, CoordinatorEnables, CoordinatorChecks,
       CoordinatorCounts, CoordinatorWakes, MonitorsDrained, Judge, PublishShutdown, BackendCancel
  <2> QED BY <1>4, <2>1, <2>2, <2>3, <2>4, <2>5, <2>6 DEF Outside
<1> QED BY <1>2, <1>3, <1>4, StepKinds

---------------------------------------------------------------------------
(* What no step takes back.                                                *)
LEMMA RegistryKeptNext ==
  ASSUME Kept, [Next]_vars
  PROVE  RegistryKept'
BY HostStepsRegistry, RegistryStep DEF Kept

LEMMA CallsAreGensNext ==
  ASSUME RegistryKept'
  PROVE  /\ next_sequence' \in 1 .. MaxSequence
         /\ Calls' = 1 .. (next_sequence' - 1)
         /\ Calls' \subseteq R!Gens
         /\ leases' \in [Calls' -> RequestIds]
<1>1. next_sequence' \in 1 .. MaxSequence
  BY DEF RegistryKept, R!TypeOK
<1>2. leases' \in [1 .. (next_sequence' - 1) -> RequestIds]
  BY DEF RegistryKept, R!TypeOK
<1>3. Calls' = 1 .. (next_sequence' - 1)
  BY <1>2 DEF R!Issued
<1>4. \A m \in 1 .. MaxSequence : 1 .. (m - 1) \subseteq R!Gens
  BY HostAssumption DEF R!Gens
<1> QED BY <1>1, <1>2, <1>3, <1>4

LEMMA ReserveAdds ==
  ASSUME Kept, NEW id \in RequestIds, NEW b \in Backends, Reserve(id, b)
  PROVE  /\ next_sequence \in R!Gens /\ next_sequence \notin Calls
         /\ Calls' = Calls \cup {next_sequence}
         /\ \A g \in Calls : /\ g < next_sequence
                             /\ leases'[g] = leases[g] /\ selected'[g] = selected[g]
         /\ leases'[next_sequence] = id /\ selected'[next_sequence] = b
         /\ DOMAIN selected' = Calls'
<1>1. next_sequence < MaxSequence /\ next_sequence \notin Calls /\ next_sequence \in R!Gens
  BY CallsAreGens DEF Kept, Reserve, R!Reserve
<1>2. \A g \in Calls : g < next_sequence
  BY CallsAreGens DEF Kept
<1>3. DOMAIN selected = Calls
  BY DEF Kept, RoutesOwned
<1> QED BY <1>1, <1>2, <1>3 DEF Reserve, R!Reserve, R!Issued

LEMMA CallsStayPut ==
  ASSUME Kept, [Next]_vars, \A id \in RequestIds, b \in Backends : ~Reserve(id, b)
  PROVE  UNCHANGED <<leases, selected>>
<1> USE DEF registryVars, callVars
<1>1. CASE Outside
  BY <1>1, OutsideMarks DEF OnlyMarked
<1>2. ASSUME NEW g \in Calls, ExecutorStep(g) \/ BackendDeclines(g)
      PROVE  UNCHANGED <<leases, selected>>
  <2>1. CASE Setup(g) \/ FinishOperation(g) \/ ReturnError(g)
    BY <2>1 DEF Setup, FinishOperation, ReturnError, Advance, R!Queue, R!Start, R!Transition,
       R!StartAttempt, R!FinishAttemptAndRelease, R!ConsumerDrop
  <2>2. CASE ~(Setup(g) \/ FinishOperation(g) \/ ReturnError(g))
    BY <1>2, <2>2 DEF ExecutorStep, BackendAdmits, BackendRejects, BackendDeclines, RecheckCancel,
       Recancel, SpawnMonitor, MonitorRefused, DropExecutor, FinalArrives, ReleaseRoute, Deliver,
       JoinMonitor, Advance
  <2> QED BY <2>1, <2>2
<1> QED BY <1>1, <1>2, StepKinds

(* A call keeps its id and its backend, ...                                *)
LEMMA CallsKeepTheirs ==
  ASSUME Kept, [Next]_vars
  PROVE  /\ Calls \subseteq Calls'
         /\ \A g \in Calls : leases'[g] = leases[g] /\ selected'[g] = selected[g]
<1>1. CASE \E id \in RequestIds, b \in Backends : Reserve(id, b)
  BY <1>1, ReserveAdds
<1>2. CASE \A id \in RequestIds, b \in Backends : ~Reserve(id, b)
  BY <1>2, CallsStayPut DEF R!Issued
<1> QED BY <1>1, <1>2

(* ... its executor goes from stage to stage, ...                          *)
LEMMA ExecutorMoves ==
  ASSUME Kept, NEW g \in Calls, ExecutorStep(g) \/ BackendDeclines(g)
  PROVE  /\ UNCHANGED <<selected, phase, shutdown_started, registered, shutdown_result>>
         /\ \E to \in Stages : executor' = [executor EXCEPT ![g] = to]
         /\ \/ /\ executor[g] \in Holding \ {"setup"} /\ executor'[g] \in Holding \ {"setup"}
               /\ UNCHANGED <<registryVars, routes>>
            \/ /\ executor[g] \in Ended /\ executor'[g] \in Ended
               /\ OnlyMarked /\ UNCHANGED routes
            \/ Setup(g) \/ FinishOperation(g) \/ ReleaseRoute(g)
<1>1. RegistryKept
  BY DEF Kept
<1>2. g \in R!Gens /\ executor \in [R!Gens -> Stages]
  BY <1>1, CallsAreGens DEF Kept, ExecutorsHold
<1> USE DEF Advance, Holding, Ended, Stages, stateVars
<1>3. CASE Setup(g) \/ FinishOperation(g) \/ ReleaseRoute(g)
  BY <1>3 DEF Setup, FinishOperation, ReleaseRoute
<1>4. CASE BackendAdmits(g) \/ BackendRejects(g) \/ BackendDeclines(g) \/ RecheckCancel(g)
  BY <1>2, <1>4 DEF BackendAdmits, BackendRejects, BackendDeclines, RecheckCancel
<1>5. CASE Recancel(g) \/ SpawnMonitor(g) \/ MonitorRefused(g) \/ DropExecutor(g) \/ FinalArrives(g)
  BY <1>2, <1>5 DEF Recancel, SpawnMonitor, MonitorRefused, DropExecutor, FinalArrives
<1>6. CASE ReturnError(g) \/ Deliver(g) \/ JoinMonitor(g)
  <2>1. R!ConsumerDrop(g) \/ UNCHANGED registryVars
    BY <1>6 DEF ReturnError, Deliver, JoinMonitor
  <2>2. OnlyMarked
    BY <1>1, <2>1, MarksOnlyMark
  <2> QED BY <1>2, <1>6, <2>2 DEF ReturnError, Deliver, JoinMonitor
<1> QED BY <1>3, <1>4, <1>5, <1>6 DEF ExecutorStep, BackendDeclines

(* ... and what was only marked is held as before.                         *)
LEMMA MarkedIsHeld ==
  ASSUME RegistryKept, OnlyMarked \/ UNCHANGED registryVars
  PROVE  /\ Calls' = Calls /\ leases' = leases /\ released' = released
         /\ DOMAIN operations' = DOMAIN operations
         /\ \A g \in Calls :
              /\ R!Holds(g)' <=> R!Holds(g)
              /\ R!Holds(g) =>
                   /\ operations'[leases[g]].phase = operations[leases[g]].phase
                   /\ operations'[leases[g]].attempts = operations[leases[g]].attempts
                   /\ operations'[leases[g]].next_attempt_sequence =
                        operations[leases[g]].next_attempt_sequence
BY DEF OnlyMarked, registryVars, R!Holds, R!Issued

---------------------------------------------------------------------------
(* The executors and their routes.                                         *)
LEMMA ReserveHolds ==
  ASSUME Kept, NEW id \in RequestIds, NEW b \in Backends, Reserve(id, b)
  PROVE  ExecutorsHold' /\ RoutesOwned'
<1>1. RegistryKept /\ ExecutorsHold /\ RoutesOwned
  BY DEF Kept
<1>2. PICK new \in R!Gens :
        /\ new = next_sequence /\ new \notin Calls
        /\ Calls' = Calls \cup {new} /\ leases'[new] = id
        /\ \A g \in Calls : g < new /\ leases'[g] = leases[g] /\ selected'[g] = selected[g]
        /\ selected'[new] = b /\ DOMAIN selected' = Calls'
  BY ReserveAdds
<1>3. Calls \subseteq R!Gens /\ id \notin DOMAIN operations /\ id \notin DOMAIN routes
  BY <1>1, CallsAreGens DEF Reserve, R!Reserve
<1>4. /\ DOMAIN operations' = DOMAIN operations \cup {id}
      /\ operations'[id] = R!NewRecord(new)
      /\ \A i \in DOMAIN operations : operations'[i] = operations[i]
  BY <1>2, <1>3 DEF Reserve, R!Reserve
<1>5. /\ DOMAIN routes' = DOMAIN routes \cup {id} /\ routes'[id].identity = new
      /\ \A i \in DOMAIN routes : routes'[i] = routes[i]
  BY <1>2, <1>3 DEF Reserve
<1>6. /\ executor' \in [R!Gens -> Stages] /\ executor'[new] = "setup"
      /\ \A g \in R!Gens \ {new} : executor'[g] = executor[g]
  BY <1>1, <1>2 DEF ExecutorsHold, Reserve, Stages
<1>7. /\ R!Holds(new)' /\ OwnsRoute(new)'
      /\ \A g \in Calls : (R!Holds(g)' <=> R!Holds(g)) /\ (OwnsRoute(g)' <=> OwnsRoute(g))
      /\ \A g \in Calls : R!Holds(g) => operations'[leases'[g]] = operations[leases[g]]
  BY <1>2, <1>3, <1>4, <1>5 DEF R!Holds, OwnsRoute, R!NewRecord
<1>8. ExecutorsHold'
  <2>1. ExecutorHolds(new)'
    BY <1>2, <1>4, <1>6, <1>7 DEF ExecutorHolds, R!NewRecord, Holding
  <2>2. ASSUME NEW g \in R!Gens \ {new} PROVE ExecutorHolds(g)'
    BY <1>1, <1>2, <1>6, <1>7, <2>2 DEF ExecutorsHold, ExecutorHolds, Holding
  <2> QED BY <1>6, <2>1, <2>2 DEF ExecutorsHold
<1>9. \A g \in Calls : leases[g] = id => executor[g] \in Ended
  <2>1. ASSUME NEW g \in Calls, leases[g] = id PROVE executor[g] \in Ended
    <3>1. ~OwnsRoute(g) /\ executor[g] \in Stages /\ executor[g] # "none"
      BY <1>1, <1>3, <2>1 DEF ExecutorsHold, ExecutorHolds, OwnsRoute
    <3> QED BY <1>1, <3>1 DEF RoutesOwned, Stages, Holding, Ended
  <2> QED BY <2>1
<1>10. /\ selected' \in [Calls' -> Backends] /\ registered' \subseteq Backends
       /\ \A g \in Calls' : executor'[g] \in Holding \cup {"releasing"} <=> OwnsRoute(g)'
       /\ \A i \in DOMAIN routes' : routes'[i].identity \in Calls' /\ leases'[routes'[i].identity] = i
  <2>1. selected' \in [Calls' -> Backends] /\ registered' \subseteq Backends
    BY <1>1, <1>2 DEF RoutesOwned, Reserve
  <2>2. \A g \in Calls' : executor'[g] \in Holding \cup {"releasing"} <=> OwnsRoute(g)'
    BY <1>1, <1>2, <1>3, <1>6, <1>7 DEF RoutesOwned, Holding
  <2>3. \A i \in DOMAIN routes' : routes'[i].identity \in Calls' /\ leases'[routes'[i].identity] = i
    BY <1>1, <1>2, <1>5 DEF RoutesOwned
  <2> QED BY <2>1, <2>2, <2>3
<1>11. ASSUME NEW g \in Calls', NEW h \in Calls', g < h, leases'[g] = leases'[h]
       PROVE  executor'[g] \in Ended
  <2>1. g # new
    BY <1>2, <1>3, <1>11 DEF R!Gens
  <2>2. CASE h = new
    BY <1>2, <1>3, <1>6, <1>9, <1>11, <2>1, <2>2
  <2>3. CASE h # new
    BY <1>1, <1>2, <1>3, <1>6, <1>11, <2>1, <2>3 DEF RoutesOwned
  <2> QED BY <2>2, <2>3
<1> QED BY <1>8, <1>10, <1>11 DEF RoutesOwned

(* Steps that only mark, and leave the executors in their class of stage.  *)
Reclassed(g) ==
  /\ executor' = [executor EXCEPT ![g] = executor'[g]]
  /\ executor'[g] \in Stages
  /\ \/ executor'[g] = executor[g]
     \/ executor[g] \in Holding \ {"setup"} /\ executor'[g] \in Holding \ {"setup"}
     \/ executor[g] \in Ended /\ executor'[g] \in Ended

LEMMA MarkedStaysKept ==
  ASSUME Kept, OnlyMarked \/ UNCHANGED registryVars, UNCHANGED <<selected, routes>>,
         registered' \subseteq Backends,
         UNCHANGED executor \/ \E g \in Calls : Reclassed(g)
  PROVE  ExecutorsHold' /\ RoutesOwned'
<1>1. RegistryKept /\ ExecutorsHold /\ RoutesOwned
  BY DEF Kept
<1>2. Calls \subseteq R!Gens
  BY <1>1, CallsAreGens
<1>3. /\ Calls' = Calls /\ leases' = leases
      /\ \A g \in Calls :
           /\ R!Holds(g)' <=> R!Holds(g)
           /\ R!Holds(g) =>
                /\ operations'[leases[g]].phase = operations[leases[g]].phase
                /\ operations'[leases[g]].attempts = operations[leases[g]].attempts
                /\ operations'[leases[g]].next_attempt_sequence =
                     operations[leases[g]].next_attempt_sequence
  BY <1>1, MarkedIsHeld
<1>4. /\ executor' \in [R!Gens -> Stages]
      /\ \A g \in R!Gens : \/ executor'[g] = executor[g]
                           \/ executor[g] \in Holding \ {"setup"} /\ executor'[g] \in Holding \ {"setup"}
                           \/ executor[g] \in Ended /\ executor'[g] \in Ended
  BY <1>1, <1>2 DEF Reclassed, ExecutorsHold
<1>5. ASSUME NEW g \in R!Gens PROVE ExecutorHolds(g)'
  BY <1>1, <1>2, <1>3, <1>4 DEF ExecutorsHold, ExecutorHolds, Holding, Ended
<1>6. RoutesOwned'
  <2>1. \A g \in Calls : OwnsRoute(g)' <=> OwnsRoute(g)
    BY <1>3 DEF OwnsRoute
  <2> QED BY <1>1, <1>2, <1>3, <1>4, <2>1 DEF RoutesOwned, Holding, Ended
<1> QED BY <1>4, <1>5, <1>6 DEF ExecutorsHold

(* The steps that write the record of their own call.                      *)
LEMMA SetupKept ==
  ASSUME Kept, NEW g \in Calls, Setup(g)
  PROVE  ExecutorsHold' /\ RoutesOwned'
<1>1. RegistryKept /\ ExecutorsHold /\ RoutesOwned
  BY DEF Kept
<1>2. Calls \subseteq R!Gens
  BY <1>1, CallsAreGens
<1>3. /\ executor[g] = "setup" /\ R!Holds(g) /\ operations[leases[g]] \in R!OperationRecord
      /\ operations[leases[g]].identity = g
      /\ operations[leases[g]].attempts = {} /\ operations[leases[g]].next_attempt_sequence = 1
  <2>1. executor[g] = "setup" /\ R!Holds(g)
    BY DEF Setup, Advance, R!Queue, R!Start, R!Transition, R!StartAttempt
  <2> QED BY <1>1, <1>2, <2>1, RecordsAreHeld DEF ExecutorsHold, ExecutorHolds, R!Holds
<1>4. /\ UNCHANGED <<leases, next_sequence, released>>
      /\ UNCHANGED <<selected, routes, registered>>
  BY DEF Setup, Advance, R!Queue, R!Start, R!Transition, R!StartAttempt, stateVars
<1>5. PICK record :
        /\ operations' = [operations EXCEPT ![leases[g]] = record] /\ record.identity = g
        /\ \/ /\ executor' = [executor EXCEPT ![g] = "setup"]
              /\ record.phase \in {"Queued", "Running"}
              /\ record.attempts = {} /\ record.next_attempt_sequence = 1
           \/ /\ executor' = [executor EXCEPT ![g] = "dispatching"]
              /\ record.phase = "Running" /\ record.attempts = {1}
  <2> DEFINE old == operations[leases[g]]
  <2> USE DEF Advance, R!Store, R!RecordOf
  <2>1. CASE R!Queue(g) /\ Advance(g, "setup", "setup")
    <3> DEFINE new == [old EXCEPT !.phase = "Queued"]
    <3>1. operations' = [operations EXCEPT ![leases[g]] = new]
      BY <2>1 DEF R!Queue, R!Transition
    <3>2. /\ new.identity = g /\ new.phase = "Queued" /\ new.attempts = {}
          /\ new.next_attempt_sequence = 1
      BY <1>3 DEF R!OperationRecord
    <3> QED BY <2>1, <3>1, <3>2
  <2>2. CASE R!Start(g) /\ Advance(g, "setup", "setup")
    <3> DEFINE new == [old EXCEPT !.phase = "Running"]
    <3>1. operations' = [operations EXCEPT ![leases[g]] = new]
      BY <2>2 DEF R!Start, R!Transition
    <3>2. /\ new.identity = g /\ new.phase = "Running" /\ new.attempts = {}
          /\ new.next_attempt_sequence = 1
      BY <1>3 DEF R!OperationRecord
    <3> QED BY <2>2, <3>1, <3>2
  <2>3. CASE R!StartAttempt(g) /\ Advance(g, "setup", "dispatching")
    <3> DEFINE new == [old EXCEPT !.next_attempt_sequence = old.next_attempt_sequence + 1,
                                     !.attempts = @ \cup {old.next_attempt_sequence}]
    <3>1. operations' = [operations EXCEPT ![leases[g]] = new] /\ old.phase = "Running"
      BY <2>3 DEF R!StartAttempt
    <3>2. new.identity = g /\ new.phase = "Running" /\ new.attempts = {1}
      BY <1>3, <3>1 DEF R!OperationRecord
    <3> QED BY <2>3, <3>1, <3>2
  <2> QED BY <2>1, <2>2, <2>3 DEF Setup
<1>6. /\ \A h \in Calls : (R!Holds(h)' <=> R!Holds(h)) /\ (OwnsRoute(h)' <=> OwnsRoute(h))
      /\ \A h \in Calls \ {g} : R!Holds(h) => operations'[leases[h]] = operations[leases[h]]
  BY <1>3, <1>4, <1>5 DEF R!Holds, OwnsRoute
<1>7. operations'[leases[g]] = record
  BY <1>3, <1>5 DEF R!Holds
<1>8. /\ executor' \in [R!Gens -> Stages] /\ executor'[g] \in {"setup", "dispatching"}
      /\ \A h \in R!Gens \ {g} : executor'[h] = executor[h]
  BY <1>1, <1>2, <1>5 DEF ExecutorsHold, Stages
<1>9. Calls' = Calls
  BY <1>4 DEF R!Issued
<1>10. ExecutorsHold'
  <2>1. ExecutorHolds(g)'
    BY <1>2, <1>3, <1>4, <1>5, <1>6, <1>7, <1>8, <1>9 DEF ExecutorHolds, Holding
  <2>2. ASSUME NEW h \in R!Gens \ {g} PROVE ExecutorHolds(h)'
    BY <1>1, <1>2, <1>4, <1>6, <1>8, <1>9, <2>2 DEF ExecutorsHold, ExecutorHolds, Holding
  <2> QED BY <1>8, <2>1, <2>2 DEF ExecutorsHold
<1>11. RoutesOwned'
  BY <1>1, <1>2, <1>3, <1>4, <1>6, <1>8, <1>9 DEF RoutesOwned, Holding, Ended
<1> QED BY <1>10, <1>11

LEMMA FinishKept ==
  ASSUME Kept, NEW g \in Calls, FinishOperation(g)
  PROVE  /\ ExecutorsHold' /\ RoutesOwned' /\ g \in DOMAIN released'
         /\ released'[g].terminal \in TerminalsOf(g)
         /\ \A h \in DOMAIN released \ {g} : h \in DOMAIN released' /\ released'[h] = released[h]
         /\ DOMAIN operations' \subseteq DOMAIN operations
<1>1. RegistryKept /\ ExecutorsHold /\ RoutesOwned
  BY DEF Kept
<1>2. Calls \subseteq R!Gens
  BY <1>1, CallsAreGens
<1>3. /\ executor[g] = "finishing" /\ executor' = [executor EXCEPT ![g] = "releasing"]
      /\ R!Holds(g) /\ operations[leases[g]] \in R!OperationRecord
      /\ UNCHANGED <<leases, next_sequence, selected, routes, registered>>
      /\ operations' = [id \in DOMAIN operations \ {leases[g]} |-> operations[id]]
  <2>1. R!Holds(g)
    BY DEF FinishOperation, R!FinishAttemptAndRelease
  <2> QED BY <1>1, <2>1, RecordsAreHeld DEF FinishOperation, Advance, R!FinishAttemptAndRelease,
             R!Retire, R!Holds, stateVars
<1>4. /\ released' = [h \in DOMAIN released \cup {g} |-> IF h = g THEN released'[g] ELSE released[h]]
      /\ released'[g].terminal \in TerminalsOf(g)
  <2>1. \A terminal : [R!RecordOf(g) EXCEPT !.attempts = {}, !.terminal = terminal].terminal = terminal
    BY <1>3 DEF R!RecordOf, R!OperationRecord
  <2> QED BY <2>1 DEF FinishOperation, R!FinishAttemptAndRelease, R!Retire, R!Snapshot
<1>5. Calls' = Calls
  BY <1>3 DEF R!Issued
<1>6. \A h \in Calls : OwnsRoute(h)' <=> OwnsRoute(h)
  BY <1>3 DEF OwnsRoute
<1>7. /\ ~R!Holds(g)'
      /\ \A h \in Calls \ {g} : /\ R!Holds(h)' <=> R!Holds(h)
                                /\ R!Holds(h) => operations'[leases[h]] = operations[leases[h]]
  BY <1>3 DEF R!Holds
<1>8. /\ executor' \in [R!Gens -> Stages] /\ executor'[g] = "releasing"
      /\ \A h \in R!Gens \ {g} : executor'[h] = executor[h]
  BY <1>1, <1>2, <1>3 DEF ExecutorsHold, Stages
<1>9. ExecutorsHold'
  <2>1. ExecutorHolds(g)'
    BY <1>2, <1>5, <1>7, <1>8 DEF ExecutorHolds, Holding
  <2>2. ASSUME NEW h \in R!Gens \ {g} PROVE ExecutorHolds(h)'
    BY <1>1, <1>2, <1>3, <1>5, <1>7, <1>8, <2>2 DEF ExecutorsHold, ExecutorHolds, Holding
  <2> QED BY <1>8, <2>1, <2>2 DEF ExecutorsHold
<1>10. RoutesOwned'
  BY <1>1, <1>2, <1>3, <1>5, <1>6, <1>8 DEF RoutesOwned, Holding, Ended
<1> QED BY <1>3, <1>4, <1>9, <1>10

LEMMA ReleaseRouteKept ==
  ASSUME Kept, NEW g \in Calls, ReleaseRoute(g)
  PROVE  ExecutorsHold' /\ RoutesOwned'
<1>1. RegistryKept /\ ExecutorsHold /\ RoutesOwned
  BY DEF Kept
<1>2. Calls \subseteq R!Gens
  BY <1>1, CallsAreGens
<1>3. /\ executor[g] = "releasing" /\ UNCHANGED registryVars
      /\ executor' = [executor EXCEPT ![g] = IF g \in monitors THEN "delivering" ELSE "returning"]
      /\ OwnsRoute(g) /\ UNCHANGED <<selected, registered>>
      /\ routes' = [id \in DOMAIN routes \ {leases[g]} |-> routes[id]]
  BY DEF ReleaseRoute, Advance
<1>4. /\ Calls' = Calls /\ leases' = leases
      /\ \A h \in Calls : /\ R!Holds(h)' <=> R!Holds(h)
                          /\ operations'[leases[h]] = operations[leases[h]]
  BY <1>3 DEF R!Issued, R!Holds, registryVars
<1>5. /\ executor' \in [R!Gens -> Stages] /\ executor'[g] \in {"delivering", "returning"}
      /\ \A h \in R!Gens \ {g} : executor'[h] = executor[h]
  BY <1>1, <1>2, <1>3 DEF ExecutorsHold, Stages
<1>6. ~OwnsRoute(g)' /\ \A h \in Calls \ {g} : OwnsRoute(h)' <=> OwnsRoute(h)
  BY <1>3, <1>4 DEF OwnsRoute
<1>7. ExecutorsHold'
  <2>1. ASSUME NEW h \in R!Gens PROVE ExecutorHolds(h)'
    BY <1>1, <1>2, <1>3, <1>4, <1>5 DEF ExecutorsHold, ExecutorHolds, Holding
  <2> QED BY <1>5, <2>1 DEF ExecutorsHold
<1>8. RoutesOwned'
  <2>1. \A id \in DOMAIN routes' : id \in DOMAIN routes /\ routes'[id] = routes[id]
    BY <1>3
  <2>2. \A h \in Calls' : executor'[h] \in Holding \cup {"releasing"} <=> OwnsRoute(h)'
    BY <1>1, <1>2, <1>4, <1>5, <1>6 DEF RoutesOwned, Holding
  <2>3. \A h, i \in Calls' : h < i /\ leases'[h] = leases'[i] => executor'[h] \in Ended
    BY <1>1, <1>2, <1>4, <1>5 DEF RoutesOwned, Ended
  <2> QED BY <1>1, <1>3, <1>4, <2>1, <2>2, <2>3 DEF RoutesOwned
<1> QED BY <1>7, <1>8

LEMMA OnlyBackendsRegister ==
  ASSUME Kept, [Next]_vars
  PROVE  registered' \subseteq Backends
<1> USE DEF stateVars
<1>1. registered \subseteq Backends
  BY DEF Kept, RoutesOwned
<1>2. CASE \E id \in RequestIds, b \in Backends : Reserve(id, b)
  BY <1>1, <1>2 DEF Reserve
<1>3. ASSUME NEW g \in Calls, ExecutorStep(g) \/ BackendDeclines(g) PROVE registered' \subseteq Backends
  BY <1>1, <1>3, ExecutorMoves
<1>4. CASE Outside
  <2>1. ASSUME NEW b \in Backends, RegisterBackend(b) PROVE registered' \subseteq Backends
    BY <1>1, <2>1 DEF RegisterBackend
  <2>2. CASE \/ \E b \in Backends : BackendStep(b)
             \/ \E g \in Calls : DropTicket(g) \/ TicketProgress(g)
             \/ \E x \in Cancellers, id \in RequestIds : CancelCaptures(x, id)
             \/ \E x \in Cancellers : CancellerProgress(x)
    BY <1>1, <2>2 DEF BackendStep, HostUnchanged, DropTicket, TicketProgress, TicketCaptures,
       TicketMarks, TicketCancels, TicketGone, TicketStep, CancelCaptures, CancellerProgress,
       CancelMarks, CancelDispatches, CancellerStep
  <2>3. CASE \/ Quiesce
             \/ \E g \in R!Gens : QuiesceDispatches(g)
             \/ \E s \in Callers : ShutdownCalled(s) \/ ShutdownRepeated(s)
             \/ \E s \in Callers : CallerProgress(s) \/ CallerAborts(s)
             \/ UNCHANGED vars
    BY <1>1, <2>3 DEF Quiesce, QuiesceDispatches, ShutdownCalled, StartCoordinator,
       ShutdownRepeated, CallerProgress, CallerEnables, CallerChecks, CallerDoubts, CallerWakes,
       CallerAborts, CallerStep, vars
  <2>4. CASE CoordinatorStep
    BY <1>1, <2>4 DEF CoordinatorStep, CloseTasks, CancelsDone, BackendsDone, CoordinatorCancels,
       StopBackend, BackendStopped, CoordinatorEnables, CoordinatorChecks, CoordinatorCounts,
       CoordinatorWakes, MonitorsDrained, Judge, PublishShutdown
  <2> QED BY <1>4, <2>1, <2>2, <2>3, <2>4 DEF Outside
<1> QED BY <1>2, <1>3, <1>4, StepKinds

LEMMA ExecutorsHoldNext ==
  ASSUME Kept, [Next]_vars
  PROVE  ExecutorsHold' /\ RoutesOwned'
<1>1. registered' \subseteq Backends
  BY OnlyBackendsRegister
<1>2. CASE \E id \in RequestIds, b \in Backends : Reserve(id, b)
  BY <1>2, ReserveHolds
<1>3. CASE Outside
  BY <1>1, <1>3, OutsideMarks, MarkedStaysKept
<1>4. ASSUME NEW g \in Calls, ExecutorStep(g) \/ BackendDeclines(g)
      PROVE  ExecutorsHold' /\ RoutesOwned'
  <2>1. CASE Setup(g) \/ FinishOperation(g) \/ ReleaseRoute(g)
    BY <2>1, SetupKept, FinishKept, ReleaseRouteKept
  <2>2. CASE /\ OnlyMarked \/ UNCHANGED registryVars
             /\ UNCHANGED routes
             /\ \/ executor[g] \in Holding \ {"setup"} /\ executor'[g] \in Holding \ {"setup"}
                \/ executor[g] \in Ended /\ executor'[g] \in Ended
    <3>1. g \in R!Gens /\ DOMAIN executor = R!Gens
      BY CallsAreGens DEF Kept, ExecutorsHold
    <3>2. Reclassed(g) /\ UNCHANGED selected
      BY <1>4, <2>2, <3>1, ExecutorMoves DEF Reclassed
    <3> QED BY <1>1, <2>2, <3>2, MarkedStaysKept
  <2> QED BY <1>4, <2>1, <2>2, ExecutorMoves
<1> QED BY <1>2, <1>3, <1>4, StepKinds

---------------------------------------------------------------------------
(* The monitors and their tickets.                                         *)
LEMMA BackendMoves ==
  ASSUME Kept, [Next]_vars
  PROVE  BackendQuiet \/ \E g \in Calls : BackendAdmits(g)
BY OnlyAdmissionsAdd

LEMMA FinalsStay ==
  ASSUME Kept, [Next]_vars
  PROVE  /\ backend_final' \in [R!Gens -> R!TerminalClass \cup {"None"}]
         /\ \A g \in R!Gens : backend_final[g] # "None" => backend_final'[g] = backend_final[g]
<1>1. CASE BackendQuiet
  BY <1>1 DEF BackendQuiet
<1>2. CASE \E g \in Calls : BackendAdmits(g)
  BY <1>2 DEF BackendAdmits, B!Admit, Kept, BackendsKnowCalls
<1> QED BY <1>1, <1>2, BackendMoves

(* Outside its executor a ticket moves by steps of its own: a client drops *)
(* it, or collects an answer it has.                                       *)
LEMMA OutsideTickets ==
  ASSUME Kept, Outside
  PROVE  /\ DOMAIN ticket' = R!Gens
         /\ \A g \in R!Gens :
              \/ ticket'[g] = ticket[g]
              \/ g \in Calls /\ (DropTicket(g) \/ TicketProgress(g))
<1>1. DOMAIN ticket = R!Gens
  BY DEF Kept, MonitorsRelay
<1>2. ASSUME \E b \in Backends : RegisterBackend(b) \/ BackendStep(b) PROVE UNCHANGED ticket
  BY <1>2 DEF RegisterBackend, BackendStep, HostUnchanged
<1>3. ASSUME NEW g \in Calls, DropTicket(g) \/ TicketProgress(g)
      PROVE  DOMAIN ticket' = R!Gens /\ \A h \in R!Gens \ {g} : ticket'[h] = ticket[h]
  BY <1>1, <1>3 DEF DropTicket, TicketProgress, TicketCaptures, TicketMarks, TicketCancels,
     TicketGone, TicketStep
<1>4. ASSUME \/ \E x \in Cancellers, id \in RequestIds : CancelCaptures(x, id)
             \/ \E x \in Cancellers : CancellerProgress(x)
             \/ UNCHANGED vars
      PROVE  UNCHANGED ticket
  BY <1>4 DEF CancelCaptures, CancellerProgress, CancelMarks, CancelDispatches,
     CancellerStep, vars
<1>5. ASSUME \/ Quiesce
             \/ \E g \in R!Gens : QuiesceDispatches(g)
             \/ \E s \in Callers : ShutdownCalled(s) \/ ShutdownRepeated(s)
             \/ \E s \in Callers : CallerProgress(s) \/ CallerAborts(s)
      PROVE  UNCHANGED ticket
  BY <1>5 DEF Quiesce, QuiesceDispatches, ShutdownCalled, ShutdownRepeated,
     CallerProgress, CallerEnables, CallerChecks, CallerDoubts, CallerWakes, CallerAborts,
     CallerStep
<1>6. ASSUME CoordinatorStep PROVE UNCHANGED ticket
  BY <1>6 DEF CoordinatorStep, CloseTasks, CancelsDone, BackendsDone, CoordinatorCancels,
     StopBackend, BackendStopped, CoordinatorEnables, CoordinatorChecks, CoordinatorCounts,
     CoordinatorWakes, MonitorsDrained, Judge, PublishShutdown, Coordinate
<1>7. UNCHANGED ticket \/ \E g \in Calls : DropTicket(g) \/ TicketProgress(g)
  BY <1>2, <1>4, <1>5, <1>6 DEF Outside
<1> QED BY <1>1, <1>3, <1>7

TicketMoves(g) ==
  \/ ticket'[g] = ticket[g]
  \/ ticket[g] # "none" /\ ticket'[g] \in {"dropping", "captured", "marked", "guarding", "gone"}
  \/ ticket[g] = "answered" /\ ticket'[g] = "collected"

LEMMA TicketsMove ==
  ASSUME Kept, Outside, NEW g \in R!Gens
  PROVE  TicketMoves(g)
<1>1. DOMAIN ticket = R!Gens
  BY DEF Kept, MonitorsRelay
<1>2. DropTicket(g) \/ TicketProgress(g) => TicketMoves(g)
  BY <1>1 DEF TicketMoves, DropTicket, TicketProgress, TicketCaptures, TicketMarks, TicketCancels,
     TicketGone, TicketStep
<1> QED BY <1>2, OutsideTickets DEF TicketMoves

(* A monitor nobody moves still relays what it relayed.                    *)
LEMMA UndisturbedRelays ==
  ASSUME Kept, [Next]_vars, NEW g \in R!Gens, executor'[g] = executor[g],
         g \in monitors' <=> g \in monitors, TicketMoves(g),
         g \in DOMAIN released => released'[g] = released[g]
  PROVE  MonitorRelays(g)'
<1>1. MonitorRelays(g) /\ (g \in monitors => g \in Calls)
  BY DEF Kept, MonitorsRelay
<1>2. backend_final[g] # "None" => backend_final'[g] = backend_final[g]
  BY FinalsStay
<1>3. executor[g] \in {"releasing", "delivering", "relayed", "done"} => g \in DOMAIN released
  <2>1. ExecutorHolds(g) /\ RegistryKept
    BY DEF Kept, ExecutorsHold
  <2> QED BY <2>1, HeldOrReleased DEF ExecutorHolds, Holding
<1> QED BY <1>1, <1>2, <1>3 DEF MonitorRelays, TicketMoves

(* What an executor does to the tasks and the tickets.                     *)
LEMMA ExecutorRelays ==
  ASSUME Kept, NEW g \in Calls, ExecutorStep(g) \/ BackendDeclines(g)
  PROVE  \/ SpawnMonitor(g) \/ Deliver(g) \/ JoinMonitor(g)
         \/ UNCHANGED <<monitors, ticket>>
BY DEF taskVars, ExecutorStep, BackendDeclines, Setup, BackendAdmits, BackendRejects,
   RecheckCancel, Recancel, MonitorRefused, DropExecutor, FinalArrives, FinishOperation,
   ReleaseRoute, ReturnError

LEMMA ReleasedStays ==
  ASSUME Kept, [Next]_vars
  PROVE  /\ DOMAIN operations' \subseteq DOMAIN operations \/ phase = "Running"
         /\ \A g \in DOMAIN released : \/ g \in DOMAIN released' /\ released'[g] = released[g]
                                       \/ g \in Calls /\ FinishOperation(g)
<1>1. CASE \E id \in RequestIds, b \in Backends : Reserve(id, b)
  BY <1>1 DEF Reserve, R!Reserve
<1>2. CASE Outside
  BY <1>2, OutsideMarks DEF OnlyMarked
<1>3. ASSUME NEW g \in Calls, ExecutorStep(g) \/ BackendDeclines(g)
      PROVE  /\ DOMAIN operations' \subseteq DOMAIN operations
             /\ \A h \in DOMAIN released : \/ h \in DOMAIN released' /\ released'[h] = released[h]
                                           \/ h \in Calls /\ FinishOperation(h)
  <2>1. CASE Setup(g)
    BY <2>1 DEF Setup, R!Queue, R!Start, R!Transition, R!StartAttempt, R!Store
  <2>2. CASE FinishOperation(g)
    BY <2>2, FinishKept
  <2>3. CASE OnlyMarked \/ UNCHANGED registryVars
    BY <2>3 DEF OnlyMarked, registryVars
  <2>4. CASE ReleaseRoute(g)
    BY <2>4, <2>3 DEF ReleaseRoute
  <2> QED BY <1>3, <2>1, <2>2, <2>3, <2>4, ExecutorMoves
<1> QED BY <1>1, <1>2, <1>3, StepKinds

LEMMA MonitorsRelayNext ==
  ASSUME Kept, [Next]_vars
  PROVE  MonitorsRelay'
<1>1. RegistryKept /\ ExecutorsHold /\ MonitorsRelay /\ Calls \subseteq R!Gens
  BY CallsAreGens DEF Kept
<1>2. Calls \subseteq Calls'
  BY CallsKeepTheirs
<1>3. \A g \in DOMAIN released : \/ released'[g] = released[g]
                                 \/ g \in Calls /\ FinishOperation(g)
  BY ReleasedStays
<1>4. CASE \E id \in RequestIds, b \in Backends : Reserve(id, b)
  <2>1. PICK id \in RequestIds, b \in Backends : Reserve(id, b)
    BY <1>4
  <2>2. PICK new \in R!Gens : new = next_sequence /\ new \notin Calls
    BY <2>1, ReserveAdds
  <2>3. UNCHANGED <<monitors, ticket, released>> /\ executor' = [executor EXCEPT ![new] = "setup"]
    BY <2>1, <2>2 DEF Reserve, R!Reserve, taskVars
  <2>4. ASSUME NEW g \in R!Gens PROVE MonitorRelays(g)'
    <3>1. CASE g = new
      <4>1. g \notin monitors /\ executor'[g] = "setup" /\ executor[g] = "none"
        BY <1>1, <2>2, <2>3, <3>1 DEF MonitorsRelay, ExecutorsHold, ExecutorHolds
      <4>2. ticket[g] = "none"
        BY <1>1, <4>1 DEF MonitorsRelay, MonitorRelays
      <4> QED BY <2>3, <4>1, <4>2 DEF MonitorRelays
    <3>2. CASE g # new
      BY <1>1, <2>3, <3>2, UndisturbedRelays DEF TicketMoves, ExecutorsHold
    <3> QED BY <3>1, <3>2
  <2> QED BY <1>1, <1>2, <2>3, <2>4 DEF MonitorsRelay
<1>5. CASE Outside
  <2>1. /\ UNCHANGED <<executor, monitors, released>>
        /\ DOMAIN ticket' = R!Gens /\ \A g \in R!Gens : TicketMoves(g)
    BY <1>5, OutsideMarks, OutsideTickets, TicketsMove DEF OnlyMarked
  <2>2. ASSUME NEW g \in R!Gens PROVE MonitorRelays(g)'
    BY <2>1, UndisturbedRelays
  <2> QED BY <1>1, <1>2, <2>1, <2>2 DEF MonitorsRelay
<1>6. ASSUME NEW g \in Calls, ExecutorStep(g) \/ BackendDeclines(g)
      PROVE  MonitorsRelay'
  <2>1. /\ g \in R!Gens /\ MonitorRelays(g) /\ executor[g] # "none"
        /\ \E to \in Stages : executor' = [executor EXCEPT ![g] = to]
        /\ DOMAIN executor = R!Gens /\ DOMAIN ticket = R!Gens
    BY <1>1, <1>6, ExecutorMoves DEF MonitorsRelay, ExecutorsHold, ExecutorHolds
  <2>2. \A h \in R!Gens \ {g} : executor'[h] = executor[h]
    BY <2>1
  <2>3. /\ monitors' \subseteq Calls /\ DOMAIN ticket' = R!Gens
        /\ \A h \in R!Gens \ {g} : (h \in monitors' <=> h \in monitors) /\ ticket'[h] = ticket[h]
    BY <1>1, <1>6, <2>1, ExecutorRelays DEF MonitorsRelay, SpawnMonitor, Deliver, JoinMonitor,
       T!Admit, T!Join, taskVars
  <2>4. ASSUME NEW h \in R!Gens \ {g} PROVE MonitorRelays(h)'
    <3>1. h \in DOMAIN released => released'[h] = released[h]
      <4>1. CASE FinishOperation(h) /\ h \in Calls
        BY <2>1, <2>2, <4>1 DEF FinishOperation, Advance
      <4> QED BY <1>3, <4>1
    <3> QED BY <2>2, <2>3, <3>1, UndisturbedRelays DEF TicketMoves
  <2>5. MonitorRelays(g)'
    <3>1. /\ backend_final[g] # "None" => backend_final'[g] = backend_final[g]
          /\ g \in DOMAIN released /\ ~FinishOperation(g) => released'[g] = released[g]
      BY <1>3, <2>1, FinalsStay
    <3>2. /\ executor[g] \notin Holding => g \in DOMAIN released
          /\ executor[g] \in {"setup", "dispatching", "admitted", "recancelling", "spawning", "faulting"} =>
               g \notin monitors /\ ticket[g] = "none"
      BY <1>1, <2>1, HeldOrReleased DEF ExecutorsHold, ExecutorHolds, MonitorRelays
    <3>3. CASE Setup(g) \/ BackendAdmits(g) \/ BackendRejects(g) \/ BackendDeclines(g)
      BY <2>1, <3>2, <3>3 DEF Setup, BackendAdmits, BackendRejects, BackendDeclines, Advance,
         MonitorRelays, taskVars
    <3>4. CASE RecheckCancel(g) \/ Recancel(g) \/ MonitorRefused(g) \/ DropExecutor(g)
      BY <2>1, <3>2, <3>4 DEF RecheckCancel, Recancel, MonitorRefused, DropExecutor, Advance,
         MonitorRelays, taskVars
    <3>5. CASE SpawnMonitor(g)
      BY <2>1, <3>2, <3>5 DEF SpawnMonitor, Advance, MonitorRelays, T!Admit
    <3>6. CASE FinalArrives(g)
      BY <2>1, <3>1, <3>6 DEF FinalArrives, Advance, MonitorRelays, taskVars
    <3>7. CASE FinishOperation(g)
      BY <2>1, <3>1, <3>7, FinishKept DEF FinishOperation, Advance, MonitorRelays, taskVars,
         TerminalsOf
    <3>8. CASE ReleaseRoute(g) \/ ReturnError(g)
      BY <2>1, <3>1, <3>2, <3>8 DEF ReleaseRoute, ReturnError, Advance, MonitorRelays, taskVars,
         FinishOperation, Holding
    <3>9. CASE Deliver(g) \/ JoinMonitor(g)
      BY <2>1, <3>1, <3>2, <3>9 DEF Deliver, JoinMonitor, Advance, MonitorRelays, taskVars, T!Join,
         FinishOperation, Holding
    <3> QED BY <1>6, <3>3, <3>4, <3>5, <3>6, <3>7, <3>8, <3>9 DEF ExecutorStep
  <2> QED BY <1>2, <2>3, <2>4, <2>5 DEF MonitorsRelay
<1> QED BY <1>4, <1>5, <1>6, StepKinds

---------------------------------------------------------------------------
(* The backends and what is active there.                                  *)

(* An executor that has dispatched its call never dispatches it again.     *)
LEMMA DispatchedOnce ==
  ASSUME Kept, [Next]_vars, NEW g \in Calls, executor[g] \notin {"setup", "dispatching"}
  PROVE  executor'[g] \notin {"setup", "dispatching"}
<1>1. g \in R!Gens /\ DOMAIN executor = R!Gens
  BY CallsAreGens DEF Kept, ExecutorsHold
<1>2. CASE \E id \in RequestIds, b \in Backends : Reserve(id, b)
  BY <1>1, <1>2, ReserveAdds DEF Reserve
<1>3. CASE Outside
  BY <1>3, OutsideMarks
<1>4. ASSUME NEW h \in Calls, ExecutorStep(h) \/ BackendDeclines(h)
      PROVE  executor'[g] \notin {"setup", "dispatching"}
  <2>1. g # h => executor'[g] = executor[g]
    BY <1>1, <1>4, ExecutorMoves
  <2>2. CASE g = h
    BY <1>1, <1>4, <2>2 DEF ExecutorStep, Setup, BackendAdmits, BackendRejects, BackendDeclines,
       RecheckCancel, Recancel, SpawnMonitor, MonitorRefused, DropExecutor, FinalArrives,
       FinishOperation, ReleaseRoute, ReturnError, Deliver, JoinMonitor, Advance
  <2> QED BY <2>1, <2>2
<1> QED BY <1>2, <1>3, <1>4, StepKinds

LEMMA BackendsKnowCallsNext ==
  ASSUME Kept, [Next]_vars
  PROVE  BackendsKnowCalls'
<1>1. BackendsKnowCalls
  BY DEF Kept
<1>2. \A g \in Calls : g \in Calls' /\ leases'[g] = leases[g] /\ selected'[g] = selected[g]
  BY CallsKeepTheirs
<1>3. backend_final' \in [R!Gens -> R!TerminalClass \cup {"None"}]
  BY FinalsStay
<1>4. CASE BackendQuiet
  BY <1>1, <1>2, <1>3, <1>4, DispatchedOnce DEF BackendsKnowCalls, BackendQuiet
<1>5. ASSUME NEW g \in Calls, BackendAdmits(g) PROVE BackendsKnowCalls'
  <2>1. /\ g \in R!Gens /\ DOMAIN executor = R!Gens /\ selected[g] \in Backends
        /\ leases[g] \in RequestIds
    BY CallsAreGens DEF Kept, ExecutorsHold, RoutesOwned
  <2>2. /\ executor'[g] = "admitted" /\ UNCHANGED <<leases, selected, backend_phase>>
        /\ backend_phase[selected[g]] = "Running"
        /\ backend_active' = [backend_active EXCEPT ![selected[g]] = @ \cup {<<leases[g], g>>}]
    BY <1>5, <2>1 DEF BackendAdmits, B!Admit, B!Admits, Advance, registryVars
  <2>3. DOMAIN backend_active' = Backends /\ DOMAIN backend_phase' = Backends
    BY <1>1, <2>2 DEF BackendsKnowCalls
  <2>4. ASSUME NEW b \in Backends
        PROVE  /\ backend_active'[b] \subseteq backend_active[b] \cup {<<leases[g], g>>}
               /\ b # selected[g] => backend_active'[b] = backend_active[b]
    BY <1>1, <2>1, <2>2 DEF BackendsKnowCalls
  <2>5. ASSUME NEW b \in Backends, NEW e \in backend_active'[b]
        PROVE  /\ e \in RequestIds \X R!Gens
               /\ e[2] \in Calls' /\ selected'[e[2]] = b /\ leases'[e[2]] = e[1]
               /\ executor'[e[2]] \notin {"setup", "dispatching"}
    <3>1. CASE e \in backend_active[b]
      BY <1>1, <1>2, <3>1, DispatchedOnce DEF BackendsKnowCalls
    <3>2. CASE e \notin backend_active[b]
      BY <1>2, <2>1, <2>2, <2>4, <2>5, <3>2
    <3> QED BY <3>1, <3>2
  <2>6. ASSUME NEW b \in Backends, backend_phase'[b] = "Closed" PROVE backend_active'[b] = {}
    BY <1>1, <2>2, <2>4, <2>6 DEF BackendsKnowCalls
  <2> QED BY <1>3, <2>3, <2>5, <2>6 DEF BackendsKnowCalls
<1> QED BY <1>4, <1>5, BackendMoves

(* Closed admission and a faulted host stay so, and the refusal of a       *)
(* monitor is the only way off a backend without its answer.               *)
LEMMA ClosedStays ==
  ASSUME Kept, [Next]_vars
  PROVE  (tasks_closed => tasks_closed') /\ (faulted => faulted')
<1> USE DEF taskVars
<1>1. CASE \E id \in RequestIds, b \in Backends : Reserve(id, b)
  BY <1>1 DEF Reserve
<1>2. ASSUME NEW g \in Calls, ExecutorStep(g) \/ BackendDeclines(g)
      PROVE  (tasks_closed => tasks_closed') /\ (faulted => faulted')
  <2>1. UNCHANGED tasks_closed
    BY <1>2 DEF ExecutorStep, BackendDeclines, Setup, BackendAdmits, BackendRejects,
       RecheckCancel, Recancel, SpawnMonitor, T!Admit, MonitorRefused, DropExecutor, FinalArrives,
       FinishOperation, ReleaseRoute, ReturnError, Deliver, JoinMonitor, T!Join
  <2>2. UNCHANGED faulted \/ faulted' = TRUE
    BY <1>2 DEF ExecutorStep, BackendDeclines, Setup, BackendAdmits, BackendRejects,
       RecheckCancel, Recancel, SpawnMonitor, MonitorRefused, DropExecutor, MarkFaulted,
       FinalArrives, FinishOperation, ReleaseRoute, ReturnError, Deliver, JoinMonitor
  <2> QED BY <2>1, <2>2
<1>3. CASE Outside
  <2>1. CASE \/ \E b \in Backends : RegisterBackend(b) \/ BackendStep(b)
             \/ \E g \in Calls : DropTicket(g) \/ TicketProgress(g)
             \/ \E x \in Cancellers, id \in RequestIds : CancelCaptures(x, id)
             \/ \E x \in Cancellers : CancellerProgress(x)
    BY <2>1 DEF RegisterBackend, BackendStep, HostUnchanged, DropTicket, TicketProgress,
       TicketCaptures, TicketMarks, TicketCancels, TicketGone, TicketStep, CancelCaptures,
       CancellerProgress, CancelMarks, CancelDispatches, CancellerStep
  <2>2. CASE \/ Quiesce
             \/ \E g \in R!Gens : QuiesceDispatches(g)
             \/ \E s \in Callers : ShutdownCalled(s) \/ ShutdownRepeated(s)
             \/ \E s \in Callers : CallerProgress(s) \/ CallerAborts(s)
             \/ UNCHANGED vars
    <3>1. UNCHANGED <<tasks_closed, faulted>>
      BY <2>2 DEF Quiesce, QuiesceDispatches, ShutdownCalled, ShutdownRepeated, CallerProgress,
         CallerEnables, CallerChecks, CallerDoubts, CallerWakes, CallerAborts, CallerStep, vars
    <3> QED BY <3>1
  <2>3. CASE CoordinatorStep
    <3>1. UNCHANGED faulted /\ (UNCHANGED tasks_closed \/ tasks_closed' = TRUE)
      BY <2>3 DEF CoordinatorStep, CloseTasks, T!Close, CancelsDone, BackendsDone,
         CoordinatorCancels, StopBackend, BackendStopped, CoordinatorEnables, CoordinatorChecks,
         CoordinatorCounts, CoordinatorWakes, MonitorsDrained, Judge, PublishShutdown, Coordinate
    <3> QED BY <3>1
  <2> QED BY <1>3, <2>1, <2>2, <2>3 DEF Outside
<1> QED BY <1>1, <1>2, <1>3, StepKinds

(* Nobody is admitted to a backend but by BackendAdmits.                   *)
LEMMA UnansweredBefore ==
  ASSUME Kept, [Next]_vars, NEW g \in Calls', Unanswered(g)'
  PROVE  g \in Calls /\ (Unanswered(g) \/ BackendAdmits(g))
<1>1. BackendsKnowCalls /\ RegistryKept
  BY DEF Kept
<1>2. g \in Calls
  <2>1. BackendsKnowCalls' /\ RegistryKept'
    BY BackendsKnowCallsNext, RegistryKeptNext
  <2>2. CASE \A id \in RequestIds, b \in Backends : ~Reserve(id, b)
    BY <2>2, CallsStayPut DEF R!Issued
  <2>3. CASE \E id \in RequestIds, b \in Backends : Reserve(id, b)
    <3>1. PICK id \in RequestIds, b \in Backends : Reserve(id, b)
      BY <2>3
    <3>2. UNCHANGED backend_active /\ selected'[g] \in Backends
      <4>1. selected' \in [Calls' -> Backends]
        BY ExecutorsHoldNext DEF RoutesOwned
      <4> QED BY <3>1, <4>1 DEF Reserve, backendVars
    <3> QED BY <1>1, <3>2 DEF Unanswered, BackendsKnowCalls
  <2> QED BY <2>2, <2>3
<1>3. g \in R!Gens /\ leases'[g] = leases[g] /\ selected'[g] = selected[g] /\ selected[g] \in Backends
  BY <1>1, <1>2, CallsAreGens, CallsKeepTheirs DEF Kept, RoutesOwned
<1>4. backend_final[g] = "None"
  BY <1>3, FinalsStay DEF Unanswered
<1>5. CASE BackendQuiet
  BY <1>2, <1>3, <1>4, <1>5 DEF BackendQuiet, Unanswered
<1>6. ASSUME NEW h \in Calls, BackendAdmits(h) PROVE Unanswered(g) \/ BackendAdmits(g)
  <2>1. CASE h = g
    BY <1>6, <2>1
  <2>2. CASE h # g
    <3>1. selected[h] \in Backends /\ DOMAIN backend_active = Backends
      BY <1>1 DEF Kept, RoutesOwned, BackendsKnowCalls
    <3> QED BY <1>3, <1>4, <1>6, <2>2, <3>1 DEF Unanswered, BackendAdmits, B!Admit
  <2> QED BY <2>1, <2>2
<1> QED BY <1>2, <1>5, <1>6, BackendMoves

LEMMA AnsweredBeforeReuseNext ==
  ASSUME Kept, [Next]_vars
  PROVE  AnsweredBeforeReuse'
<1>1. RegistryKept /\ ExecutorsHold /\ RoutesOwned /\ AnsweredBeforeReuse /\ Calls \subseteq R!Gens
  BY CallsAreGens DEF Kept
<1>2. (tasks_closed => tasks_closed') /\ (faulted => faulted')
  BY ClosedStays
<1>3. ASSUME NEW g \in Calls', Unanswered(g)'
      PROVE  \/ executor'[g] \in {"admitted", "recancelling", "spawning", "relaying"}
             \/ tasks_closed' /\ (executor'[g] = "faulting" \/ faulted')
  <2>1. g \in Calls /\ g \in R!Gens /\ DOMAIN executor = R!Gens /\ leases'[g] = leases[g]
    BY <1>1, <1>3, UnansweredBefore, CallsKeepTheirs DEF ExecutorsHold
  <2>2. backend_final[g] = "None"
    BY <1>3, <2>1, FinalsStay DEF Unanswered
  <2>3. CASE BackendAdmits(g)
    BY <2>1, <2>3 DEF BackendAdmits, Advance
  <2>4. CASE Unanswered(g) /\ executor'[g] = executor[g]
    BY <1>1, <1>2, <2>1, <2>4 DEF AnsweredBeforeReuse
  <2>5. CASE Unanswered(g) /\ (ExecutorStep(g) \/ BackendDeclines(g))
    <3>1. \/ executor[g] \in {"admitted", "recancelling", "spawning", "relaying"}
          \/ tasks_closed /\ (executor[g] = "faulting" \/ faulted)
      BY <1>1, <2>1, <2>5 DEF AnsweredBeforeReuse
    <3>2. CASE RecheckCancel(g) \/ Recancel(g) \/ SpawnMonitor(g)
      BY <2>1, <3>2 DEF RecheckCancel, Recancel, SpawnMonitor, Advance
    <3>3. CASE MonitorRefused(g) \/ DropExecutor(g)
      BY <1>2, <2>1, <3>1, <3>3 DEF MonitorRefused, DropExecutor, MarkFaulted, Advance
    <3>4. ~FinalArrives(g)
      BY <2>2 DEF FinalArrives
    <3>5. CASE tasks_closed /\ faulted
      BY <1>2, <3>5
    <3> QED BY <2>1, <2>5, <3>1, <3>2, <3>3, <3>4, <3>5 DEF ExecutorStep, BackendDeclines, Setup,
               BackendAdmits, BackendRejects, FinishOperation, ReleaseRoute, ReturnError, Deliver,
               JoinMonitor, Advance
  <2>6. \/ executor'[g] = executor[g]
        \/ ExecutorStep(g) \/ BackendDeclines(g)
    <3>1. CASE \E id \in RequestIds, b \in Backends : Reserve(id, b)
      BY <2>1, <3>1, ReserveAdds DEF Reserve
    <3>2. ASSUME NEW h \in Calls, ExecutorStep(h) \/ BackendDeclines(h), h # g
          PROVE  executor'[g] = executor[g]
      BY <2>1, <3>2, ExecutorMoves
    <3>3. CASE Outside
      BY <3>3, OutsideMarks
    <3> QED BY <3>1, <3>2, <3>3, StepKinds
  <2> QED BY <1>3, <2>3, <2>4, <2>5, <2>6, UnansweredBefore
<1>4. ASSUME NEW g \in Calls', NEW h \in Calls', g < h, leases'[g] = leases'[h], Unanswered(g)'
      PROVE  FALSE
  <2>1. g \in Calls /\ leases'[g] = leases[g] /\ (Unanswered(g) \/ BackendAdmits(g))
    BY <1>4, UnansweredBefore, CallsKeepTheirs
  <2>2. CASE h \in Calls
    <3>1. leases'[h] = leases[h] /\ executor[g] \in Ended
      BY <1>1, <1>4, <2>1, <2>2, CallsKeepTheirs DEF RoutesOwned
    <3>2. ~BackendAdmits(g)
      BY <3>1 DEF BackendAdmits, Advance, Ended
    <3> QED BY <1>1, <1>4, <2>1, <2>2, <3>1, <3>2 DEF AnsweredBeforeReuse
  <2>3. CASE h \notin Calls
    <3>1. PICK id \in RequestIds, b \in Backends : Reserve(id, b)
      BY <1>4, <2>3, CallsStayPut DEF R!Issued
    <3>2. leases[g] = id /\ id \notin DOMAIN routes /\ phase = "Running"
      <4>1. Calls' = Calls \cup {next_sequence} /\ leases'[next_sequence] = id
        BY <3>1, ReserveAdds
      <4>2. h = next_sequence
        BY <1>4, <2>3, <4>1
      <4> QED BY <1>4, <2>1, <3>1, <4>1, <4>2 DEF Reserve
    <3>3. ~tasks_closed
      BY <3>2 DEF Kept, ClosingStages
    <3>4. ~BackendAdmits(g) /\ executor[g] \notin Holding
      <4>1. executor[g] \notin Holding
        BY <1>1, <2>1, <3>2 DEF RoutesOwned, OwnsRoute
      <4> QED BY <4>1 DEF BackendAdmits, Advance, Holding
    <3> QED BY <1>1, <2>1, <3>3, <3>4 DEF AnsweredBeforeReuse, Holding
  <2> QED BY <2>2, <2>3
<1> QED BY <1>3, <1>4 DEF AnsweredBeforeReuse

---------------------------------------------------------------------------
(* Quiesce and shutdown, stage by stage.                                   *)
ClosingUntouched ==
  /\ UNCHANGED <<phase, shutdown_started, shutdown_result, tasks_closed, coordinatorVars>>
  /\ quiesce_cancels' \subseteq quiesce_cancels

LEMMA WhoCloses ==
  ASSUME Kept, [Next]_vars
  PROVE  \/ ClosingUntouched
         \/ Quiesce \/ CoordinatorStep
         \/ \E s \in Callers : ShutdownCalled(s)
<1> USE DEF ClosingUntouched, stateVars, taskVars, cancelVars
<1>1. CASE \E id \in RequestIds, b \in Backends : Reserve(id, b)
  BY <1>1 DEF Reserve
<1>2. ASSUME NEW g \in Calls, ExecutorStep(g) \/ BackendDeclines(g) PROVE ClosingUntouched
  <2>1. UNCHANGED <<coordinatorVars, cancelVars>>
    BY <1>2 DEF ExecutorStep, BackendDeclines, Setup, BackendAdmits, BackendRejects,
       RecheckCancel, Recancel, SpawnMonitor, MonitorRefused, DropExecutor, FinalArrives,
       FinishOperation, ReleaseRoute, ReturnError, Deliver, JoinMonitor, Advance
  <2>2. UNCHANGED tasks_closed
    BY <1>2 DEF ExecutorStep, BackendDeclines, Setup, BackendAdmits, BackendRejects,
       RecheckCancel, Recancel, SpawnMonitor, T!Admit, MonitorRefused, DropExecutor, FinalArrives,
       FinishOperation, ReleaseRoute, ReturnError, Deliver, JoinMonitor, T!Join
  <2> QED BY <1>2, <2>1, <2>2, ExecutorMoves
<1>3. CASE Outside
  <2>1. CASE \/ \E b \in Backends : RegisterBackend(b) \/ BackendStep(b)
             \/ \E g \in Calls : DropTicket(g) \/ TicketProgress(g)
             \/ UNCHANGED vars
    BY <2>1 DEF RegisterBackend, BackendStep, HostUnchanged, DropTicket, TicketProgress,
       TicketCaptures, TicketMarks, TicketCancels, TicketGone, TicketStep, vars
  <2>2. CASE \/ \E x \in Cancellers, id \in RequestIds : CancelCaptures(x, id)
             \/ \E x \in Cancellers : CancellerProgress(x)
             \/ \E g \in R!Gens : QuiesceDispatches(g)
    BY <2>2 DEF CancelCaptures, CancellerProgress, CancelMarks, CancelDispatches, CancellerStep,
       QuiesceDispatches
  <2>3. CASE \/ \E s \in Callers : ShutdownRepeated(s)
             \/ \E s \in Callers : CallerProgress(s) \/ CallerAborts(s)
    BY <2>3 DEF ShutdownRepeated, CallerProgress, CallerEnables, CallerChecks, CallerDoubts,
       CallerWakes, CallerAborts, CallerStep
  <2> QED BY <1>3, <2>1, <2>2, <2>3 DEF Outside
<1> QED BY <1>1, <1>2, <1>3, StepKinds

LEMMA ClosingStagesNext ==
  ASSUME Kept, [Next]_vars
  PROVE  ClosingStages'
<1> USE DEF ClosingStages, coordinatorVars, stateVars, taskVars, cancelVars
<1>1. ClosingStages
  BY DEF Kept
<1>2. CASE ClosingUntouched
  BY <1>1, <1>2 DEF ClosingUntouched
<1>3. CASE Quiesce
  BY <1>1, <1>3 DEF Quiesce
<1>4. ASSUME NEW s \in Callers, ShutdownCalled(s) PROVE ClosingStages'
  BY <1>1, <1>4 DEF ShutdownCalled, StartCoordinator
<1>5. CASE CoordinatorStep
  <2> USE DEF Coordinate
  <2>1. CASE CloseTasks \/ CancelsDone \/ BackendsDone \/ \E g \in R!Gens : CoordinatorCancels(g)
    BY <1>1, <2>1 DEF CloseTasks, T!Close, CancelsDone, BackendsDone, CoordinatorCancels
  <2>2. CASE \E b \in Backends : StopBackend(b) \/ BackendStopped(b)
    BY <1>1, <2>2 DEF StopBackend, BackendStopped
  <2>3. CASE CoordinatorEnables \/ CoordinatorChecks \/ CoordinatorCounts \/ CoordinatorWakes
    BY <1>1, <2>3 DEF CoordinatorEnables, CoordinatorChecks, CoordinatorCounts, CoordinatorWakes
  <2>4. CASE MonitorsDrained \/ Judge \/ PublishShutdown
    BY <1>1, <2>4 DEF MonitorsDrained, Judge, PublishShutdown
  <2> QED BY <1>5, <2>1, <2>2, <2>3, <2>4 DEF CoordinatorStep
<1> QED BY <1>2, <1>3, <1>4, <1>5, WhoCloses

(* Only a call that holds its operation can fault the host or start a      *)
(* monitor, and both need the host to be as it is before its end.          *)
LEMMA NothingComesBackNext ==
  ASSUME Kept, [Next]_vars
  PROVE  NothingComesBack'
<1>1. ClosingStages /\ NothingComesBack
  BY DEF Kept
<1>2. \A b \in Backends : backend_phase[b] = "Closed" => backend_phase'[b] = "Closed"
  <2>1. CASE BackendQuiet
    BY <2>1 DEF BackendQuiet
  <2>2. CASE \E g \in Calls : BackendAdmits(g)
    BY <2>2 DEF BackendAdmits, B!Admit
  <2> QED BY <2>1, <2>2, BackendMoves
<1>3. CASE ClosingUntouched
  <2>1. /\ registered' \subseteq registered \/ phase = "Running"
        /\ registered' \subseteq Backends
        /\ DOMAIN operations' \subseteq DOMAIN operations \/ phase = "Running"
        /\ monitors' \subseteq monitors \/ ~tasks_closed
        /\ faulted' = faulted \/ DOMAIN operations # {}
    <3>1. registered' \subseteq Backends /\ (DOMAIN operations' \subseteq DOMAIN operations \/ phase = "Running")
      BY OnlyBackendsRegister, ReleasedStays
    <3>2. CASE \E id \in RequestIds, b \in Backends : Reserve(id, b)
      BY <3>1, <3>2 DEF Reserve, taskVars
    <3>3. ASSUME NEW g \in Calls, ExecutorStep(g) \/ BackendDeclines(g)
          PROVE  /\ registered' = registered /\ (monitors' \subseteq monitors \/ ~tasks_closed)
                 /\ faulted' = faulted \/ DOMAIN operations # {}
      <4>1. registered' = registered
        BY <3>3, ExecutorMoves
      <4>2. monitors' \subseteq monitors \/ ~tasks_closed
        BY <3>3, ExecutorRelays DEF SpawnMonitor, T!Admit, Deliver, taskVars, JoinMonitor, T!Join
      <4>3. CASE DropExecutor(g)
        <5>1. ExecutorHolds(g) /\ executor[g] \in Holding
          BY <4>3, CallsAreGens DEF Kept, ExecutorsHold, DropExecutor, Advance, Holding
        <5> QED BY <4>1, <4>2, <5>1 DEF ExecutorHolds, R!Holds
      <4>4. ~DropExecutor(g) => faulted' = faulted
        BY <3>3 DEF ExecutorStep, BackendDeclines, Setup, BackendAdmits, BackendRejects,
           RecheckCancel, Recancel, SpawnMonitor, MonitorRefused, FinalArrives, FinishOperation,
           ReleaseRoute, ReturnError, Deliver, JoinMonitor
      <4> QED BY <4>1, <4>2, <4>3, <4>4
    <3>4. CASE Outside
      <4>1. monitors' = monitors
        BY <3>4, OutsideMarks
      <4>2. faulted' = faulted /\ (registered' = registered \/ phase = "Running")
        <5> USE DEF stateVars
        <5>1. CASE \E b \in Backends : RegisterBackend(b) \/ BackendStep(b)
          BY <5>1 DEF RegisterBackend, BackendStep, HostUnchanged
        <5>2. CASE \/ \E g \in Calls : DropTicket(g) \/ TicketProgress(g)
                   \/ \E x \in Cancellers, id \in RequestIds : CancelCaptures(x, id)
                   \/ \E x \in Cancellers : CancellerProgress(x)
                   \/ UNCHANGED vars
          BY <5>2 DEF DropTicket, TicketProgress, TicketCaptures, TicketMarks, TicketCancels,
             TicketGone, TicketStep, CancelCaptures, CancellerProgress, CancelMarks,
             CancelDispatches, CancellerStep, vars
        <5>3. CASE \/ Quiesce
                   \/ \E g \in R!Gens : QuiesceDispatches(g)
                   \/ \E s \in Callers : ShutdownCalled(s) \/ ShutdownRepeated(s)
                   \/ \E s \in Callers : CallerProgress(s) \/ CallerAborts(s)
          BY <5>3 DEF Quiesce, QuiesceDispatches, ShutdownCalled, StartCoordinator,
             ShutdownRepeated, CallerProgress, CallerEnables, CallerChecks, CallerDoubts,
             CallerWakes, CallerAborts, CallerStep
        <5>4. CASE CoordinatorStep
          BY <5>4 DEF CoordinatorStep, CloseTasks, CancelsDone, BackendsDone, CoordinatorCancels,
             StopBackend, BackendStopped, CoordinatorEnables, CoordinatorChecks,
             CoordinatorCounts, CoordinatorWakes, MonitorsDrained, Judge, PublishShutdown,
             Coordinate
        <5> QED BY <3>4, <5>1, <5>2, <5>3, <5>4 DEF Outside
      <4> QED BY <3>1, <4>1, <4>2
    <3> QED BY <3>1, <3>2, <3>3, <3>4, StepKinds
  <2>2. UNCHANGED <<coordinator, shutdown_started, shutdown_backends, verdict>>
    BY <1>3 DEF ClosingUntouched, coordinatorVars
  <2>3. shutdown_started' => \A b \in registered' \ shutdown_backends' : backend_phase'[b] = "Closed"
    BY <1>1, <1>2, <2>1, <2>2 DEF ClosingStages, NothingComesBack
  <2>4. coordinator' \in Counted => phase # "Running" /\ tasks_closed
    BY <1>1, <2>2 DEF ClosingStages, Counted
  <2>5. coordinator' \in Counted /\ verdict' = "Ok" => DOMAIN operations = {} /\ DOMAIN operations' = {}
    BY <1>1, <2>1, <2>2, <2>4 DEF NothingComesBack
  <2>6. coordinator' \in Counted \ {"draining"} => monitors' = {}
    BY <1>1, <2>1, <2>2, <2>4 DEF NothingComesBack
  <2>7. coordinator' \in {"publishing", "done"} /\ verdict' = "Ok" => ~faulted'
    BY <1>1, <2>1, <2>2, <2>5 DEF NothingComesBack, Counted
  <2> QED BY <1>1, <2>2, <2>3, <2>5, <2>6, <2>7 DEF NothingComesBack
<1>4. CASE Quiesce
  BY <1>1, <1>4 DEF Quiesce, ClosingStages, NothingComesBack, Counted, coordinatorVars
<1>5. ASSUME NEW s \in Callers, ShutdownCalled(s) PROVE NothingComesBack'
  BY <1>1, <1>5 DEF ShutdownCalled, StartCoordinator, ClosingStages, NothingComesBack, Counted,
     coordinatorVars, stateVars, taskVars, backendVars, registryVars
<1>6. CASE CoordinatorStep
  <2>1. UNCHANGED <<registered, shutdown_started, monitors, operations, faulted>>
    BY <1>6 DEF CoordinatorStep, CloseTasks, T!Close, CancelsDone, BackendsDone,
       CoordinatorCancels, StopBackend, BackendStopped, CoordinatorEnables, CoordinatorChecks,
       CoordinatorCounts, CoordinatorWakes, MonitorsDrained, Judge, PublishShutdown, Coordinate,
       stateVars, taskVars, registryVars
  <2>2. registered \subseteq Backends
    BY DEF Kept, RoutesOwned
  <2> USE DEF NothingComesBack, Counted, Coordinate
  <2>3. CASE CloseTasks \/ CancelsDone \/ BackendsDone \/ \E g \in R!Gens : CoordinatorCancels(g)
    BY <1>1, <1>2, <2>1, <2>2, <2>3 DEF CloseTasks, CancelsDone, BackendsDone, CoordinatorCancels
  <2>4. CASE \E b \in Backends : StopBackend(b) \/ BackendStopped(b)
    BY <1>1, <1>2, <2>1, <2>2, <2>4 DEF StopBackend, BackendStopped
  <2>5. CASE CoordinatorEnables \/ CoordinatorChecks \/ CoordinatorCounts \/ CoordinatorWakes
    BY <1>1, <1>2, <2>1, <2>2, <2>5 DEF CoordinatorEnables, CoordinatorChecks, CoordinatorCounts,
       CoordinatorWakes
  <2>6. CASE MonitorsDrained \/ Judge \/ PublishShutdown
    BY <1>1, <1>2, <2>1, <2>2, <2>6 DEF MonitorsDrained, Judge, PublishShutdown
  <2> QED BY <1>6, <2>3, <2>4, <2>5, <2>6 DEF CoordinatorStep
<1> QED BY <1>3, <1>4, <1>5, <1>6, WhoCloses

---------------------------------------------------------------------------
(* Cancels on their way to a backend.                                      *)
LEMMA HolderIsNewest ==
  ASSUME Kept, NEW g \in Calls, R!Holds(g) \/ OwnsRoute(g)
  PROVE  Newest(g)
<1>1. g \in R!Gens /\ Calls \subseteq R!Gens
  BY CallsAreGens DEF Kept
<1>2. executor[g] \in Holding \cup {"releasing"}
  BY <1>1 DEF Kept, ExecutorsHold, ExecutorHolds, RoutesOwned
<1>3. executor[g] \notin Ended
  BY <1>2 DEF Holding, Ended
<1> QED BY <1>1, <1>3 DEF Kept, RoutesOwned, Newest, R!Gens

LEMMA NewestStays ==
  ASSUME Kept, [Next]_vars, NEW g \in Calls, Newest(g), phase # "Running"
  PROVE  Newest(g)'
<1>1. \A id \in RequestIds, b \in Backends : ~Reserve(id, b)
  BY DEF Reserve
<1> QED BY <1>1, CallsStayPut DEF Newest, R!Issued

(* A cancel sent for a call reaches it where it is unanswered, and reaches *)
(* no other unanswered call when it is the newest of its id.               *)
LEMMA CancelReaches ==
  ASSUME Kept, NEW g \in Calls, NEW source, BackendCancel(g, source)
  PROVE  /\ Unanswered(g) => g \in backend_cancelled'
         /\ Newest(g) => strays' = strays
         /\ \A s \in strays' : s \in strays \/ s.source = source
<1>1. Unanswered(g) => g \in B!UnderId(selected[g], leases[g])
  BY DEF Unanswered, B!UnderId
<1>2. ASSUME Newest(g), NEW h \in B!UnderId(selected[g], leases[g]) \ {g}, backend_final[h] = "None"
      PROVE  FALSE
  <2>1. PICK e \in backend_active[selected[g]] : e[1] = leases[g] /\ e[2] = h
    BY <1>2 DEF B!UnderId
  <2>2. selected[g] \in Backends
    BY DEF Kept, RoutesOwned
  <2>3. /\ e \in RequestIds \X R!Gens
        /\ h \in Calls /\ selected[h] = selected[g] /\ leases[h] = leases[g]
    BY <2>1, <2>2 DEF Kept, BackendsKnowCalls
  <2>4. Unanswered(h)
    BY <1>2, <2>1, <2>3 DEF Unanswered
  <2>5. h < g
    BY <1>2, <2>3, CallsAreGens DEF Kept, Newest, R!Gens
  <2> QED BY <2>3, <2>4, <2>5 DEF Kept, AnsweredBeforeReuse
<1>3. Unanswered(g) => g \in backend_cancelled'
  BY <1>1 DEF BackendCancel, B!Cancel
<1>4. Newest(g) => strays' = strays
  BY <1>2 DEF BackendCancel
<1>5. \A s \in strays' : s \in strays \/ s.source = source
  BY DEF BackendCancel
<1> QED BY <1>3, <1>4, <1>5

(* Who sends cancels to the backends.                                      *)
LEMMA WhoStrays ==
  ASSUME Kept, [Next]_vars
  PROVE  \/ UNCHANGED strays
         \/ \E g \in Calls : Recancel(g) \/ MonitorRefused(g) \/ TicketCancels(g)
         \/ \E g \in R!Gens : QuiesceDispatches(g) \/ CoordinatorCancels(g)
         \/ \E x \in Cancellers : CancelDispatches(x)
<1>1. CASE \E id \in RequestIds, b \in Backends : Reserve(id, b)
  BY <1>1 DEF Reserve
<1>2. ASSUME NEW g \in Calls, ExecutorStep(g) \/ BackendDeclines(g), ~Recancel(g), ~MonitorRefused(g)
      PROVE  UNCHANGED strays
  BY <1>2 DEF ExecutorStep, BackendDeclines, Setup, BackendAdmits, BackendRejects,
     RecheckCancel, SpawnMonitor, DropExecutor, FinalArrives, FinishOperation, ReleaseRoute,
     ReturnError, Deliver, JoinMonitor
<1>3. CASE Outside
  <2>1. CASE \/ \E b \in Backends : RegisterBackend(b) \/ BackendStep(b)
             \/ \E x \in Cancellers, id \in RequestIds : CancelCaptures(x, id)
             \/ \E x \in Cancellers : CancelMarks(x)
             \/ UNCHANGED vars
    BY <2>1 DEF RegisterBackend, BackendStep, HostUnchanged, CancelCaptures, CancelMarks, vars
  <2>2. CASE \E g \in Calls : DropTicket(g) \/ TicketCaptures(g) \/ TicketMarks(g) \/ TicketGone(g)
    BY <2>2 DEF DropTicket, TicketCaptures, TicketMarks, TicketGone
  <2>3. CASE \/ Quiesce
             \/ \E s \in Callers : ShutdownCalled(s) \/ ShutdownRepeated(s)
             \/ \E s \in Callers : CallerProgress(s) \/ CallerAborts(s)
    BY <2>3 DEF Quiesce, ShutdownCalled, ShutdownRepeated, CallerProgress, CallerEnables,
       CallerChecks, CallerDoubts, CallerWakes, CallerAborts, CallerStep
  <2>4. ASSUME CoordinatorStep, \A g \in R!Gens : ~CoordinatorCancels(g) PROVE UNCHANGED strays
    BY <2>4 DEF CoordinatorStep, CloseTasks, CancelsDone, BackendsDone, StopBackend,
       BackendStopped, CoordinatorEnables, CoordinatorChecks, CoordinatorCounts,
       CoordinatorWakes, MonitorsDrained, Judge, PublishShutdown
  <2> QED BY <1>3, <2>1, <2>2, <2>3, <2>4 DEF Outside, TicketProgress, CancellerProgress
<1> QED BY <1>1, <1>2, <1>3, StepKinds

LEMMA OnlyRacingCancelsStrayNext ==
  ASSUME Kept, [Next]_vars
  PROVE  OnlyRacingCancelsStray'
<1>1. OnlyRacingCancelsStray /\ Calls \subseteq R!Gens
  BY CallsAreGens DEF Kept, CancelsAimed
<1>2. CASE UNCHANGED strays
  BY <1>1, <1>2 DEF OnlyRacingCancelsStray
<1>3. ASSUME NEW g \in Calls, Recancel(g) \/ MonitorRefused(g) PROVE OnlyRacingCancelsStray'
  <2>1. executor[g] \in Holding
    BY <1>3 DEF Recancel, MonitorRefused, Advance, Holding
  <2>2. R!Holds(g)
    BY <1>1, <2>1 DEF Kept, ExecutorsHold, ExecutorHolds
  <2>3. \E source : BackendCancel(g, source)
    BY <1>3 DEF Recancel, MonitorRefused
  <2> QED BY <1>2, <2>2, <2>3, HolderIsNewest, CancelReaches
<1>4. ASSUME NEW g \in R!Gens, QuiesceDispatches(g) \/ CoordinatorCancels(g)
      PROVE  OnlyRacingCancelsStray'
  <2>1. g \in Calls /\ Newest(g)
    BY <1>4 DEF Kept, CancelsAimed, QuiesceDispatches, CoordinatorCancels
  <2>2. \E source : BackendCancel(g, source)
    BY <1>4 DEF QuiesceDispatches, CoordinatorCancels
  <2> QED BY <1>2, <2>1, <2>2, CancelReaches
<1>5. ASSUME NEW g \in Calls, TicketCancels(g) PROVE OnlyRacingCancelsStray'
  BY <1>1, <1>5, CancelReaches DEF TicketCancels, OnlyRacingCancelsStray
<1>6. ASSUME NEW x \in Cancellers, CancelDispatches(x) PROVE OnlyRacingCancelsStray'
  <2>1. canceller[x].target \in Calls /\ BackendCancel(canceller[x].target, "cancel")
    BY <1>6 DEF CancelDispatches, CancellerStep, Kept, CancelsAimed
  <2> QED BY <1>1, <2>1, CancelReaches DEF OnlyRacingCancelsStray
<1> QED BY <1>2, <1>3, <1>4, <1>5, <1>6, WhoStrays

(* What quiesce and shutdown capture, and who captures besides.            *)
LEMMA CapturedAreNewest ==
  ASSUME Kept, [Next]_vars
  PROVE  /\ (quiesce_cancels \cup shutdown_cancels)' \subseteq Calls'
         /\ \A g \in (quiesce_cancels \cup shutdown_cancels)' : Newest(g)'
<1> DEFINE captured == quiesce_cancels \cup shutdown_cancels
<1>1. captured \subseteq Calls /\ \A g \in captured : Newest(g)
  BY DEF Kept, CancelsAimed
<1>2. RegistryKept /\ Calls \subseteq Calls' /\ (phase = "Running" => captured = {})
  BY CallsKeepTheirs DEF Kept, ClosingStages
<1>3. ASSUME NEW g \in Calls, Newest(g), UNCHANGED leases PROVE Newest(g)'
  BY <1>3 DEF Newest, R!Issued
<1>4. CASE ClosingUntouched
  <2>1. captured' \subseteq captured
    BY <1>4 DEF ClosingUntouched, coordinatorVars
  <2> QED BY <1>1, <1>2, <2>1, NewestStays
<1> DEFINE held == {operations[id].identity : id \in DOMAIN operations \cap DOMAIN routes}
<1>5. ASSUME NEW g \in held PROVE g \in Calls /\ Newest(g)
  BY <1>2, RecordsAreHeld, HolderIsNewest
<1>6. CASE Quiesce
  <2>1. UNCHANGED <<leases, shutdown_cancels>> /\ quiesce_cancels' = held
    BY <1>6 DEF Quiesce, R!RequestCancelAll, coordinatorVars
  <2> QED BY <1>1, <1>2, <1>3, <1>5, <2>1
<1>7. ASSUME NEW s \in Callers, ShutdownCalled(s)
      PROVE  captured' \subseteq Calls' /\ \A g \in captured' : Newest(g)'
  <2>1. CapturedRoutes \subseteq Calls /\ \A g \in CapturedRoutes : Newest(g)
    BY HolderIsNewest DEF Kept, RoutesOwned, CapturedRoutes, OwnsRoute
  <2>2. UNCHANGED <<leases, quiesce_cancels>>
    BY <1>7 DEF ShutdownCalled, R!RequestCancelAll, cancelVars, registryVars
  <2>3. shutdown_cancels' \in {shutdown_cancels, held, CapturedRoutes}
    BY <1>7 DEF ShutdownCalled, StartCoordinator, coordinatorVars
  <2> QED BY <1>1, <1>2, <1>3, <1>5, <2>1, <2>2, <2>3
<1>8. CASE CoordinatorStep
  <2>1. UNCHANGED <<leases, quiesce_cancels>> /\ shutdown_cancels' \subseteq shutdown_cancels
    BY <1>8 DEF CoordinatorStep, CloseTasks, CancelsDone, BackendsDone, CoordinatorCancels,
       StopBackend, BackendStopped, CoordinatorEnables, CoordinatorChecks, CoordinatorCounts,
       CoordinatorWakes, MonitorsDrained, Judge, PublishShutdown, Coordinate, registryVars,
       cancelVars
  <2> QED BY <1>1, <1>2, <1>3, <2>1
<1> QED BY <1>4, <1>6, <1>7, <1>8, WhoCloses

LEMMA WhoCaptures ==
  ASSUME Kept, [Next]_vars
  PROVE  /\ \/ UNCHANGED canceller
            \/ \E x \in Cancellers, id \in RequestIds : CancelCaptures(x, id)
            \/ \E x \in Cancellers : CancellerProgress(x)
         /\ \/ UNCHANGED quiesce_cancels \/ Quiesce
            \/ \E g \in R!Gens : QuiesceDispatches(g)
<1> USE DEF cancelVars
<1>1. CASE \E id \in RequestIds, b \in Backends : Reserve(id, b)
  BY <1>1 DEF Reserve
<1>2. ASSUME NEW g \in Calls, ExecutorStep(g) \/ BackendDeclines(g) PROVE UNCHANGED cancelVars
  BY <1>2 DEF ExecutorStep, BackendDeclines, Setup, BackendAdmits, BackendRejects,
     RecheckCancel, Recancel, SpawnMonitor, MonitorRefused, DropExecutor, FinalArrives,
     FinishOperation, ReleaseRoute, ReturnError, Deliver, JoinMonitor, Advance
<1>3. CASE Outside
  <2>1. CASE \/ \E b \in Backends : RegisterBackend(b) \/ BackendStep(b)
             \/ \E g \in Calls : DropTicket(g) \/ TicketProgress(g)
             \/ UNCHANGED vars
    BY <2>1 DEF RegisterBackend, BackendStep, HostUnchanged, DropTicket, TicketProgress,
       TicketCaptures, TicketMarks, TicketCancels, TicketGone, TicketStep, vars
  <2>2. CASE \/ \E x \in Cancellers, id \in RequestIds : CancelCaptures(x, id)
             \/ \E x \in Cancellers : CancellerProgress(x)
             \/ Quiesce
             \/ \E g \in R!Gens : QuiesceDispatches(g)
    BY <2>2 DEF CancelCaptures, CancellerProgress, CancelMarks, CancelDispatches, CancellerStep,
       Quiesce, QuiesceDispatches
  <2>3. CASE \/ \E s \in Callers : ShutdownCalled(s) \/ ShutdownRepeated(s)
             \/ \E s \in Callers : CallerProgress(s) \/ CallerAborts(s)
    BY <2>3 DEF ShutdownCalled, ShutdownRepeated, CallerProgress, CallerEnables, CallerChecks,
       CallerDoubts, CallerWakes, CallerAborts, CallerStep
  <2>4. CASE CoordinatorStep
    BY <2>4 DEF CoordinatorStep, CloseTasks, CancelsDone, BackendsDone, CoordinatorCancels,
       StopBackend, BackendStopped, CoordinatorEnables, CoordinatorChecks, CoordinatorCounts,
       CoordinatorWakes, MonitorsDrained, Judge, PublishShutdown, Coordinate
  <2> QED BY <1>3, <2>1, <2>2, <2>3, <2>4 DEF Outside
<1> QED BY <1>1, <1>2, <1>3, StepKinds

LEMMA CancellersAim ==
  ASSUME Kept, [Next]_vars
  PROVE  /\ DOMAIN canceller' = Cancellers
         /\ \A x \in Cancellers : canceller'[x].at # "idle" => canceller'[x].target \in Calls'
<1>1. /\ DOMAIN canceller = Cancellers /\ Calls \subseteq Calls'
      /\ \A x \in Cancellers : canceller[x].at # "idle" => canceller[x].target \in Calls
  BY CallsKeepTheirs DEF Kept, CancelsAimed
<1>2. CASE UNCHANGED canceller
  BY <1>1, <1>2
<1>3. ASSUME NEW x \in Cancellers, NEW id \in RequestIds, CancelCaptures(x, id)
      PROVE  /\ DOMAIN canceller' = Cancellers
             /\ \A y \in Cancellers : canceller'[y].at # "idle" => canceller'[y].target \in Calls'
  BY <1>1, <1>3 DEF CancelCaptures, CancellerStep, Kept, RoutesOwned
<1>4. ASSUME NEW x \in Cancellers, CancellerProgress(x)
      PROVE  /\ DOMAIN canceller' = Cancellers
             /\ \A y \in Cancellers : canceller'[y].at # "idle" => canceller'[y].target \in Calls'
  BY <1>1, <1>4 DEF CancellerProgress, CancelMarks, CancelDispatches, CancellerStep, Idle
<1> QED BY <1>2, <1>3, <1>4, WhoCaptures

(* An operation that is held was held before, and what was asked stays.    *)
LEMMA HeldBefore ==
  ASSUME Kept, [Next]_vars, NEW g \in Calls
  PROVE  R!Holds(g)' => R!Holds(g)
<1>1. RegistryKept /\ RegistryKept' /\ g \in Calls'
  BY RegistryKeptNext, CallsKeepTheirs DEF Kept
<1>2. R!Holds(g)' <=> g \notin DOMAIN released'
  BY <1>1 DEF RegistryKept, R!OneFate
<1>3. g \in DOMAIN released => g \in DOMAIN released'
  BY ReleasedStays, FinishKept
<1> QED BY <1>1, <1>2, <1>3, HeldOrReleased

LEMMA AskedStays ==
  ASSUME Kept, [Next]_vars
  PROVE  asked \subseteq asked'
<1>1. CASE \E id \in RequestIds, b \in Backends : Reserve(id, b)
  BY <1>1 DEF Reserve, R!Reserve
<1>2. CASE Outside
  BY <1>2, OutsideMarks DEF OnlyMarked
<1>3. ASSUME NEW g \in Calls, ExecutorStep(g) \/ BackendDeclines(g) PROVE asked \subseteq asked'
  <2>1. CASE Setup(g) \/ FinishOperation(g) \/ ReleaseRoute(g)
    BY <2>1 DEF Setup, R!Queue, R!Start, R!Transition, R!StartAttempt, FinishOperation,
       R!FinishAttemptAndRelease, ReleaseRoute, registryVars
  <2>2. CASE OnlyMarked \/ UNCHANGED registryVars
    BY <2>2 DEF OnlyMarked, registryVars
  <2> QED BY <1>3, <2>1, <2>2, ExecutorMoves
<1> QED BY <1>1, <1>2, <1>3, StepKinds

LEMMA CancelledStays ==
  ASSUME Kept, [Next]_vars
  PROVE  backend_cancelled \subseteq backend_cancelled'
<1>1. CASE BackendQuiet
  BY <1>1 DEF BackendQuiet
<1>2. CASE \E g \in Calls : BackendAdmits(g)
  BY <1>2 DEF BackendAdmits, B!Admit
<1> QED BY <1>1, <1>2, BackendMoves

(* A dropped ticket is done marking only when the mark is in the registry  *)
(* or there is nothing to mark.                                            *)
LEMMA WhoMovesTickets ==
  ASSUME Kept, [Next]_vars, NEW g \in R!Gens
  PROVE  \/ ticket'[g] = ticket[g]
         \/ g \in Calls /\ (DropTicket(g) \/ TicketProgress(g) \/ SpawnMonitor(g) \/ Deliver(g))
<1>1. DOMAIN ticket = R!Gens
  BY DEF Kept, MonitorsRelay
<1>2. CASE \E id \in RequestIds, b \in Backends : Reserve(id, b)
  BY <1>2 DEF Reserve
<1>3. CASE Outside
  BY <1>3, OutsideTickets
<1>4. ASSUME NEW h \in Calls, ExecutorStep(h) \/ BackendDeclines(h)
      PROVE  \/ ticket'[g] = ticket[g]
             \/ g \in Calls /\ (SpawnMonitor(g) \/ Deliver(g))
  <2>1. CASE UNCHANGED ticket
    BY <2>1
  <2>2. CASE SpawnMonitor(h) \/ Deliver(h)
    BY <1>1, <2>2 DEF SpawnMonitor, Deliver
  <2>3. CASE JoinMonitor(h)
    BY <2>3 DEF JoinMonitor
  <2> QED BY <1>4, <2>1, <2>2, <2>3, ExecutorRelays
<1> QED BY <1>2, <1>3, <1>4, StepKinds

LEMMA TicketsMark ==
  ASSUME Kept, [Next]_vars, NEW g \in R!Gens, ticket'[g] \in {"marked", "guarding"}, R!Holds(g)'
  PROVE  g \in asked'
<1>1. /\ DOMAIN ticket = R!Gens /\ MonitorRelays(g) /\ ExecutorHolds(g)
      /\ monitors \subseteq Calls
  BY DEF Kept, MonitorsRelay, ExecutorsHold
<1>2. ticket[g] \in {"marked", "guarding"} => g \in Calls
  BY <1>1 DEF MonitorRelays, ExecutorHolds
<1>3. ticket[g] \in {"marked", "guarding"} => g \in asked'
  BY <1>2, HeldBefore, AskedStays DEF Kept, CancelsAimed
<1>4. ASSUME g \in Calls, TicketCaptures(g) PROVE g \in asked'
  <2>1. R!Holds(g)
    BY <1>4, HeldBefore
  <2>2. OwnsRoute(g)
    BY <1>1, <1>4, <2>1 DEF ExecutorHolds, Kept, RoutesOwned
  <2> QED BY <1>1, <1>4, <2>2 DEF TicketCaptures, TicketStep
<1>5. ASSUME g \in Calls, TicketMarks(g) PROVE g \in asked'
  <2>1. R!Holds(g)
    BY <1>5, HeldBefore
  <2> QED BY <1>5, <2>1 DEF TicketMarks, R!RequestCancel, R!MarkCancelled
<1>6. ASSUME g \in Calls, TicketCancels(g) PROVE ticket[g] = "marked"
  BY <1>6 DEF TicketCancels, TicketStep
<1>7. ASSUME g \in Calls, \/ DropTicket(g) \/ TicketGone(g)
                          \/ SpawnMonitor(g) \/ Deliver(g)
      PROVE  ticket'[g] = ticket[g]
  BY <1>1, <1>7 DEF DropTicket, TicketGone, TicketStep, SpawnMonitor, Deliver
<1> QED BY <1>3, <1>4, <1>5, <1>6, <1>7, WhoMovesTickets DEF TicketProgress

(* A cancel under way stays so until it has reached the backend.           *)
LEMMA UnderWayStays ==
  ASSUME Kept, [Next]_vars, NEW g \in Calls, g \in asked, Unanswered(g), g \in CancelsUnderWay
  PROVE  g \in backend_cancelled' \cup CancelsUnderWay'
<1>1. g \in R!Gens /\ DOMAIN executor = R!Gens /\ DOMAIN canceller = Cancellers
  BY CallsAreGens DEF Kept, ExecutorsHold, CancelsAimed
<1>2. ASSUME g \in quiesce_cancels PROVE g \in backend_cancelled' \cup quiesce_cancels'
  <2>1. CASE UNCHANGED quiesce_cancels
    BY <1>2, <2>1
  <2>2. ~Quiesce
    BY <1>2 DEF Quiesce, Kept, ClosingStages
  <2>3. ASSUME NEW h \in R!Gens, QuiesceDispatches(h)
        PROVE  g \in backend_cancelled' \cup quiesce_cancels'
    BY <1>2, <2>3, CancelReaches DEF QuiesceDispatches
  <2> QED BY <2>1, <2>2, <2>3, WhoCaptures
<1>3. ASSUME g \in shutdown_cancels PROVE g \in backend_cancelled' \cup shutdown_cancels'
  <2>1. CASE ClosingUntouched \/ Quiesce
    BY <1>3, <2>1 DEF ClosingUntouched, Quiesce, coordinatorVars
  <2>2. ASSUME NEW s \in Callers, ShutdownCalled(s) PROVE UNCHANGED shutdown_cancels
    BY <1>3, <2>2 DEF ShutdownCalled, coordinatorVars, Kept, ClosingStages
  <2>3. ASSUME NEW h \in R!Gens, CoordinatorCancels(h)
        PROVE  g \in backend_cancelled' \cup shutdown_cancels'
    BY <1>3, <2>3, CancelReaches DEF CoordinatorCancels
  <2>4. ASSUME CoordinatorStep, \A h \in R!Gens : ~CoordinatorCancels(h)
        PROVE  UNCHANGED shutdown_cancels
    BY <2>4 DEF CoordinatorStep, CloseTasks, CancelsDone, BackendsDone, StopBackend,
       BackendStopped, CoordinatorEnables, CoordinatorChecks, CoordinatorCounts,
       CoordinatorWakes, MonitorsDrained, Judge, PublishShutdown
  <2> QED BY <1>3, <2>1, <2>2, <2>3, <2>4, WhoCloses
<1>4. ASSUME NEW x \in Cancellers, canceller[x].at = "marked", canceller[x].target = g
      PROVE  \/ g \in backend_cancelled'
             \/ canceller'[x].at = "marked" /\ canceller'[x].target = g
  <2>1. CASE UNCHANGED canceller
    BY <1>4, <2>1
  <2>2. ASSUME NEW y \in Cancellers, NEW id \in RequestIds, CancelCaptures(y, id)
        PROVE  canceller'[x] = canceller[x]
    BY <1>1, <1>4, <2>2 DEF CancelCaptures, CancellerStep
  <2>3. ASSUME NEW y \in Cancellers, CancelMarks(y) PROVE canceller'[x] = canceller[x]
    BY <1>1, <1>4, <2>3 DEF CancelMarks, CancellerStep
  <2>4. ASSUME NEW y \in Cancellers, CancelDispatches(y), y # x PROVE canceller'[x] = canceller[x]
    BY <1>1, <2>4 DEF CancelDispatches, CancellerStep
  <2>5. CASE CancelDispatches(x)
    <3>1. BackendCancel(g, "cancel")
      BY <1>4, <2>5 DEF CancelDispatches
    <3>2. Unanswered(g) => g \in backend_cancelled'
      BY <3>1, CancelReaches
    <3> QED BY <3>2
  <2> QED BY <1>4, <2>1, <2>2, <2>3, <2>4, <2>5, WhoCaptures DEF CancellerProgress
<1>5. ASSUME ticket[g] = "marked" PROVE g \in backend_cancelled' \/ ticket'[g] = "marked"
  <2>1. CASE TicketCancels(g)
    BY <2>1, CancelReaches DEF TicketCancels
  <2>2. executor[g] # "spawning"
    BY <1>1, <1>5 DEF Kept, MonitorsRelay, MonitorRelays
  <2>3. ~(DropTicket(g) \/ TicketCaptures(g) \/ TicketMarks(g) \/ TicketGone(g) \/ SpawnMonitor(g))
    BY <1>5, <2>2 DEF DropTicket, TicketCaptures, TicketMarks, TicketGone, TicketStep, SpawnMonitor,
       Advance
  <2>4. Deliver(g) => ticket'[g] = ticket[g]
    BY <1>1, <1>5 DEF Deliver, Kept, MonitorsRelay
  <2> QED BY <1>1, <1>5, <2>1, <2>3, <2>4, WhoMovesTickets DEF TicketProgress
<1>6. ASSUME executor[g] \in {"admitted", "recancelling"}
      PROVE  g \in backend_cancelled' \/ executor'[g] \in {"admitted", "recancelling"}
  <2>1. CASE RecheckCancel(g)
    <3>1. R!Holds(g)
      BY <1>1, <1>6 DEF Kept, ExecutorsHold, ExecutorHolds, Holding
    <3>2. operations[leases[g]].cancellation_requested
      BY <3>1 DEF Kept, RegistryKept, R!CancelReachesOnlyItsGeneration, R!Holds
    <3>3. R!Snapshot(operations[leases[g]]) \in R!LeaseSnapshot(g)
      BY <3>1 DEF R!LeaseSnapshot, R!Holds
    <3>4. \E s \in R!LeaseSnapshot(g) : s.cancellation_requested
      BY <3>2, <3>3 DEF R!Snapshot
    <3> QED BY <1>1, <2>1, <3>4 DEF RecheckCancel, Advance
  <2>2. CASE Recancel(g)
    BY <2>2, CancelReaches DEF Recancel
  <2>3. ASSUME NEW h \in Calls, ExecutorStep(h) \/ BackendDeclines(h), ~RecheckCancel(g), ~Recancel(g)
        PROVE  executor'[g] = executor[g]
    <3>1. CASE h # g
      BY <1>1, <2>3, <3>1, ExecutorMoves
    <3>2. CASE h = g
      BY <1>6, <2>3, <3>2 DEF ExecutorStep, BackendDeclines, Setup, BackendAdmits, BackendRejects,
         SpawnMonitor, MonitorRefused, DropExecutor, FinalArrives, FinishOperation, ReleaseRoute,
         ReturnError, Deliver, JoinMonitor, Advance
    <3> QED BY <3>1, <3>2
  <2>4. CASE \E id \in RequestIds, b \in Backends : Reserve(id, b)
    BY <1>1, <1>6, <2>4, ReserveAdds DEF Reserve
  <2>5. CASE Outside
    BY <1>6, <2>5, OutsideMarks
  <2> QED BY <1>6, <2>1, <2>2, <2>3, <2>4, <2>5, StepKinds
<1> QED BY <1>1, <1>2, <1>3, <1>4, <1>5, <1>6 DEF CancelsUnderWay

(* Whoever marks an operation that still runs uncancelled at a backend is  *)
(* then bound to pass the cancel on.                                       *)
LEMMA WhoAsks ==
  ASSUME Kept, [Next]_vars, NEW g \in Calls, g \in asked', g \notin asked
  PROVE  g \in CancelsUnderWay'
<1>1. RegistryKept /\ g \in R!Gens /\ DOMAIN ticket = R!Gens /\ DOMAIN canceller = Cancellers
  BY CallsAreGens DEF Kept, MonitorsRelay, CancelsAimed
<1>2. ASSUME NEW id \in DOMAIN operations
      PROVE  id \in DOMAIN routes /\ routes[id].identity = operations[id].identity
  <2>1. PICK h \in Calls : h = operations[id].identity /\ leases[h] = id /\ R!Holds(h)
    BY <1>1, RecordsAreHeld
  <2>2. ExecutorHolds(h)
    BY <1>1, CallsAreGens DEF Kept, ExecutorsHold
  <2> QED BY <2>1, <2>2 DEF ExecutorHolds, Kept, RoutesOwned, OwnsRoute
<1> DEFINE held == {operations[id].identity : id \in DOMAIN operations \cap DOMAIN routes}
<1>3. R!RequestCancelAll => g \in held
  BY <1>2 DEF R!RequestCancelAll
<1> USE DEF CancelsUnderWay, registryVars
<1>4. CASE Quiesce
  BY <1>3, <1>4 DEF Quiesce
<1>5. ASSUME NEW s \in Callers, ShutdownCalled(s) PROVE g \in CancelsUnderWay'
  BY <1>3, <1>5 DEF ShutdownCalled, StartCoordinator
<1>6. ASSUME NEW x \in Cancellers, CancellerProgress(x) PROVE g \in CancelsUnderWay'
  <2>1. canceller[x].target = g /\ canceller'[x] = [at |-> "marked", target |-> g]
    BY <1>1, <1>6 DEF CancellerProgress, CancelMarks, CancelDispatches, CancellerStep,
       R!RequestCancel, R!MarkCancelled
  <2> QED BY <2>1
<1>7. ASSUME NEW h \in Calls, DropTicket(h) \/ TicketProgress(h) PROVE g \in CancelsUnderWay'
  <2>1. CASE TicketMarks(h)
    BY <1>1, <2>1 DEF TicketMarks, TicketStep, R!RequestCancel, R!MarkCancelled
  <2>2. CASE TicketGone(h)
    <3>1. h = g /\ R!Holds(h)
      BY <2>2 DEF TicketGone, R!ConsumerDrop, R!MarkCancelled
    <3>2. MonitorRelays(g) /\ ExecutorHolds(g) /\ ticket[g] \in {"guarding", "answered"}
      BY <1>1, <2>2, <3>1 DEF Kept, MonitorsRelay, ExecutorsHold, TicketGone, TicketStep
    <3>3. ticket[g] # "guarding"
      BY <1>1, <3>1 DEF Kept, CancelsAimed
    <3>4. executor[g] \in {"relayed", "done"}
      BY <3>2, <3>3 DEF MonitorRelays
    <3> QED BY <3>1, <3>2, <3>4 DEF ExecutorHolds, Holding
  <2>3. ~(DropTicket(h) \/ TicketCaptures(h) \/ TicketCancels(h))
    BY DEF DropTicket, TicketCaptures, TicketCancels
  <2> QED BY <1>7, <2>1, <2>2, <2>3 DEF TicketProgress
<1>8. ASSUME NEW h \in Calls, ExecutorStep(h) \/ BackendDeclines(h) PROVE FALSE
  <2>1. CASE ReturnError(h)
    <3>1. h = g /\ R!Holds(h) /\ executor[h] = "returning"
      BY <2>1 DEF ReturnError, Advance, R!ConsumerDrop, R!MarkCancelled
    <3> QED BY <1>1, <3>1 DEF Kept, ExecutorsHold, ExecutorHolds, Holding
  <2>2. CASE Setup(h) \/ FinishOperation(h)
    BY <2>2 DEF Setup, R!Queue, R!Start, R!Transition, R!StartAttempt, FinishOperation,
       R!FinishAttemptAndRelease
  <2>3. CASE ~ReturnError(h) /\ ~Setup(h) /\ ~FinishOperation(h)
    BY <1>8, <2>3 DEF ExecutorStep, BackendDeclines, BackendAdmits, BackendRejects,
       RecheckCancel, Recancel, SpawnMonitor, MonitorRefused, DropExecutor, FinalArrives,
       ReleaseRoute, Deliver, JoinMonitor
  <2> QED BY <2>1, <2>2, <2>3
<1>9. ~(\E id \in RequestIds, b \in Backends : Reserve(id, b))
  BY DEF Reserve, R!Reserve
<1>10. CASE Outside
  <2>1. ~(\E b \in Backends : RegisterBackend(b) \/ BackendStep(b))
    BY DEF RegisterBackend, BackendStep, HostUnchanged
  <2>2. ~(\/ \E x \in Cancellers, id \in RequestIds : CancelCaptures(x, id)
          \/ \E h \in R!Gens : QuiesceDispatches(h)
          \/ \E s \in Callers : ShutdownRepeated(s)
          \/ \E s \in Callers : CallerProgress(s) \/ CallerAborts(s)
          \/ UNCHANGED vars)
    BY DEF CancelCaptures, QuiesceDispatches, ShutdownRepeated, CallerProgress, CallerEnables,
       CallerChecks, CallerDoubts, CallerWakes, CallerAborts, CallerStep, vars
  <2>3. ~CoordinatorStep
    BY DEF CoordinatorStep, CloseTasks, CancelsDone, BackendsDone, CoordinatorCancels,
       StopBackend, BackendStopped, CoordinatorEnables, CoordinatorChecks, CoordinatorCounts,
       CoordinatorWakes, MonitorsDrained, Judge, PublishShutdown, Coordinate
  <2> QED BY <1>4, <1>5, <1>6, <1>7, <1>10, <2>1, <2>2, <2>3 DEF Outside
<1> QED BY <1>8, <1>9, <1>10, StepKinds

LEMMA CancelsAimedNext ==
  ASSUME Kept, [Next]_vars
  PROVE  CancelsAimed'
<1>1. ASSUME NEW g \in asked', Unanswered(g)' PROVE g \in (backend_cancelled \cup CancelsUnderWay)'
  <2>1. asked' \subseteq Calls'
    BY RegistryKeptNext DEF RegistryKept
  <2>2. g \in Calls /\ (Unanswered(g) \/ BackendAdmits(g))
    BY <1>1, <2>1, UnansweredBefore
  <2>3. CASE BackendAdmits(g)
    <3>1. g \in R!Gens /\ executor'[g] = "admitted"
      BY <2>2, <2>3, CallsAreGens DEF BackendAdmits, Advance, Kept, ExecutorsHold
    <3> QED BY <3>1 DEF CancelsUnderWay
  <2>4. CASE Unanswered(g) /\ g \in asked
    <3>1. g \in backend_cancelled \cup CancelsUnderWay
      BY <2>4 DEF Kept, CancelsAimed
    <3> QED BY <2>2, <2>4, <3>1, CancelledStays, UnderWayStays
  <2>5. CASE g \notin asked
    BY <2>2, <2>5, WhoAsks
  <2> QED BY <2>2, <2>3, <2>4, <2>5
<1>2. \A g \in R!Gens : ticket'[g] \in {"marked", "guarding"} /\ R!Holds(g)' => g \in asked'
  BY TicketsMark
<1> QED BY <1>1, <1>2, CapturedAreNewest, CancellersAim, OnlyRacingCancelsStrayNext DEF CancelsAimed

---------------------------------------------------------------------------
LEMMA KeptStep ==
  ASSUME Kept, [Next]_vars
  PROVE  Kept'
BY RegistryKeptNext, ExecutorsHoldNext, MonitorsRelayNext, BackendsKnowCallsNext,
   AnsweredBeforeReuseNext, CancelsAimedNext, ClosingStagesNext, NothingComesBackNext DEF Kept

LEMMA KeptInit == Init => Kept
<1> SUFFICES ASSUME Init PROVE Kept
  OBVIOUS
<1> USE DEF Init
<1>1. Calls = {} /\ DOMAIN operations = {} /\ DOMAIN released = {} /\ asked = {} /\ attempt_leases = {}
  BY DEF R!Init, R!Issued
<1>2. RegistryKept
  <2>1. RP!Init
    BY SameInit
  <2>2. RP!TypeOK
    BY <2>1, RegistryBounds, RP!InitTyped
  <2>3. RP!OneFate /\ RP!Traced /\ RP!TerminalMatchesPhase
    BY <1>1 DEF RP!OneFate, RP!Traced, RP!CancelReachesOnlyItsGeneration, R!Issued, RP!Issued,
       RP!AttemptsBelongToTheirLeases, RP!TerminalMatchesPhase
  <2> QED BY <2>2, <2>3, SameRegistry
<1>3. ExecutorsHold
  BY <1>1 DEF ExecutorsHold, ExecutorHolds, Stages, Holding
<1>4. RoutesOwned
  BY <1>1 DEF RoutesOwned
<1>5. MonitorsRelay
  BY <1>1 DEF MonitorsRelay, MonitorRelays, T!Init
<1>6. BackendsKnowCalls
  BY DEF BackendsKnowCalls, B!Init
<1>7. AnsweredBeforeReuse
  BY <1>1 DEF AnsweredBeforeReuse
<1>8. CancelsAimed
  BY <1>1 DEF CancelsAimed, OnlyRacingCancelsStray
<1>9. ClosingStages /\ NothingComesBack
  BY DEF ClosingStages, NothingComesBack, Counted, T!Init
<1> QED BY <1>2, <1>3, <1>4, <1>5, <1>6, <1>7, <1>8, <1>9 DEF Kept

LEMMA KeptInvariant == Spec => []Kept
<1>1. Kept /\ [Next]_vars => Kept'
  BY KeptStep
<1> QED BY <1>1, KeptInit, PTL DEF Spec

---------------------------------------------------------------------------
(* What the runs check of the host, for every value of the constants.      *)

(* The executors, tickets, cancellers, quiesce and shutdown together use   *)
(* the registry only as it allows itself to be used: every lock section of *)
(* the host that touches it is one of its own operations, so its promises, *)
(* proved for any callers, hold inside the host.                           *)
THEOREM HostRunsRegistry == Spec => R!Spec
<1>1. Init => R!Init
  BY DEF Init
<1>2. Kept /\ [Next]_vars => [R!Next]_(R!vars)
  BY HostStepsRegistry
<1> QED BY <1>1, <1>2, KeptInvariant, PTL DEF Spec, R!Spec

(* So what the registry implements is implemented inside the host: one     *)
(* generation per id, one outcome per generation, fixed once closed, and   *)
(* cancellation marks only on what was open (OperationLedger).             *)
THEOREM HostImplementsLedger == Spec => RP!ImplementsLedger
<1>1. Init => RP!Init
  BY SameInit DEF Init
<1>2. Kept /\ [Next]_vars => [RP!Next]_(RP!vars)
  BY HostStepsRegistry, SameSteps
<1>3. Spec => RP!Spec
  BY <1>1, <1>2, KeptInvariant, PTL DEF Spec, RP!Spec
<1>4. RP!Spec => RP!ImplementsLedger
  BY RegistryBounds, RP!RegistryImplementsLedger
<1> QED BY <1>3, <1>4, PTL

(* An operation has its route, with its own identity, although the two are *)
(* written under two locks; a route without its operation belongs to an    *)
(* executor about to release exactly that route (HostLifecycle::reserve,   *)
(* ExecutorOperation::finish, release_route).                              *)
THEOREM RoutesFollowOperations == Spec => []RoutesMatchOperations
<1>1. ASSUME Kept PROVE RoutesMatchOperations
  <2>1. RegistryKept /\ ExecutorsHold /\ RoutesOwned /\ Calls \subseteq R!Gens
    BY <1>1, CallsAreGens DEF Kept
  <2>2. ASSUME NEW id \in DOMAIN operations
        PROVE  id \in DOMAIN routes /\ routes[id].identity = operations[id].identity
    <3>1. PICK g \in Calls : g = operations[id].identity /\ leases[g] = id /\ R!Holds(g)
      BY <2>1, RecordsAreHeld
    <3>2. executor[g] \in Holding
      BY <2>1, <3>1 DEF ExecutorsHold, ExecutorHolds
    <3> QED BY <2>1, <3>1, <3>2 DEF RoutesOwned, OwnsRoute
  <2>3. ASSUME NEW id \in DOMAIN routes
        PROVE  R!Holds(routes[id].identity) \/ executor[routes[id].identity] = "releasing"
    <3>1. PICK g \in Calls : g = routes[id].identity /\ leases[g] = id
      BY <2>1 DEF RoutesOwned
    <3>2. executor[g] \in Holding \cup {"releasing"}
      BY <2>1, <3>1 DEF RoutesOwned, OwnsRoute
    <3> QED BY <2>1, <3>1, <3>2 DEF ExecutorsHold, ExecutorHolds
  <2> QED BY <2>2, <2>3 DEF RoutesMatchOperations
<1> QED BY <1>1, KeptInvariant, PTL

(* No registry or route call of an executor is refused, whatever cancels,  *)
(* reuse of the id and shutdown do between its locks: queue, start,        *)
(* start_attempt, finish and release_route all find what they expect.      *)
THEOREM ExecutorsAreNeverRefused == Spec => []LifecycleCallsSucceed
<1>1. ASSUME Kept PROVE LifecycleCallsSucceed
  <2>1. ASSUME NEW g \in Calls PROVE ExecutorHolds(g)
    BY <1>1, CallsAreGens DEF Kept, ExecutorsHold
  <2>2. \A g \in Calls : executor[g] = "releasing" => OwnsRoute(g)
    BY <1>1 DEF Kept, RoutesOwned
  <2> QED BY <2>1, <2>2 DEF LifecycleCallsSucceed, ExecutorHolds, Holding
<1> QED BY <1>1, KeptInvariant, PTL

(* An entry a backend holds for a call stands under the call's own id.     *)
LEMMA ActiveUnderItsId ==
  ASSUME Kept, NEW g \in Calls, g \in B!ActiveRequests(selected[g])
  PROVE  <<leases[g], g>> \in backend_active[selected[g]]
<1>1. selected[g] \in Backends
  BY DEF Kept, RoutesOwned
<1>2. PICK e \in backend_active[selected[g]] : e[2] = g
  BY DEF B!ActiveRequests
<1>3. e \in RequestIds \X R!Gens /\ leases[e[2]] = e[1]
  BY <1>1, <1>2 DEF Kept, BackendsKnowCalls
<1> QED BY <1>2, <1>3

(* A cancel the registry accepted while the backend still works on the     *)
(* call has reached the backend or has somebody bound to bring it there:   *)
(* cancel_captured, a ticket, quiesce, shutdown, or the executor, which    *)
(* reads the mark again once the backend has admitted the call.            *)
THEOREM CancelsReachTheBackend == Spec => []CancelIsNeverLost
<1>1. ASSUME Kept PROVE CancelIsNeverLost
  <2>1. ASSUME NEW g \in asked, g \in B!ActiveRequests(selected[g]), backend_final[g] = "None"
        PROVE  g \in backend_cancelled \cup CancelsUnderWay
    <3>1. g \in Calls
      BY <1>1 DEF Kept, RegistryKept
    <3>2. Unanswered(g)
      BY <1>1, <2>1, <3>1, ActiveUnderItsId DEF Unanswered
    <3> QED BY <1>1, <3>2 DEF Kept, CancelsAimed
  <2> QED BY <2>1 DEF CancelIsNeverLost
<1> QED BY <1>1, KeptInvariant, PTL

(* Backends cancel by request id alone.  What quiesce, shutdown, the       *)
(* executor and a refused monitor send them nevertheless hits the call it  *)
(* was captured for; only SpeechHost::cancel and tickets can be overtaken  *)
(* by a reuse of the id.                                                   *)
THEOREM HostCancelsAreAimed == Spec => []OnlyRacingCancelsStray
<1>1. Kept => OnlyRacingCancelsStray
  BY DEF Kept, CancelsAimed
<1> QED BY <1>1, KeptInvariant, PTL

(* The host gives up an operation its backend has not answered only when   *)
(* it has faulted itself (ExecutorOperation::drop).                        *)
THEOREM NothingIsAbandonedSilently == Spec => []AbandonedOnlyWhenFaulted
<1>1. ASSUME Kept PROVE AbandonedOnlyWhenFaulted
  <2>1. ASSUME NEW g \in DOMAIN released, g \in B!ActiveRequests(selected[g]), ~Answered(g)
        PROVE  faulted
    <3>1. RegistryKept /\ g \in Calls
      BY <1>1, <2>1 DEF Kept, RegistryKept, R!OneFate
    <3>2. Unanswered(g)
      BY <1>1, <2>1, <3>1, ActiveUnderItsId DEF Unanswered, Answered
    <3>3. executor[g] \notin Holding
      BY <1>1, <3>1, CallsAreGens, HeldOrReleased DEF Kept, ExecutorsHold, ExecutorHolds
    <3> QED BY <1>1, <3>1, <3>2, <3>3 DEF Kept, AnsweredBeforeReuse, Holding
  <2> QED BY <2>1 DEF AbandonedOnlyWhenFaulted
<1> QED BY <1>1, KeptInvariant, PTL

(* A client that has its final response finds its id free again, and the   *)
(* response is what the backend sent and what the registry recorded: the   *)
(* monitor finishes the operation before it answers (spawn_monitor).       *)
THEOREM AnswersComeLast == Spec => []AnswerImpliesReleased
<1>1. ASSUME Kept PROVE AnswerImpliesReleased
  <2>1. ASSUME NEW g \in R!Gens, ticket[g] \in {"answered", "collected"}
        PROVE  ~R!Holds(g) /\ ~OwnsRoute(g) /\ released[g].terminal = backend_final[g]
    <3>1. ExecutorHolds(g) /\ MonitorRelays(g)
      BY <1>1 DEF Kept, ExecutorsHold, MonitorsRelay
    <3>2. g \in Calls /\ executor[g] \notin Holding \cup {"releasing"}
      BY <2>1, <3>1 DEF ExecutorHolds, MonitorRelays, Holding
    <3>3. ~OwnsRoute(g)
      BY <1>1, <3>2 DEF Kept, RoutesOwned
    <3> QED BY <2>1, <3>1, <3>2, <3>3 DEF ExecutorHolds, MonitorRelays
  <2> QED BY <2>1 DEF AnswerImpliesReleased
<1> QED BY <1>1, KeptInvariant, PTL

(* A shutdown that reports Ok has left nothing behind (run_shutdown): each *)
(* stage of the coordinator relies on what an earlier one saw done, and    *)
(* nothing of it comes back, since admission is closed.                    *)
THEOREM ShutdownIsClean == Spec => []CleanShutdownIsQuiet
<1>1. ASSUME Kept, shutdown_result = "Ok"
      PROVE  /\ DOMAIN operations = {} /\ monitors = {} /\ ~faulted
             /\ \A b \in registered : backend_phase[b] = "Closed" /\ backend_active[b] = {}
             /\ \A g \in Calls : ticket[g] # "held"
             /\ \A id \in DOMAIN routes : executor[routes[id].identity] = "releasing"
  <2>1. ExecutorsHold /\ RoutesOwned /\ MonitorsRelay /\ Calls \subseteq R!Gens
    BY <1>1, CallsAreGens DEF Kept
  <2>2. coordinator = "done" /\ verdict = "Ok" /\ shutdown_started
    BY <1>1 DEF Kept, ClosingStages
  <2>3. /\ DOMAIN operations = {} /\ monitors = {} /\ ~faulted
        /\ \A b \in registered : backend_phase[b] = "Closed"
    BY <1>1, <2>2 DEF Kept, NothingComesBack, Counted
  <2>4. \A b \in registered : backend_active[b] = {}
    BY <1>1, <2>1, <2>3 DEF Kept, BackendsKnowCalls, RoutesOwned
  <2>5. \A g \in Calls : ticket[g] # "held"
    BY <2>1, <2>3 DEF MonitorsRelay, MonitorRelays
  <2>6. ASSUME NEW id \in DOMAIN routes PROVE executor[routes[id].identity] = "releasing"
    <3>1. PICK g \in Calls : g = routes[id].identity /\ leases[g] = id
      BY <2>1 DEF RoutesOwned
    <3>2. executor[g] \in Holding \cup {"releasing"}
      BY <2>1, <3>1 DEF RoutesOwned, OwnsRoute
    <3> QED BY <2>1, <2>3, <3>1, <3>2 DEF ExecutorsHold, ExecutorHolds, R!Holds
  <2> QED BY <2>3, <2>4, <2>5, <2>6
<1>2. Kept => CleanShutdownIsQuiet
  BY <1>1 DEF CleanShutdownIsQuiet
<1> QED BY <1>2, KeptInvariant, PTL

---------------------------------------------------------------------------
(* The Notify of the host.  From before it reads what it waits for, a task *)
(* has an enabled future; from the moment it read that it has to wait, a   *)
(* change since has notified it.                                           *)
CallersListen ==
  /\ DOMAIN caller = Callers
  /\ \A s \in Callers :
       /\ caller[s] \in {"checking", "doubting", "sleeping"} => s \in enabled
       /\ caller[s] \in {"doubting", "sleeping"} /\ s \notin woken => phase # "Closed"
       /\ caller[s] = "sleeping" /\ s \notin woken => ~faulted

ReleaseIsDue == DOMAIN operations # {} \/ \E g \in Calls : executor[g] = "releasing"

CoordinatorListens ==
  /\ verdict \in Results
  /\ coordinator \in {"checking", "counting", "sleeping"} => Coordinator \in enabled
  /\ coordinator \in {"counting", "sleeping"} /\ Coordinator \notin woken => ~faulted
  /\ coordinator = "sleeping" /\ Coordinator \notin woken => ReleaseIsDue

Listening == CallersListen /\ CoordinatorListens

(* Operations end one way, and the one who ends the last is about to       *)
(* release its route and to notify.                                        *)
LEMMA ReleaseStaysDue ==
  ASSUME Kept, ReleaseIsDue, [Next]_vars, \A g \in Calls : ~ReleaseRoute(g)
  PROVE  ReleaseIsDue'
<1> USE DEF ReleaseIsDue
<1>1. RegistryKept /\ executor \in [R!Gens -> Stages] /\ Calls \subseteq R!Gens
  BY CallsAreGens DEF Kept, ExecutorsHold
<1>2. ASSUME NEW id \in RequestIds, NEW b \in Backends, Reserve(id, b) PROVE ReleaseIsDue'
  BY <1>2 DEF Reserve, R!Reserve
<1>3. ASSUME NEW g \in Calls, ExecutorStep(g) \/ BackendDeclines(g) PROVE ReleaseIsDue'
  <2>1. PICK to \in Stages : executor' = [executor EXCEPT ![g] = to]
    BY <1>3, ExecutorMoves
  <2>2. CASE executor[g] \in Holding /\ UNCHANGED registryVars
    <3>1. Calls' = Calls /\ DOMAIN operations' = DOMAIN operations
      BY <1>1, <2>2, MarkedIsHeld
    <3> QED BY <1>1, <2>1, <2>2, <3>1 DEF Holding
  <2>3. CASE executor[g] \in Ended /\ OnlyMarked
    <3>1. Calls' = Calls /\ DOMAIN operations' = DOMAIN operations
      BY <1>1, <2>3, MarkedIsHeld
    <3> QED BY <1>1, <2>1, <2>3, <3>1 DEF Ended
  <2>4. CASE Setup(g)
    <3>1. DOMAIN operations' = DOMAIN operations /\ Calls' = Calls /\ executor[g] = "setup"
      BY <2>4 DEF Setup, Advance, R!Queue, R!Start, R!Transition, R!StartAttempt, R!Store, R!Issued
    <3> QED BY <1>1, <2>1, <3>1
  <2>5. CASE FinishOperation(g)
    <3>1. executor'[g] = "releasing" /\ Calls' = Calls
      BY <1>1, <2>5 DEF FinishOperation, Advance, R!FinishAttemptAndRelease, R!Issued
    <3> QED BY <3>1
  <2> QED BY <1>3, <2>2, <2>3, <2>4, <2>5, ExecutorMoves
<1>4. CASE Outside
  <2>1. OnlyMarked /\ executor' = executor
    BY <1>4, OutsideMarks DEF callVars
  <2>2. Calls' = Calls /\ DOMAIN operations' = DOMAIN operations
    BY <1>1, <2>1, MarkedIsHeld
  <2> QED BY <2>1, <2>2
<1> QED BY <1>2, <1>3, <1>4, StepKinds

(* Everybody but the tasks that wait either leaves what they look at alone *)
(* or notifies them.                                                       *)
LEMMA ChangesNotify ==
  ASSUME Kept, [Next]_vars
  PROVE  \/ /\ UNCHANGED <<caller, coordinator, enabled, woken, faulted>>
            /\ phase' \in {phase, "Quiescing"}
            /\ \A g \in Calls : ~ReleaseRoute(g)
         \/ NotifyWaiters /\ UNCHANGED <<caller, coordinator, enabled, phase>>
         \/ \E s \in Callers : ShutdownCalled(s) \/ ShutdownRepeated(s)
         \/ \E s \in Callers : CallerProgress(s) \/ CallerAborts(s)
         \/ CoordinatorStep
<1> USE DEF notifyVars, coordinatorVars, stateVars
<1>1. CASE \E g \in Calls : ReleaseRoute(g) \/ DropExecutor(g)
  BY <1>1 DEF ReleaseRoute, DropExecutor, MarkFaulted, Advance
<1> SUFFICES ASSUME \A g \in Calls : ~(ReleaseRoute(g) \/ DropExecutor(g))
             PROVE  \/ /\ UNCHANGED <<caller, coordinator, enabled, woken, faulted>>
                       /\ phase' \in {phase, "Quiescing"}
                    \/ \E s \in Callers : ShutdownCalled(s) \/ ShutdownRepeated(s)
                    \/ \E s \in Callers : CallerProgress(s) \/ CallerAborts(s)
                    \/ CoordinatorStep
  BY <1>1
<1>2. CASE \E id \in RequestIds, b \in Backends : Reserve(id, b)
  BY <1>2 DEF Reserve
<1>3. ASSUME NEW g \in Calls, ExecutorStep(g) \/ BackendDeclines(g)
      PROVE  UNCHANGED <<caller, coordinator, enabled, woken, faulted, phase>>
  <2>1. phase' = phase
    BY <1>3, ExecutorMoves
  <2>2. CASE MonitorRefused(g)
    BY <2>1, <2>2, Zenon DEF MonitorRefused, Advance
  <2>3. CASE ~MonitorRefused(g)
    BY <1>3, <2>1, <2>3 DEF ExecutorStep, BackendDeclines, Setup, BackendAdmits, BackendRejects,
       RecheckCancel, Recancel, SpawnMonitor, FinalArrives, FinishOperation, ReturnError, Deliver,
       JoinMonitor, Advance
  <2> QED BY <2>2, <2>3
<1>4. CASE \/ \E b \in Backends : RegisterBackend(b) \/ BackendStep(b)
           \/ UNCHANGED vars
  BY <1>4 DEF RegisterBackend, BackendStep, HostUnchanged, vars
<1>5. CASE \E g \in Calls : DropTicket(g) \/ TicketProgress(g)
  BY <1>5 DEF DropTicket, TicketProgress, TicketCaptures, TicketMarks, TicketCancels, TicketGone,
     TicketStep
<1>6. CASE \/ \E x \in Cancellers, id \in RequestIds : CancelCaptures(x, id)
           \/ \E x \in Cancellers : CancellerProgress(x)
           \/ Quiesce
           \/ \E g \in R!Gens : QuiesceDispatches(g)
  BY <1>6 DEF CancelCaptures, CancellerProgress, CancelMarks, CancelDispatches, CancellerStep,
     Quiesce, QuiesceDispatches
<1> QED BY <1>2, <1>3, <1>4, <1>5, <1>6, StepKinds DEF Outside

LEMMA CallersHear ==
  ASSUME Kept, Listening, NEW s \in Callers,
         \/ ShutdownCalled(s)
         \/ ShutdownRepeated(s)
         \/ CallerProgress(s)
         \/ CallerAborts(s)
  PROVE  Listening'
<1> USE DEF Listening, CallersListen, CoordinatorListens, ReleaseIsDue, Coordinator, notifyVars
<1>1. s # Coordinator
  BY HostAssumption
<1>2. CASE ShutdownCalled(s)
  <2>1. /\ caller' = [caller EXCEPT ![s] = "enabling"]
        /\ UNCHANGED <<faulted, executor, enabled, woken>>
        /\ phase' \in {phase, "Quiescing"}
        /\ coordinator' \in {coordinator, "begin"}
        /\ verdict' = verdict
    BY <1>2 DEF ShutdownCalled, StartCoordinator, callVars, stateVars, coordinatorVars
  <2>2. Calls' = Calls /\ DOMAIN operations' = DOMAIN operations
    <3>1. Outside
      BY <1>2 DEF Outside
    <3> QED BY <3>1, OutsideMarks, MarkedIsHeld DEF Kept
  <2>3. CallersListen'
    BY <2>1
  <2> QED BY <2>1, <2>2, <2>3
<1>3. CASE ~ShutdownCalled(s)
  <2> USE <1>3
  <2>1. UNCHANGED <<phase, faulted, coordinator, verdict, operations, leases, executor>>
    BY DEF ShutdownRepeated, CallerProgress, CallerEnables, CallerChecks, CallerDoubts, CallerWakes,
       CallerAborts, CallerStep, stateVars, coordinatorVars, registryVars, callVars
  <2>2. /\ Coordinator \in enabled' <=> Coordinator \in enabled
        /\ Coordinator \in woken' <=> Coordinator \in woken
    BY <1>1 DEF ShutdownRepeated, CallerProgress, CallerEnables, CallerChecks, CallerDoubts,
       CallerWakes, CallerAborts, Forget
  <2>3. CoordinatorListens'
    BY <2>1, <2>2 DEF R!Issued
  <2>4. CallersListen'
    <3> USE DEF CallerStep
    <3>6. shutdown_result \notin {"checking", "doubting", "sleeping"}
      BY DEF Kept, ClosingStages, Results
    <3>1. CASE ShutdownRepeated(s)
      BY <2>1, <3>1, <3>6 DEF ShutdownRepeated
    <3>2. CASE CallerEnables(s)
      BY <2>1, <3>2 DEF CallerEnables
    <3>3. CASE CallerChecks(s)
      BY <2>1, <3>3, <3>6 DEF CallerChecks, CallerSees, Forget
    <3>4. CASE CallerDoubts(s)
      BY <2>1, <3>4 DEF CallerDoubts, Forget
    <3>5. CASE CallerWakes(s) \/ CallerAborts(s)
      BY <2>1, <3>5 DEF CallerWakes, CallerAborts, Forget
    <3> QED BY <3>1, <3>2, <3>3, <3>4, <3>5 DEF CallerProgress
  <2> QED BY <2>3, <2>4
<1> QED BY <1>2, <1>3

LEMMA CoordinatorHears ==
  ASSUME Kept, Listening, CoordinatorStep
  PROVE  Listening'
<1> USE DEF Listening, CallersListen, CoordinatorListens, Coordinate, notifyVars, stateVars
<1>1. UNCHANGED <<operations, leases, executor, faulted, caller>>
  BY DEF CoordinatorStep, CloseTasks, CancelsDone, BackendsDone, CoordinatorCancels, StopBackend,
     BackendStopped, CoordinatorEnables, CoordinatorChecks, CoordinatorCounts, CoordinatorWakes,
     MonitorsDrained, Judge, PublishShutdown, registryVars, callVars
<1>2. ReleaseIsDue' <=> ReleaseIsDue
  BY <1>1 DEF ReleaseIsDue, R!Issued
<1>3. \A s \in Callers : s # Coordinator
  BY HostAssumption DEF Coordinator
<1> HIDE DEF Coordinator
<1>4. CASE CloseTasks \/ CancelsDone \/ BackendsDone \/ \E g \in R!Gens : CoordinatorCancels(g)
  BY <1>1, <1>4 DEF CloseTasks, CancelsDone, BackendsDone, CoordinatorCancels
<1>5. CASE \E b \in Backends : StopBackend(b) \/ BackendStopped(b)
  BY <1>1, <1>5 DEF StopBackend, BackendStopped, Results
<1>6. CASE CoordinatorEnables
  BY <1>1, <1>3, <1>6 DEF CoordinatorEnables
<1>7. CASE CoordinatorChecks
  BY <1>1, <1>3, <1>7 DEF CoordinatorChecks, Forget, Results
<1>8. CASE CoordinatorCounts
  <2>1. coordinator = "counting" /\ UNCHANGED <<phase, verdict>>
    BY <1>8 DEF CoordinatorCounts
  <2>2. CASE DOMAIN operations = {}
    <3>1. coordinator' = "draining" /\ Forget(Coordinator)
      BY <1>8, <2>2 DEF CoordinatorCounts
    <3> QED BY <1>1, <1>3, <2>1, <3>1 DEF Forget
  <2>3. CASE DOMAIN operations # {}
    <3>1. coordinator' = "sleeping" /\ UNCHANGED <<enabled, woken>>
      BY <1>8, <2>3 DEF CoordinatorCounts
    <3>2. ReleaseIsDue'
      BY <1>2, <2>3 DEF ReleaseIsDue
    <3> QED BY <1>1, <2>1, <3>1, <3>2
  <2> QED BY <2>2, <2>3
<1>9. CASE CoordinatorWakes
  BY <1>1, <1>3, <1>9 DEF CoordinatorWakes, Forget
<1>10. CASE MonitorsDrained \/ Judge
  BY <1>1, <1>10 DEF MonitorsDrained, Judge, Results
<1>11. CASE PublishShutdown
  BY <1>1, <1>11 DEF PublishShutdown, NotifyWaiters
<1> QED BY <1>4, <1>5, <1>6, <1>7, <1>8, <1>9, <1>10, <1>11 DEF CoordinatorStep

LEMMA ListeningStep ==
  ASSUME Kept, Listening, [Next]_vars
  PROVE  Listening'
<1>1. UNCHANGED verdict \/ CoordinatorStep
  BY WhoCloses DEF ClosingUntouched, coordinatorVars, Quiesce, ShutdownCalled, StartCoordinator
<1>2. CASE /\ UNCHANGED <<caller, coordinator, enabled, woken, faulted>>
           /\ phase' \in {phase, "Quiescing"}
           /\ \A g \in Calls : ~ReleaseRoute(g)
           /\ UNCHANGED verdict
  <2>1. ReleaseIsDue => ReleaseIsDue'
    BY <1>2, ReleaseStaysDue
  <2> QED BY <1>2, <2>1 DEF Listening, CallersListen, CoordinatorListens
<1>3. CASE /\ NotifyWaiters /\ UNCHANGED <<caller, coordinator, enabled, phase>>
           /\ UNCHANGED verdict
  BY <1>3 DEF NotifyWaiters, Listening, CallersListen, CoordinatorListens
<1> QED BY <1>1, <1>2, <1>3, CallersHear, CoordinatorHears, ChangesNotify

LEMMA ListeningInvariant == Spec => []Listening
<1>1. Init => Listening
  BY DEF Init, Listening, CallersListen, CoordinatorListens, Results
<1>2. Kept /\ Listening /\ [Next]_vars => Listening'
  BY ListeningStep
<1> QED BY <1>1, <1>2, KeptInvariant, PTL DEF Spec

(* However callers of shutdown and its coordinator look, sleep, go and come*)
(* again on the one Notify, while calls end, fault the host and release    *)
(* their routes, nobody sleeps through what it waits for (mark_faulted,    *)
(* release_route, publish_shutdown; wait_for_shutdown and                  *)
(* wait_for_active_empty).                                                 *)
THEOREM NobodySleepsThrough == Spec => []NoWakeupIsMissed
<1>1. Listening => NoWakeupIsMissed
  BY DEF Listening, CallersListen, CoordinatorListens, ReleaseIsDue, NoWakeupIsMissed
<1> QED BY <1>1, ListeningInvariant, PTL
---------------------------------------------------------------------------
(* The parts inside the host: it drives the backends and the supervisor    *)
(* only by what they offer.                                                *)

LEMMA CancelStepsBackends ==
  ASSUME Kept, NEW g \in Calls, NEW source, BackendCancel(g, source)
  PROVE  B!Next
<1>1. selected[g] \in Backends /\ leases[g] \in RequestIds
  BY CallsAreGens DEF Kept, RoutesOwned
<1> QED BY <1>1 DEF BackendCancel, B!Next

LEMMA HostStepsBackends ==
  ASSUME Kept, [Next]_vars
  PROVE  [B!Next]_(B!backendVars)
<1> USE DEF backendVars, B!backendVars
<1>1. ASSUME NEW b \in Backends, RegisterBackend(b) \/ BackendStep(b) PROVE [B!Next]_(B!backendVars)
  BY <1>1 DEF RegisterBackend, BackendStep, B!Next
<1>2. ASSUME NEW id \in RequestIds, NEW b \in Backends, Reserve(id, b) PROVE UNCHANGED backendVars
  BY <1>2 DEF Reserve
<1>3. ASSUME NEW g \in Calls, ExecutorStep(g) \/ BackendDeclines(g)
      PROVE  [B!Next]_(B!backendVars)
  <2>1. CASE BackendAdmits(g)
    <3>1. selected[g] \in Backends /\ leases[g] \in RequestIds /\ g \in R!Gens
      BY CallsAreGens DEF Kept, RoutesOwned
    <3> QED BY <2>1, <3>1 DEF BackendAdmits, B!Next
  <2>2. CASE Recancel(g)
    BY <2>2, CancelStepsBackends DEF Recancel
  <2>3. CASE MonitorRefused(g)
    BY <2>3, CancelStepsBackends DEF MonitorRefused
  <2>4. CASE Setup(g) \/ BackendRejects(g) \/ RecheckCancel(g) \/ SpawnMonitor(g) \/ DropExecutor(g)
             \/ BackendDeclines(g)
    BY <2>4 DEF Setup, BackendRejects, RecheckCancel, SpawnMonitor, DropExecutor, BackendDeclines
  <2>5. CASE FinalArrives(g) \/ FinishOperation(g) \/ ReleaseRoute(g) \/ ReturnError(g) \/ Deliver(g)
             \/ JoinMonitor(g)
    BY <2>5 DEF FinalArrives, FinishOperation, ReleaseRoute, ReturnError, Deliver, JoinMonitor
  <2> QED BY <1>3, <2>1, <2>2, <2>3, <2>4, <2>5 DEF ExecutorStep
<1>4. ASSUME NEW g \in Calls, DropTicket(g) \/ TicketProgress(g) PROVE [B!Next]_(B!backendVars)
  <2>1. CASE TicketCancels(g)
    BY <2>1, CancelStepsBackends DEF TicketCancels
  <2>2. CASE DropTicket(g) \/ TicketCaptures(g) \/ TicketMarks(g) \/ TicketGone(g)
    BY <2>2 DEF DropTicket, TicketCaptures, TicketMarks, TicketGone
  <2> QED BY <1>4, <2>1, <2>2 DEF TicketProgress
<1>5. ASSUME NEW x \in Cancellers, CancellerProgress(x) PROVE [B!Next]_(B!backendVars)
  <2>1. CASE CancelDispatches(x)
    <3>1. canceller[x].target \in Calls
      BY <2>1 DEF CancelDispatches, CancellerStep, Kept, CancelsAimed
    <3> QED BY <2>1, <3>1, CancelStepsBackends DEF CancelDispatches
  <2>2. CASE CancelMarks(x)
    BY <2>2 DEF CancelMarks
  <2> QED BY <1>5, <2>1, <2>2 DEF CancellerProgress
<1>6. ASSUME NEW g \in R!Gens, QuiesceDispatches(g) PROVE B!Next
  <2>1. g \in Calls
    BY <1>6 DEF QuiesceDispatches, Kept, CancelsAimed
  <2> QED BY <1>6, <2>1, CancelStepsBackends DEF QuiesceDispatches
<1>7. ASSUME \/ \E x \in Cancellers, id \in RequestIds : CancelCaptures(x, id)
             \/ Quiesce
             \/ \E s \in Callers : ShutdownCalled(s) \/ ShutdownRepeated(s) \/ CallerAborts(s)
      PROVE  UNCHANGED backendVars
  BY <1>7 DEF CancelCaptures, Quiesce, ShutdownCalled, ShutdownRepeated, CallerAborts, CallerStep
<1>8. ASSUME NEW s \in Callers, CallerProgress(s) PROVE UNCHANGED backendVars
  BY <1>8 DEF CallerProgress, CallerEnables, CallerChecks, CallerDoubts, CallerWakes, CallerStep
<1>9. ASSUME CoordinatorStep PROVE [B!Next]_(B!backendVars)
  <2>1. ASSUME NEW g \in R!Gens, CoordinatorCancels(g) PROVE B!Next
    <3>1. g \in Calls
      BY <2>1 DEF CoordinatorCancels, Kept, CancelsAimed
    <3> QED BY <2>1, <3>1, CancelStepsBackends DEF CoordinatorCancels
  <2>2. ASSUME NEW b \in Backends, StopBackend(b) \/ BackendStopped(b)
        PROVE  [B!Next]_(B!backendVars)
    BY <2>2 DEF StopBackend, BackendStopped, B!Next
  <2>3. CASE CloseTasks \/ CancelsDone \/ BackendsDone \/ CoordinatorEnables \/ CoordinatorChecks
    BY <2>3 DEF CloseTasks, CancelsDone, BackendsDone, CoordinatorEnables, CoordinatorChecks
  <2>4. CASE CoordinatorCounts \/ CoordinatorWakes \/ MonitorsDrained \/ Judge \/ PublishShutdown
    BY <2>4 DEF CoordinatorCounts, CoordinatorWakes, MonitorsDrained, Judge, PublishShutdown
  <2> QED BY <1>9, <2>1, <2>2, <2>3, <2>4 DEF CoordinatorStep
<1>10. UNCHANGED vars => UNCHANGED backendVars
  BY DEF vars
<1> QED BY <1>1, <1>2, <1>3, <1>4, <1>5, <1>6, <1>7, <1>8, <1>9, <1>10 DEF Next

LEMMA WhoTouchesTasks ==
  ASSUME Kept, [Next]_vars
  PROVE  \/ UNCHANGED taskVars \/ CloseTasks
         \/ \E g \in Calls : SpawnMonitor(g) \/ JoinMonitor(g)
<1> USE DEF taskVars
<1>1. ASSUME NEW g \in Calls, ExecutorStep(g)
      PROVE  UNCHANGED taskVars \/ SpawnMonitor(g) \/ JoinMonitor(g)
  <2>2. CASE SpawnMonitor(g) \/ JoinMonitor(g)
    BY <2>2
  <2>3. CASE Setup(g) \/ BackendAdmits(g) \/ BackendRejects(g) \/ RecheckCancel(g) \/ Recancel(g)
             \/ MonitorRefused(g) \/ DropExecutor(g)
    BY <2>3 DEF Setup, BackendAdmits, BackendRejects, RecheckCancel, Recancel, MonitorRefused,
       DropExecutor
  <2>4. CASE FinalArrives(g) \/ FinishOperation(g) \/ ReleaseRoute(g) \/ ReturnError(g) \/ Deliver(g)
    BY <2>4 DEF FinalArrives, FinishOperation, ReleaseRoute, ReturnError, Deliver
  <2> QED BY <1>1, <2>2, <2>3, <2>4 DEF ExecutorStep
<1>2. ASSUME CoordinatorStep PROVE UNCHANGED taskVars \/ CloseTasks
  <2>1. CASE CloseTasks
    BY <2>1
  <2>2. CASE \/ CancelsDone \/ BackendsDone \/ CoordinatorEnables \/ CoordinatorChecks
             \/ \E g \in R!Gens : CoordinatorCancels(g)
             \/ \E b \in Backends : StopBackend(b) \/ BackendStopped(b)
    BY <2>2 DEF CancelsDone, BackendsDone, CoordinatorEnables, CoordinatorChecks,
       CoordinatorCancels, StopBackend, BackendStopped
  <2>3. CASE CoordinatorCounts \/ CoordinatorWakes \/ MonitorsDrained \/ Judge \/ PublishShutdown
    BY <2>3 DEF CoordinatorCounts, CoordinatorWakes, MonitorsDrained, Judge, PublishShutdown
  <2> QED BY <1>2, <2>1, <2>2, <2>3 DEF CoordinatorStep
<1>3. ASSUME NEW g \in Calls, DropTicket(g) \/ TicketProgress(g) \/ BackendDeclines(g)
      PROVE  UNCHANGED taskVars
  BY <1>3 DEF DropTicket, TicketProgress, TicketCaptures, TicketMarks, TicketCancels, TicketGone,
     TicketStep, BackendDeclines
<1>4. ASSUME NEW x \in Cancellers, CancellerProgress(x) PROVE UNCHANGED taskVars
  BY <1>4 DEF CancellerProgress, CancelMarks, CancelDispatches, CancellerStep
<1>5. ASSUME \/ \E id \in RequestIds, b \in Backends : Reserve(id, b)
             \/ \E b \in Backends : RegisterBackend(b) \/ BackendStep(b)
             \/ \E x \in Cancellers, id \in RequestIds : CancelCaptures(x, id)
             \/ Quiesce \/ \E g \in R!Gens : QuiesceDispatches(g)
      PROVE  UNCHANGED taskVars
  BY <1>5 DEF Reserve, RegisterBackend, BackendStep, HostUnchanged, CancelCaptures, CancellerStep,
     Quiesce, QuiesceDispatches
<1>6. ASSUME NEW s \in Callers,
             ShutdownCalled(s) \/ ShutdownRepeated(s) \/ CallerAborts(s) \/ CallerProgress(s)
      PROVE  UNCHANGED taskVars
  BY <1>6 DEF ShutdownCalled, ShutdownRepeated, CallerAborts, CallerProgress, CallerEnables,
     CallerChecks, CallerDoubts, CallerWakes, CallerStep
<1>7. UNCHANGED vars => UNCHANGED taskVars
  BY DEF vars
<1> QED BY <1>1, <1>2, <1>3, <1>4, <1>5, <1>6, <1>7 DEF Next

LEMMA HostStepsTasks ==
  ASSUME Kept, [Next]_vars
  PROVE  [T!Next]_(T!taskVars)
<1>1. CASE UNCHANGED taskVars
  BY <1>1 DEF taskVars, T!taskVars
<1>2. CASE CloseTasks
  BY <1>2 DEF CloseTasks, T!Next
<1>3. ASSUME NEW g \in Calls, SpawnMonitor(g) \/ JoinMonitor(g) PROVE T!Next
  <2>1. g \in R!Gens
    BY CallsAreGens DEF Kept
  <2> QED BY <1>3, <2>1 DEF SpawnMonitor, JoinMonitor, T!Next
<1> QED BY <1>1, <1>2, <1>3, WhoTouchesTasks

(* What the host does to a backend, from dispatch to the coordinator's     *)
(* shutdown, is what the SpeechBackend protocol allows; the same protocol  *)
(* is what ParakeetBackend and ParakeetTranscription implement.            *)
THEOREM HostRunsBackends == Spec => B!Spec
<1>1. Init => B!Init
  BY DEF Init
<1>2. Kept /\ [Next]_vars => [B!Next]_(B!backendVars)
  BY HostStepsBackends
<1> QED BY <1>1, <1>2, KeptInvariant, PTL DEF Spec, B!Spec

(* The monitors are supervised tasks: spawned while the supervisor is      *)
(* open, live until joined; it is what TaskSupervisor implements.          *)
THEOREM HostRunsTasks == Spec => T!Spec
<1>1. Init => T!Init
  BY DEF Init
<1>2. Kept /\ [Next]_vars => [T!Next]_(T!taskVars)
  BY HostStepsTasks
<1> QED BY <1>1, <1>2, KeptInvariant, PTL DEF Spec, T!Spec
---------------------------------------------------------------------------
(* The whole host, as its clients see it.                                  *)

(* What has ended was decided, and what was joined had its answer.         *)
Settled ==
  /\ \A g \in DOMAIN released : released[g].terminal # "None"
  /\ \A g \in R!Gens : g \in joined_monitors => backend_final[g] # "None"
  /\ \A g \in monitors : g \notin joined_monitors

LEMMA WhoReleases ==
  ASSUME Kept, [Next]_vars
  PROVE  UNCHANGED released \/ \E g \in Calls : FinishOperation(g)
<1>1. CASE \E id \in RequestIds, b \in Backends : Reserve(id, b)
  BY <1>1 DEF Reserve, R!Reserve
<1>2. CASE Outside
  BY <1>2, OutsideMarks DEF OnlyMarked
<1>3. ASSUME NEW g \in Calls, ExecutorStep(g) \/ BackendDeclines(g)
      PROVE  UNCHANGED released \/ FinishOperation(g)
  <2>1. CASE Setup(g)
    BY <2>1 DEF Setup, R!Queue, R!Start, R!Transition, R!StartAttempt, R!Store
  <2>2. CASE ReleaseRoute(g)
    BY <2>2 DEF ReleaseRoute, registryVars
  <2> QED BY <1>3, <2>1, <2>2, ExecutorMoves DEF OnlyMarked, registryVars
<1> QED BY <1>1, <1>2, <1>3, StepKinds

LEMMA FinishDecides ==
  ASSUME Kept, NEW g \in Calls, FinishOperation(g)
  PROVE  /\ g \notin DOMAIN released
         /\ DOMAIN released' = DOMAIN released \cup {g}
         /\ released'[g].terminal \in R!TerminalClass
         /\ \A h \in DOMAIN released : released'[h] = released[h]
<1>1. executor[g] = "finishing" /\ R!Holds(g)
  BY DEF FinishOperation, Advance, R!FinishAttemptAndRelease
<1>2. g \notin DOMAIN released
  BY <1>1, HeldOrReleased DEF Kept
<1>3. TerminalsOf(g) \subseteq R!TerminalClass
  BY <1>1, FinishEndsProperly
<1>4. DOMAIN released' = DOMAIN released \cup {g}
  BY DEF FinishOperation, R!FinishAttemptAndRelease, R!Retire
<1> QED BY <1>2, <1>3, <1>4, FinishKept

LEMMA SettledNext ==
  ASSUME Kept, Settled, [Next]_vars
  PROVE  Settled'
<1>1. \A g \in DOMAIN released' : released'[g].terminal # "None"
  <2>1. CASE UNCHANGED released
    BY <2>1 DEF Settled
  <2>2. ASSUME NEW g \in Calls, FinishOperation(g)
        PROVE  \A h \in DOMAIN released' : released'[h].terminal # "None"
    BY <2>2, FinishDecides DEF Settled, R!TerminalClass
  <2> QED BY <2>1, <2>2, WhoReleases
<1>2. \A g \in R!Gens : g \in joined_monitors' => backend_final[g] # "None"
  <2>1. CASE UNCHANGED joined_monitors
    BY <2>1 DEF Settled
  <2>2. ASSUME NEW g \in Calls, JoinMonitor(g)
        PROVE  \A h \in R!Gens : h \in joined_monitors' => backend_final[h] # "None"
    <3>1. executor[g] = "relayed" /\ joined_monitors' = joined_monitors \cup {g}
      BY <2>2 DEF JoinMonitor, Advance, T!Join
    <3>2. g \in R!Gens => backend_final[g] # "None"
      BY <3>1 DEF Kept, MonitorsRelay, MonitorRelays
    <3> QED BY <3>1, <3>2 DEF Settled
  <2> QED BY <2>1, <2>2, WhoTouchesTasks DEF taskVars, CloseTasks, T!Close, SpawnMonitor, T!Admit
<1>3. \A g \in monitors' : g \notin joined_monitors'
  BY HostStepsTasks DEF Settled, T!Next, T!taskVars, T!Admit, T!Join, T!Close
<1> QED BY <1>1, <1>2, <1>3, FinalsStay DEF Settled

(* Whoever has an answer keeps it, ...                                     *)
LEMMA AnswersStay ==
  ASSUME Kept, Settled, [Next]_vars, NEW g \in R!Gens, Delivered(g)' <=> Delivered(g)
  PROVE  AnswerOf(g)' = AnswerOf(g)
<1>1. Delivered(g) => backend_final[g] # "None"
  BY DEF Settled, Delivered, Kept, MonitorsRelay, MonitorRelays
<1> QED BY <1>1, FinalsStay DEF AnswerOf

(* ... and what is under neither a route nor an outcome nor a monitor      *)
(* shows a client nothing.                                                 *)
ViewStays ==
  /\ UNCHANGED <<IdsInUse, OwedCalls>> /\ Calls' = Calls
  /\ \A g \in R!Gens : OutcomeOf(g)' = OutcomeOf(g) /\ AnswerOf(g)' = AnswerOf(g)

EndsStay == UNCHANGED <<phase, shutdown_result>>

LEMMA UnseenStutters ==
  ASSUME ViewStays, EndsStay
  PROVE  UNCHANGED Service!serviceVars
BY DEF ViewStays, EndsStay, Service!serviceVars

LEMMA OutsideIsUnseen ==
  ASSUME Kept, Settled, [Next]_vars, Outside
  PROVE  ViewStays
<1>1. OnlyMarked /\ UNCHANGED <<executor, monitors, routes>>
  BY OutsideMarks
<1>2. UNCHANGED joined_monitors
  <2>1. ASSUME NEW g \in Calls, JoinMonitor(g) PROVE FALSE
    BY <1>1, <2>1 DEF JoinMonitor, T!Join
  <2> QED BY <2>1, WhoTouchesTasks DEF taskVars, CloseTasks, T!Close, SpawnMonitor, T!Admit
<1>3. \A g \in R!Gens : Delivered(g)' <=> Delivered(g)
  BY <1>1, <1>2 DEF Delivered
<1>4. Calls' = Calls /\ released' = released
  BY <1>1 DEF OnlyMarked, R!Issued
<1> QED BY <1>1, <1>3, <1>4, AnswersStay DEF ViewStays, IdsInUse, OwedCalls, OutcomeOf

(* What executors, monitors, the coordinator and quiesce do is what the    *)
(* service offers; the rest of the executor's work shows nothing.          *)
LEMMA ReserveAccepts ==
  ASSUME Kept, Settled, [Next]_vars, NEW id \in RequestIds, NEW b \in Backends, Reserve(id, b)
  PROVE  Service!Accept(id, next_sequence) /\ next_sequence \in R!Gens
<1>1. next_sequence \in R!Gens /\ next_sequence \notin Calls /\ Calls' = Calls \cup {next_sequence}
  BY ReserveAdds
<1>2. IdsInUse' = IdsInUse \cup {<<id, next_sequence>>} /\ \A entry \in IdsInUse : entry[1] # id
  BY DEF Reserve, IdsInUse
<1>3. /\ executor \in [R!Gens -> Stages] /\ executor[next_sequence] = "none"
      /\ executor' = [executor EXCEPT ![next_sequence] = "setup"]
      /\ UNCHANGED <<monitors, joined_monitors, released, phase, shutdown_result>>
  BY <1>1 DEF Kept, ExecutorsHold, ExecutorHolds, Reserve, taskVars, R!Reserve
<1>4. \A g \in R!Gens : Delivered(g)' <=> Delivered(g)
  BY <1>1, <1>3 DEF Delivered
<1>5. OwedCalls' = OwedCalls
  BY <1>1, <1>3, CallsAreGens DEF OwedCalls, Kept, MonitorsRelay
<1>6. \A g \in R!Gens : OutcomeOf(g)' = OutcomeOf(g) /\ AnswerOf(g)' = AnswerOf(g)
  BY <1>3, <1>4, AnswersStay DEF OutcomeOf
<1>7. phase = "Running"
  BY DEF Reserve
<1> QED BY <1>1, <1>2, <1>3, <1>5, <1>6, <1>7 DEF Service!Accept

LEMMA SpawnPromises ==
  ASSUME Kept, Settled, [Next]_vars, NEW g \in Calls, SpawnMonitor(g)
  PROVE  Service!Promise(leases[g], g)
<1>1. g \in R!Gens /\ executor \in [R!Gens -> Stages] /\ executor[g] = "spawning" /\ R!Holds(g)
  BY CallsAreGens DEF Kept, ExecutorsHold, ExecutorHolds, Holding, SpawnMonitor, Advance
<1>2. OutcomeOf(g) = "None"
  BY <1>1, HeldOrReleased DEF Kept, OutcomeOf
<1>3. <<leases[g], g>> \in IdsInUse
  BY <1>1 DEF Kept, RoutesOwned, Holding, OwnsRoute, IdsInUse
<1>4. /\ executor' = [executor EXCEPT ![g] = "relaying"]
      /\ monitors' = monitors \cup {g}
      /\ UNCHANGED <<joined_monitors, registryVars, stateVars>>
  BY DEF SpawnMonitor, Advance, T!Admit
<1>5. OwedCalls' = OwedCalls \cup {g}
  BY <1>1, <1>4, CallsAreGens DEF OwedCalls, Kept, MonitorsRelay
<1>6. \A h \in R!Gens : Delivered(h)' <=> Delivered(h)
  BY <1>1, <1>4 DEF Delivered
<1>7. \A h \in R!Gens : OutcomeOf(h)' = OutcomeOf(h) /\ AnswerOf(h)' = AnswerOf(h)
  BY <1>4, <1>6, AnswersStay DEF OutcomeOf, registryVars
<1>8. UNCHANGED <<IdsInUse, phase, shutdown_result>> /\ Calls' = Calls
  BY <1>4 DEF IdsInUse, stateVars, registryVars, R!Issued
<1> QED BY <1>1, <1>2, <1>3, <1>5, <1>7, <1>8 DEF Service!Promise

LEMMA FinishIsDecision ==
  ASSUME Kept, Settled, [Next]_vars, NEW g \in Calls, FinishOperation(g)
  PROVE  \E terminal \in R!TerminalClass : Service!Decide(leases[g], g, terminal)
<1> DEFINE terminal == released'[g].terminal
<1>1. g \in R!Gens /\ executor \in [R!Gens -> Stages] /\ executor[g] = "finishing"
  BY CallsAreGens DEF Kept, ExecutorsHold, FinishOperation, Advance
<1>2. <<leases[g], g>> \in IdsInUse
  BY <1>1 DEF Kept, RoutesOwned, Holding, OwnsRoute, IdsInUse
<1>3. /\ executor' = [executor EXCEPT ![g] = "releasing"]
      /\ UNCHANGED <<leases, taskVars, stateVars>>
  BY DEF FinishOperation, Advance, R!FinishAttemptAndRelease
<1>4. /\ OutcomeOf(g) = "None" /\ OutcomeOf(g)' = terminal
      /\ \A h \in R!Gens \ {g} : OutcomeOf(h)' = OutcomeOf(h)
  BY FinishDecides DEF OutcomeOf
<1>5. \A h \in R!Gens : Delivered(h)' <=> Delivered(h)
  BY <1>1, <1>3 DEF Delivered, taskVars
<1>6. \A h \in R!Gens : AnswerOf(h)' = AnswerOf(h)
  BY <1>5, AnswersStay
<1>7. OwedCalls' = OwedCalls
  BY <1>1, <1>3, CallsAreGens DEF OwedCalls, Kept, MonitorsRelay, taskVars
<1>8. UNCHANGED <<IdsInUse, phase, shutdown_result>> /\ Calls' = Calls
  BY <1>3 DEF IdsInUse, stateVars, R!Issued
<1>9. terminal \in R!TerminalClass
  BY FinishDecides
<1> HIDE DEF terminal
<1>10. Service!Decide(leases[g], g, terminal)
  BY <1>1, <1>2, <1>4, <1>6, <1>7, <1>8 DEF Service!Decide
<1> QED BY <1>9, <1>10

LEMMA ReleaseFrees ==
  ASSUME Kept, Settled, [Next]_vars, NEW g \in Calls, ReleaseRoute(g)
  PROVE  Service!Free(leases[g], g)
<1>1. /\ g \in R!Gens /\ executor \in [R!Gens -> Stages] /\ executor[g] = "releasing"
      /\ g \in DOMAIN released
  <2>1. g \in R!Gens /\ executor[g] = "releasing" /\ ExecutorHolds(g)
    BY CallsAreGens DEF Kept, ExecutorsHold, ReleaseRoute, Advance
  <2> QED BY <2>1, HeldOrReleased DEF Kept, ExecutorsHold, ExecutorHolds, Holding
<1>2. OutcomeOf(g) # "None"
  BY <1>1 DEF Settled, OutcomeOf
<1>3. <<leases[g], g>> \in IdsInUse /\ IdsInUse' = IdsInUse \ {<<leases[g], g>>}
  BY DEF ReleaseRoute, OwnsRoute, IdsInUse
<1>4. /\ executor' = [executor EXCEPT ![g] = IF g \in monitors THEN "delivering" ELSE "returning"]
      /\ UNCHANGED <<registryVars, taskVars, phase, shutdown_result>>
  BY DEF ReleaseRoute, Advance
<1>5. \A h \in R!Gens : Delivered(h)' <=> Delivered(h)
  BY <1>1, <1>4 DEF Delivered, taskVars
<1>6. \A h \in R!Gens : OutcomeOf(h)' = OutcomeOf(h) /\ AnswerOf(h)' = AnswerOf(h)
  BY <1>4, <1>5, AnswersStay DEF OutcomeOf, registryVars
<1>7. OwedCalls' = OwedCalls /\ Calls' = Calls
  BY <1>1, <1>4, CallsAreGens DEF OwedCalls, Kept, MonitorsRelay, taskVars, registryVars, R!Issued
<1> QED BY <1>1, <1>2, <1>3, <1>4, <1>6, <1>7 DEF Service!Free

LEMMA DeliverAnswers ==
  ASSUME Kept, Settled, [Next]_vars, NEW g \in Calls, Deliver(g)
  PROVE  Service!Answer(g)
<1>1. /\ g \in R!Gens /\ executor \in [R!Gens -> Stages] /\ executor[g] = "delivering"
      /\ ExecutorHolds(g) /\ MonitorRelays(g)
  BY CallsAreGens DEF Kept, ExecutorsHold, MonitorsRelay, Deliver, Advance
<1>2. g \in monitors /\ g \in DOMAIN released /\ released[g].terminal = backend_final[g]
  BY <1>1, HeldOrReleased DEF Kept, ExecutorHolds, MonitorRelays, Holding
<1>3. OutcomeOf(g) = backend_final[g] /\ OutcomeOf(g) # "None" /\ AnswerOf(g) = "None"
  BY <1>1, <1>2 DEF Settled, OutcomeOf, AnswerOf, Delivered
<1>4. \A entry \in IdsInUse : entry[2] # g
  BY <1>1 DEF Kept, RoutesOwned, Holding, OwnsRoute, IdsInUse
<1>5. /\ executor' = [executor EXCEPT ![g] = "relayed"]
      /\ UNCHANGED <<registryVars, backendVars, taskVars, stateVars>>
  BY DEF Deliver, Advance
<1>6. AnswerOf(g)' = OutcomeOf(g)
  BY <1>1, <1>3, <1>5 DEF AnswerOf, Delivered, backendVars
<1>7. \A h \in R!Gens \ {g} : AnswerOf(h)' = AnswerOf(h)
  BY <1>1, <1>5 DEF AnswerOf, Delivered, backendVars, taskVars
<1>8. \A h \in R!Gens : OutcomeOf(h)' = OutcomeOf(h)
  BY <1>5 DEF OutcomeOf, registryVars
<1>9. g \in OwedCalls /\ OwedCalls' = OwedCalls \ {g}
  BY <1>1, <1>2, <1>5, CallsAreGens DEF OwedCalls, Kept, MonitorsRelay, taskVars
<1>10. UNCHANGED <<IdsInUse, phase, shutdown_result>> /\ Calls' = Calls
  BY <1>5 DEF IdsInUse, stateVars, registryVars, R!Issued
<1> QED BY <1>1, <1>3, <1>4, <1>6, <1>7, <1>8, <1>9, <1>10 DEF Service!Answer

LEMMA WhoEnds ==
  ASSUME Kept, [Next]_vars
  PROVE  \/ EndsStay
         \/ Quiesce \/ PublishShutdown
         \/ \E s \in Callers : ShutdownCalled(s)
<1>1. CoordinatorStep => EndsStay \/ PublishShutdown
  BY DEF CoordinatorStep, EndsStay, stateVars, CloseTasks, CancelsDone, BackendsDone,
     CoordinatorCancels, StopBackend, BackendStopped, CoordinatorEnables, CoordinatorChecks,
     CoordinatorCounts, CoordinatorWakes, MonitorsDrained, Judge
<1> QED BY <1>1, WhoCloses DEF EndsStay, ClosingUntouched

LEMMA QuiesceStops ==
  ASSUME ViewStays, Quiesce \/ \E s \in Callers : ShutdownCalled(s)
  PROVE  Service!Stop
<1>1. phase' = "Quiescing" /\ UNCHANGED shutdown_result
  BY DEF Quiesce, ShutdownCalled, StartCoordinator, stateVars
<1> QED BY <1>1 DEF ViewStays, Service!Stop

LEMMA PublishReports ==
  ASSUME Kept, Settled, Listening, ViewStays, PublishShutdown
  PROVE  Service!Report(verdict) /\ verdict \in Results
<1>1. /\ coordinator = "publishing" /\ phase' = "Closed" /\ shutdown_result' = verdict
  BY DEF PublishShutdown, Coordinate
<1>2. phase # "Running" /\ shutdown_result = "None"
  BY <1>1 DEF Kept, ClosingStages
<1>3. verdict = "Ok" => DOMAIN operations = {} /\ monitors = {}
  BY <1>1 DEF Kept, NothingComesBack, Counted
<1>4. ASSUME DOMAIN operations = {}, NEW entry \in IdsInUse
      PROVE  entry[2] \in R!Gens /\ OutcomeOf(entry[2]) # "None"
  <2>1. PICK id \in DOMAIN routes : entry = <<id, routes[id].identity>>
    BY <1>4 DEF IdsInUse
  <2>2. entry[2] \in Calls /\ entry[2] \in R!Gens /\ ~R!Holds(entry[2])
    BY <1>4, <2>1, CallsAreGens DEF Kept, RoutesOwned, R!Holds
  <2> QED BY <2>2, HeldOrReleased DEF Kept, Settled, OutcomeOf
<1>5. verdict = "Ok" => /\ OwedCalls = {}
                        /\ \A entry \in IdsInUse :
                             [g \in R!Gens |-> OutcomeOf(g)][entry[2]] # "None"
  BY <1>3, <1>4 DEF OwedCalls
<1>6. verdict \in Results
  BY DEF Listening, CoordinatorListens
<1> QED BY <1>1, <1>2, <1>5, <1>6 DEF ViewStays, Service!Report

(* The stages of an executor between what a client can see.                *)
LEMMA WorkIsUnseen ==
  ASSUME Kept, Settled, [Next]_vars, NEW g \in Calls, ExecutorStep(g) \/ BackendDeclines(g)
  PROVE  \/ SpawnMonitor(g) \/ FinishOperation(g) \/ ReleaseRoute(g) \/ Deliver(g)
         \/ ViewStays
<1>1. g \in R!Gens /\ executor \in [R!Gens -> Stages]
  BY CallsAreGens DEF Kept, ExecutorsHold
<1>2. CASE JoinMonitor(g)
  <2>1. /\ executor[g] = "relayed" /\ executor' = [executor EXCEPT ![g] = "done"]
        /\ monitors' = monitors \ {g} /\ joined_monitors' = joined_monitors \cup {g}
        /\ UNCHANGED <<registryVars, routes>>
    BY <1>2 DEF JoinMonitor, Advance, T!Join, stateVars
  <2>2. \A h \in R!Gens : Delivered(h)' <=> Delivered(h)
    BY <1>1, <2>1 DEF Delivered
  <2>3. OwedCalls' = OwedCalls
    BY <1>1, <2>1, CallsAreGens DEF OwedCalls, Kept, MonitorsRelay
  <2> QED BY <2>1, <2>2, <2>3, AnswersStay DEF ViewStays, IdsInUse, OutcomeOf, registryVars, R!Issued
<1>3. ASSUME NEW from, NEW to, executor[g] = from, executor' = [executor EXCEPT ![g] = to],
             from # "relayed", to # "relayed", UNCHANGED <<taskVars, routes, leases, released>>
      PROVE  ViewStays
  <2>1. \A h \in R!Gens : Delivered(h)' <=> Delivered(h)
    BY <1>1, <1>3 DEF Delivered, taskVars
  <2>2. OwedCalls' = OwedCalls
    BY <1>1, <1>3, CallsAreGens DEF OwedCalls, Kept, MonitorsRelay, taskVars
  <2> QED BY <1>3, <2>1, <2>2, AnswersStay DEF ViewStays, IdsInUse, OutcomeOf, R!Issued
<1>4. CASE Setup(g) \/ ReturnError(g)
  BY <1>3, <1>4 DEF Setup, ReturnError, Advance, stateVars, R!Queue, R!Start, R!Transition,
     R!StartAttempt, R!ConsumerDrop
<1>5. CASE BackendAdmits(g) \/ BackendRejects(g) \/ BackendDeclines(g) \/ RecheckCancel(g)
  BY <1>3, <1>5 DEF BackendAdmits, BackendRejects, BackendDeclines, RecheckCancel, Advance,
     stateVars, registryVars
<1>6. CASE Recancel(g) \/ MonitorRefused(g) \/ DropExecutor(g) \/ FinalArrives(g)
  BY <1>3, <1>6 DEF Recancel, MonitorRefused, DropExecutor, FinalArrives, Advance, stateVars,
     registryVars
<1> QED BY <1>2, <1>4, <1>5, <1>6 DEF ExecutorStep

LEMMA ServiceStep ==
  ASSUME Kept, Settled, Listening, [Next]_vars
  PROVE  [Service!Next]_(Service!serviceVars)
<1>1. ASSUME NEW id \in RequestIds, NEW b \in Backends, Reserve(id, b) PROVE Service!Next
  BY <1>1, ReserveAccepts DEF Service!Next
<1>2. ASSUME NEW g \in Calls, ExecutorStep(g) \/ BackendDeclines(g)
      PROVE  [Service!Next]_(Service!serviceVars)
  <2>1. g \in R!Gens /\ leases[g] \in RequestIds
    BY CallsAreGens DEF Kept
  <2>2. CASE SpawnMonitor(g)
    BY <2>1, <2>2, SpawnPromises DEF Service!Next
  <2>3. CASE FinishOperation(g)
    BY <2>1, <2>3, FinishIsDecision DEF Service!Next
  <2>4. CASE ReleaseRoute(g)
    BY <2>1, <2>4, ReleaseFrees DEF Service!Next
  <2>5. CASE Deliver(g)
    BY <2>1, <2>5, DeliverAnswers DEF Service!Next
  <2>6. ViewStays => UNCHANGED Service!serviceVars
    BY <1>2, ExecutorMoves, UnseenStutters DEF EndsStay
  <2> QED BY <1>2, <2>2, <2>3, <2>4, <2>5, <2>6, WorkIsUnseen
<1>3. CASE Outside
  <2>1. ViewStays
    BY <1>3, OutsideIsUnseen
  <2>2. CASE EndsStay
    BY <2>1, <2>2, UnseenStutters
  <2>3. CASE Quiesce \/ \E s \in Callers : ShutdownCalled(s)
    BY <2>1, <2>3, QuiesceStops DEF Service!Next
  <2>4. CASE PublishShutdown
    BY <2>1, <2>4, PublishReports DEF Service!Next
  <2> QED BY <2>2, <2>3, <2>4, WhoEnds
<1> QED BY <1>1, <1>2, <1>3, StepKinds

(* To its clients the whole host, with its several locks, its monitors and *)
(* its coordinator, is the service of SpeechService: an id is given to one *)
(* call at a time, each call has one outcome, its answer is that outcome   *)
(* and comes after the id is free (spawn_monitor, finish, release_route),  *)
(* admission never opens again, and a shutdown that says Ok owes nobody    *)
(* (run_shutdown).                                                         *)
THEOREM HostIsTheService == Spec => ImplementsService
<1>1. Init => Service!Init
  BY DEF Init, R!Init, T!Init, Service!Init, IdsInUse, OwedCalls, OutcomeOf, AnswerOf, Delivered,
     R!Issued
<1>2. Init => Settled
  BY DEF Init, R!Init, T!Init, Settled
<1>3. Kept /\ Settled /\ [Next]_vars => Settled'
  BY SettledNext
<1>4. Kept /\ Settled /\ Listening /\ [Next]_vars => [Service!Next]_(Service!serviceVars)
  BY ServiceStep
<1> QED BY <1>1, <1>2, <1>3, <1>4, KeptInvariant, ListeningInvariant, PTL
        DEF Spec, ImplementsService, Service!Spec
=============================================================================
