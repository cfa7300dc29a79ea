---------------------------- MODULE SpeechHost -----------------------------
(***************************************************************************)
(* The speech host (speech-native-host/src/lib.rs): the operation registry,*)
(* the host state with its routes and phase, the backends, the supervised  *)
(* monitor tasks, the cancellation paths and the shutdown coordinator, run *)
(* together.                                                               *)
(*                                                                         *)
(* transcribe and synthesize are the same procedure, written once here.    *)
(* One call of either is one generation of the registry, so everything the *)
(* call owns (its executor, its monitor, its ticket) is indexed by that    *)
(* generation.  A step is what happens under one lock or between two       *)
(* awaits; the state lock, the registry lock and the backend's own lock    *)
(* are taken one after another, so other tasks run in between.             *)
(*                                                                         *)
(* Left out: poisoned mutexes, panics, and a runtime that refuses to       *)
(* spawn.  Without them every registry call the executor makes succeeds,   *)
(* which is the invariant LifecycleCallsSucceed; so the branches for a     *)
(* failed call (rollback_setup, a failing finish) have no action.          *)
(***************************************************************************)
EXTENDS Naturals, Sequences, FiniteSets

CONSTANTS
  RequestIds,         (* request ids the clients use                       *)
  MaxSequence,        (* bound: calls admitted, one less than this         *)
  MaxAttemptSequence, (* an executor starts a single attempt               *)
  Backends,           (* backends a route may select                       *)
  FinalClasses,       (* bound: classes of final response the workers send *)
  Cancellers,         (* threads calling SpeechHost::cancel                *)
  Callers             (* tasks calling SpeechHost::shutdown                *)

ASSUME HostAssumption ==
  /\ MaxSequence \in Nat \ {0}
  /\ MaxAttemptSequence \in Nat \ {0}
  /\ FinalClasses \subseteq {"Completed", "Cancelled", "Failed"}
  /\ "coordinator" \notin Callers

VARIABLES
  next_sequence, operations, leases, released, armed, attempt_leases, asked,
  backend_phase, backend_active, backend_cancelled, backend_final,
  monitors,           (* monitor tasks admitted and not joined             *)
  joined_monitors,    (* monitor tasks joined by their reaper              *)
  tasks_closed,       (* admission of monitor tasks is closed              *)
  phase,              (* HostState::phase                                  *)
  shutdown_started,   (* HostState::shutdown_started                       *)
  registered,         (* HostState::backends                               *)
  routes,             (* HostState::routes, id to [backend, identity]      *)
  shutdown_result,    (* HostState::shutdown_result, "None" until set      *)
  faulted,            (* HostLifecycle::faulted                            *)
  selected,           (* ReservedRoute::backend of each call               *)
  executor,           (* how far each call's executor is                   *)
  ticket,             (* what the client does with each call's ticket      *)
  canceller,          (* how far each SpeechHost::cancel is                *)
  quiesce_cancels,    (* backend cancels quiesce has captured              *)
  coordinator,        (* how far the shutdown coordinator is               *)
  shutdown_cancels,   (* backend cancels the coordinator has captured      *)
  shutdown_backends,  (* backends the coordinator has yet to shut down     *)
  verdict,            (* the result the coordinator has so far             *)
  caller,             (* how far each SpeechHost::shutdown is              *)
  enabled,            (* tasks whose Notified future of `changed` is       *)
                      (* enabled                                           *)
  woken,              (* enabled tasks that notify_waiters has reached     *)
  strays              (* history: backend cancels that hit a generation    *)
                      (* other than the one they were captured for         *)

registryVars == <<next_sequence, operations, leases, released, armed,
                  attempt_leases, asked>>
backendVars == <<backend_phase, backend_active, backend_cancelled, backend_final>>
taskVars == <<monitors, joined_monitors, tasks_closed>>
stateVars == <<phase, shutdown_started, registered, routes, shutdown_result>>
callVars == <<selected, executor>>
cancelVars == <<canceller, quiesce_cancels>>
coordinatorVars == <<coordinator, shutdown_cancels, shutdown_backends, verdict>>
notifyVars == <<enabled, woken>>
vars == <<registryVars, backendVars, taskVars, stateVars, faulted, callVars,
          ticket, cancelVars, coordinatorVars, caller, notifyVars, strays>>

R == INSTANCE OperationRegistry WITH
  OpIds <- RequestIds, ProgressCapacity <- 0, ProgressValues <- {},
  MaxPublished <- 0, published <- [g \in 1 .. (MaxSequence - 1) |-> <<>>]

B == INSTANCE SpeechBackends WITH Requests <- R!Gens

T == INSTANCE SupervisedTasks WITH
  Tasks <- R!Gens, live <- monitors, joined <- joined_monitors,
  failed <- {}, closed <- tasks_closed

Calls == R!Issued
Coordinator == "coordinator"

NotifyWaiters == woken' = woken \cup enabled

(* A cancel captured for generation g goes to the backend by request id.   *)
(* It strays when it finds another generation there, still unanswered.     *)
BackendCancel(g, source) ==
  LET hit == B!UnderId(selected[g], leases[g]) IN
  /\ B!Cancel(selected[g], leases[g])
  /\ strays' = strays \cup
       {[source |-> source, target |-> g, hit |-> h] :
          h \in {r \in hit \ {g} : backend_final[r] = "None"}}

CapturedRoutes == {routes[id].identity : id \in DOMAIN routes}

---------------------------------------------------------------------------

Init ==
  /\ R!Init
  /\ B!Init
  /\ T!Init
  /\ phase = "Running"
  /\ shutdown_started = FALSE
  /\ registered = {}
  /\ routes = [id \in {} |-> [backend |-> id, identity |-> 1]]
  /\ shutdown_result = "None"
  /\ faulted = FALSE
  /\ selected = [g \in {} |-> g]
  /\ executor = [g \in R!Gens |-> "none"]
  /\ ticket = [g \in R!Gens |-> "none"]
  /\ canceller = [x \in Cancellers |-> [at |-> "idle", target |-> 0]]
  /\ quiesce_cancels = {}
  /\ coordinator = "none"
  /\ shutdown_cancels = {}
  /\ shutdown_backends = {}
  /\ verdict = "Ok"
  /\ caller = [s \in Callers |-> "outside"]
  /\ enabled = {}
  /\ woken = {}
  /\ strays = {}

RegisterBackend(b) ==
  /\ phase = "Running"
  /\ b \notin registered
  /\ registered' = registered \cup {b}
  /\ UNCHANGED <<registryVars, backendVars, taskVars, phase, shutdown_started,
                 routes, shutdown_result, faulted, callVars, ticket, cancelVars,
                 coordinatorVars, caller, notifyVars, strays>>

(* A faulty reserve, for mutation: only the registry refuses a taken id.   *)
FaultyReserve(id, b) ==
  /\ phase = "Running"
  /\ b \in registered
  /\ R!Reserve(id)
  /\ routes' = [x \in DOMAIN routes \cup {id} |->
                  IF x = id THEN [backend |-> b, identity |-> next_sequence]
                            ELSE routes[x]]
  /\ selected' = [g \in DOMAIN selected \cup {next_sequence} |->
                    IF g = next_sequence THEN b ELSE selected[g]]
  /\ executor' = [executor EXCEPT ![next_sequence] = "setup"]
  /\ UNCHANGED <<backendVars, taskVars, phase, shutdown_started, registered,
                 shutdown_result, faulted, ticket, cancelVars, coordinatorVars,
                 caller, notifyVars, strays>>

(* reserve: everything under the state lock.  The plan may select any      *)
(* registered backend; a planning error changes nothing.                   *)
Reserve(id, b) ==
  /\ phase = "Running"
  /\ id \notin DOMAIN routes
  /\ b \in registered
  /\ R!Reserve(id)
  /\ routes' = [x \in DOMAIN routes \cup {id} |->
                  IF x = id THEN [backend |-> b, identity |-> next_sequence]
                            ELSE routes[x]]
  /\ selected' = [g \in DOMAIN selected \cup {next_sequence} |->
                    IF g = next_sequence THEN b ELSE selected[g]]
  /\ executor' = [executor EXCEPT ![next_sequence] = "setup"]
  /\ UNCHANGED <<backendVars, taskVars, phase, shutdown_started, registered,
                 shutdown_result, faulted, ticket, cancelVars, coordinatorVars,
                 caller, notifyVars, strays>>

Advance(g, from, to) ==
  /\ executor[g] = from
  /\ executor' = [executor EXCEPT ![g] = to]
  /\ UNCHANGED <<selected, coordinatorVars, cancelVars, caller>>

(* queue, start and start_attempt, one registry lock after another.        *)
Setup(g) ==
  /\ \/ R!Queue(g) /\ Advance(g, "setup", "setup")
     \/ R!Start(g) /\ Advance(g, "setup", "setup")
     \/ R!StartAttempt(g) /\ Advance(g, "setup", "dispatching")
  /\ UNCHANGED <<backendVars, taskVars, stateVars, faulted, ticket, notifyVars, strays>>

(* backend.transcribe or backend.synthesize returned a ticket, ...         *)
BackendAdmits(g) ==
  /\ Advance(g, "dispatching", "admitted")
  /\ B!Admit(selected[g], leases[g], g)
  /\ UNCHANGED <<registryVars, taskVars, stateVars, faulted, ticket, notifyVars, strays>>

(* ... or an error: the id is taken or the backend is closing, ...         *)
BackendRejects(g) ==
  /\ ~B!Admits(selected[g], leases[g])
  /\ Advance(g, "dispatching", "finishing")
  /\ UNCHANGED <<registryVars, backendVars, taskVars, stateVars, faulted, ticket,
                 notifyVars, strays>>

(* ... or the request is one the backend will not serve.                   *)
BackendDeclines(g) ==
  /\ Advance(g, "dispatching", "finishing")
  /\ UNCHANGED <<registryVars, backendVars, taskVars, stateVars, faulted, ticket,
                 notifyVars, strays>>

(* A faulty executor, for mutation: the mark is not read again.            *)
FaultyRecheckCancel(g) ==
  /\ Advance(g, "admitted", "spawning")
  /\ UNCHANGED <<registryVars, backendVars, taskVars, stateVars, faulted, ticket,
                 notifyVars, strays>>

(* A cancel that came before the backend knew the request reached nobody,  *)
(* so the registry's mark is read once more after admission.               *)
RecheckCancel(g) ==
  /\ Advance(g, "admitted",
             IF \E s \in R!LeaseSnapshot(g) : s.cancellation_requested
             THEN "recancelling" ELSE "spawning")
  /\ UNCHANGED <<registryVars, backendVars, taskVars, stateVars, faulted, ticket,
                 notifyVars, strays>>

Recancel(g) ==
  /\ Advance(g, "recancelling", "spawning")
  /\ BackendCancel(g, "executor")
  /\ UNCHANGED <<registryVars, taskVars, stateVars, faulted, ticket, notifyVars>>

(* spawn_monitor, and the ticket the client gets when it succeeds.         *)
SpawnMonitor(g) ==
  /\ Advance(g, "spawning", "relaying")
  /\ T!Admit(g)
  /\ ticket' = [ticket EXCEPT ![g] = "held"]
  /\ UNCHANGED <<registryVars, backendVars, stateVars, faulted, notifyVars, strays>>

(* A faulty refusal, for mutation: the host is not faulted.                *)
FaultyMonitorRefused(g) ==
  /\ tasks_closed
  /\ Advance(g, "spawning", "finishing")
  /\ BackendCancel(g, "backend ticket")
  /\ UNCHANGED <<registryVars, taskVars, stateVars, faulted, ticket, notifyVars>>

(* The supervisor refuses the monitor and drops it.  The backend's ticket  *)
(* goes first and cancels its request; then ExecutorOperation::drop faults *)
(* the host and finishes the operation as Failed.                          *)
MonitorRefused(g) ==
  /\ tasks_closed
  /\ Advance(g, "spawning", "faulting")
  /\ BackendCancel(g, "backend ticket")
  /\ UNCHANGED <<registryVars, taskVars, stateVars, faulted, ticket, notifyVars>>

MarkFaulted ==
  /\ faulted' = TRUE
  /\ NotifyWaiters

DropExecutor(g) ==
  /\ Advance(g, "faulting", "finishing")
  /\ MarkFaulted
  /\ UNCHANGED <<registryVars, backendVars, taskVars, stateVars, ticket, enabled, strays>>

(* A faulty monitor, for mutation: it answers before it finishes.          *)
FaultyFinalArrives(g) ==
  /\ backend_final[g] # "None"
  /\ Advance(g, "relaying", "delivering")
  /\ UNCHANGED <<registryVars, backendVars, taskVars, stateVars, faulted, ticket,
                 notifyVars, strays>>

(* The monitor awaits the backend's final response.                        *)
FinalArrives(g) ==
  /\ backend_final[g] # "None"
  /\ Advance(g, "relaying", "finishing")
  /\ UNCHANGED <<registryVars, backendVars, taskVars, stateVars, faulted, ticket,
                 notifyVars, strays>>

(* The classes a call may end with: that of its final response, Failed     *)
(* when the executor was dropped with the monitor, or else that of the     *)
(* error the backend refused it with, whatever that is.                    *)
Admitted(g) == g \in B!ActiveRequests(selected[g]) \/ backend_final[g] # "None"

TerminalsOf(g) ==
  IF g \in monitors THEN {backend_final[g]}
  ELSE IF Admitted(g) THEN {"Failed"}
  ELSE {"Failed", "Cancelled"}

(* ExecutorOperation::finish, first the registry ...                       *)
FinishOperation(g) ==
  /\ Advance(g, "finishing", "releasing")
  /\ \E terminal \in TerminalsOf(g) : R!FinishAttemptAndRelease(g, 1, terminal)
  /\ UNCHANGED <<backendVars, taskVars, stateVars, faulted, ticket, notifyVars, strays>>

(* ... then release_route, under the state lock.                           *)
OwnsRoute(g) == leases[g] \in DOMAIN routes /\ routes[leases[g]].identity = g

(* A faulty release, for mutation: nobody is notified.                     *)
FaultyReleaseRoute(g) ==
  /\ OwnsRoute(g)
  /\ Advance(g, "releasing", IF g \in monitors THEN "delivering" ELSE "returning")
  /\ routes' = [id \in DOMAIN routes \ {leases[g]} |-> routes[id]]
  /\ UNCHANGED <<registryVars, backendVars, taskVars, phase, shutdown_started,
                 registered, shutdown_result, faulted, ticket, notifyVars, strays>>

ReleaseRoute(g) ==
  /\ OwnsRoute(g)
  /\ Advance(g, "releasing", IF g \in monitors THEN "delivering" ELSE "returning")
  /\ routes' = [id \in DOMAIN routes \ {leases[g]} |-> routes[id]]
  /\ NotifyWaiters
  /\ UNCHANGED <<registryVars, backendVars, taskVars, phase, shutdown_started,
                 registered, shutdown_result, faulted, ticket, enabled, strays>>

(* A call that ends in an error drops its ConsumerGuard as it returns.     *)
ReturnError(g) ==
  /\ Advance(g, "returning", "done")
  /\ R!ConsumerDrop(g)
  /\ UNCHANGED <<backendVars, taskVars, stateVars, faulted, ticket, notifyVars, strays>>

(* The monitor answers the client, if the ticket is still there.           *)
Deliver(g) ==
  /\ Advance(g, "delivering", "relayed")
  /\ ticket' = [ticket EXCEPT ![g] = IF @ = "held" THEN "answered" ELSE @]
  /\ UNCHANGED <<registryVars, backendVars, taskVars, stateVars, faulted,
                 notifyVars, strays>>

JoinMonitor(g) ==
  /\ Advance(g, "relayed", "done")
  /\ T!Join(g)
  /\ UNCHANGED <<registryVars, backendVars, stateVars, faulted, ticket, notifyVars, strays>>

ExecutorStep(g) ==
  \/ Setup(g) \/ BackendAdmits(g) \/ BackendRejects(g)
  \/ RecheckCancel(g) \/ Recancel(g) \/ SpawnMonitor(g) \/ MonitorRefused(g)
  \/ DropExecutor(g) \/ FinalArrives(g) \/ FinishOperation(g) \/ ReleaseRoute(g)
  \/ ReturnError(g) \/ Deliver(g) \/ JoinMonitor(g)

---------------------------------------------------------------------------
(* Tickets and SpeechHost::cancel: HostLifecycle::cancel takes the route   *)
(* under the state lock, cancel_captured then goes to the registry and     *)
(* last, by request id, to the backend.                                    *)

TicketStep(g, from, to) ==
  /\ ticket[g] = from
  /\ ticket' = [ticket EXCEPT ![g] = to]
  /\ UNCHANGED <<taskVars, stateVars, faulted, callVars, cancelVars,
                 coordinatorVars, caller, notifyVars>>

(* A client may also drop a ticket whose answer it has not read.           *)
DropTicket(g) ==
  /\ TicketStep(g, "held", "dropping") \/ TicketStep(g, "answered", "dropping")
  /\ UNCHANGED <<registryVars, backendVars, strays>>

TicketCaptures(g) ==
  /\ TicketStep(g, "dropping", IF OwnsRoute(g) THEN "captured" ELSE "guarding")
  /\ UNCHANGED <<registryVars, backendVars, strays>>

TicketMarks(g) ==
  /\ TicketStep(g, "captured", IF R!Holds(g) THEN "marked" ELSE "guarding")
  /\ IF R!Holds(g) THEN R!RequestCancel(g) ELSE UNCHANGED registryVars
  /\ UNCHANGED <<backendVars, strays>>

TicketCancels(g) ==
  /\ TicketStep(g, "marked", "guarding")
  /\ BackendCancel(g, "ticket")
  /\ UNCHANGED registryVars

(* The dropped HostCancellation drops its ConsumerGuard last.              *)
TicketGone(g) ==
  /\ \/ TicketStep(g, "guarding", "gone")
     \/ TicketStep(g, "answered", "collected")
  /\ R!ConsumerDrop(g)
  /\ UNCHANGED <<backendVars, strays>>

TicketProgress(g) ==
  TicketCaptures(g) \/ TicketMarks(g) \/ TicketCancels(g) \/ TicketGone(g)

CancellerStep(x, from, next) ==
  /\ canceller[x].at = from
  /\ canceller' = [canceller EXCEPT ![x] = next]
  /\ UNCHANGED <<taskVars, stateVars, faulted, callVars, ticket, quiesce_cancels,
                 coordinatorVars, caller, notifyVars>>

Idle == [at |-> "idle", target |-> 0]

CancelCaptures(x, id) ==
  /\ id \in DOMAIN routes
  /\ CancellerStep(x, "idle", [at |-> "captured", target |-> routes[id].identity])
  /\ UNCHANGED <<registryVars, backendVars, strays>>

CancelMarks(x) ==
  LET g == canceller[x].target IN
  IF canceller[x].at = "captured" /\ R!Holds(g)
  THEN /\ CancellerStep(x, "captured", [at |-> "marked", target |-> g])
       /\ R!RequestCancel(g)
       /\ UNCHANGED <<backendVars, strays>>
  ELSE /\ CancellerStep(x, "captured", Idle)
       /\ UNCHANGED <<registryVars, backendVars, strays>>

CancelDispatches(x) ==
  /\ CancellerStep(x, "marked", Idle)
  /\ BackendCancel(canceller[x].target, "cancel")
  /\ UNCHANGED registryVars

CancellerProgress(x) == CancelMarks(x) \/ CancelDispatches(x)

---------------------------------------------------------------------------
(* quiesce and shutdown.                                                   *)

(* Faulty versions of quiesce, for mutation: one forgets the routes it has *)
(* cancelled, one leaves admission open.                                   *)
RouteDroppingQuiesce ==
  /\ phase = "Running"
  /\ R!RequestCancelAll
  /\ phase' = "Quiescing"
  /\ quiesce_cancels' = {operations[id].identity : id \in DOMAIN operations \cap DOMAIN routes}
  /\ routes' = [id \in {} |-> routes[id]]
  /\ UNCHANGED <<backendVars, taskVars, shutdown_started, registered,
                 shutdown_result, faulted, callVars, ticket, canceller,
                 coordinatorVars, caller, notifyVars, strays>>

OpenQuiesce ==
  /\ phase = "Running"
  /\ R!RequestCancelAll
  /\ quiesce_cancels' = {operations[id].identity : id \in DOMAIN operations \cap DOMAIN routes}
  /\ UNCHANGED <<backendVars, taskVars, stateVars, faulted, callVars, ticket, canceller,
                 coordinatorVars, caller, notifyVars, strays>>

Quiesce ==
  /\ phase = "Running"
  /\ R!RequestCancelAll
  /\ phase' = "Quiescing"
  /\ quiesce_cancels' = {operations[id].identity : id \in DOMAIN operations \cap DOMAIN routes}
  /\ UNCHANGED <<backendVars, taskVars, shutdown_started, registered, routes,
                 shutdown_result, faulted, callVars, ticket, canceller,
                 coordinatorVars, caller, notifyVars, strays>>

QuiesceDispatches(g) ==
  /\ g \in quiesce_cancels
  /\ quiesce_cancels' = quiesce_cancels \ {g}
  /\ BackendCancel(g, "quiesce")
  /\ UNCHANGED <<registryVars, taskVars, stateVars, faulted, callVars, ticket,
                 canceller, coordinatorVars, caller, notifyVars>>

(* The first shutdown cancels everything (or finds that quiesce did) and   *)
(* starts the coordinator, which outlives its caller.                      *)
StartCoordinator(cancels) ==
  /\ shutdown_started' = TRUE
  /\ shutdown_cancels' = cancels
  /\ shutdown_backends' = registered
  /\ coordinator' = "begin"
  /\ UNCHANGED <<verdict, registered, routes, shutdown_result>>

ShutdownCalled(s) ==
  /\ caller[s] = "outside"
  /\ \/ /\ phase = "Running"
        /\ R!RequestCancelAll
        /\ phase' = "Quiescing"
        /\ StartCoordinator({operations[id].identity :
                               id \in DOMAIN operations \cap DOMAIN routes})
     \/ /\ phase = "Quiescing" /\ ~shutdown_started
        /\ StartCoordinator(CapturedRoutes)
        /\ UNCHANGED <<registryVars, phase>>
     \/ /\ phase = "Quiescing" /\ shutdown_started
        /\ UNCHANGED <<registryVars, stateVars, coordinatorVars>>
  /\ caller' = [caller EXCEPT ![s] = "enabling"]
  /\ UNCHANGED <<backendVars, taskVars, faulted, callVars, ticket, cancelVars,
                 notifyVars, strays>>

CallerStep(s, from, to) ==
  /\ caller[s] = from
  /\ caller' = [caller EXCEPT ![s] = to]
  /\ UNCHANGED <<registryVars, backendVars, taskVars, stateVars, faulted, callVars,
                 ticket, cancelVars, coordinatorVars, strays>>

(* A shutdown after Closed answers from the retained result.               *)
ShutdownRepeated(s) ==
  /\ phase = "Closed"
  /\ CallerStep(s, "outside", shutdown_result)
  /\ UNCHANGED notifyVars

(* wait_for_shutdown: enable, check, sleep, and again.                     *)
CallerEnables(s) ==
  /\ CallerStep(s, "enabling", "checking")
  /\ enabled' = enabled \cup {s}
  /\ woken' = woken \ {s}

CallerSees == IF phase = "Closed" THEN shutdown_result ELSE "doubting"

Forget(task) == enabled' = enabled \ {task} /\ woken' = woken \ {task}

(* The phase is read under the state lock and the fault flag after it.     *)
CallerChecks(s) ==
  /\ CallerStep(s, "checking", CallerSees)
  /\ IF CallerSees = "doubting" THEN UNCHANGED notifyVars ELSE Forget(s)

CallerDoubts(s) ==
  /\ CallerStep(s, "doubting", IF faulted THEN "Unavailable" ELSE "sleeping")
  /\ IF faulted THEN Forget(s) ELSE UNCHANGED notifyVars

CallerWakes(s) ==
  /\ s \in woken
  /\ CallerStep(s, "sleeping", "enabling")
  /\ Forget(s)

(* The client drops the shutdown future where it awaits; it may call again.*)
CallerAborts(s) ==
  /\ CallerStep(s, "sleeping", "outside")
  /\ Forget(s)

CallerProgress(s) ==
  CallerEnables(s) \/ CallerChecks(s) \/ CallerDoubts(s) \/ CallerWakes(s)

(* run_shutdown.                                                           *)
Coordinate(from, to) ==
  /\ coordinator = from
  /\ coordinator' = to
  /\ UNCHANGED <<registryVars, faulted, callVars, ticket, cancelVars, caller>>

CloseTasks ==
  /\ Coordinate("begin", "cancelling")
  /\ T!Close
  /\ UNCHANGED <<backendVars, stateVars, shutdown_cancels, shutdown_backends, verdict,
                 notifyVars, strays>>

CoordinatorCancels(g) ==
  /\ g \in shutdown_cancels
  /\ Coordinate("cancelling", "cancelling")
  /\ shutdown_cancels' = shutdown_cancels \ {g}
  /\ BackendCancel(g, "shutdown")
  /\ UNCHANGED <<taskVars, stateVars, shutdown_backends, verdict, notifyVars>>

CancelsDone ==
  /\ shutdown_cancels = {}
  /\ Coordinate("cancelling", "stopping")
  /\ UNCHANGED <<backendVars, taskVars, stateVars, shutdown_cancels, shutdown_backends,
                 verdict, notifyVars, strays>>

(* Backends are shut down one after another, each awaited.                 *)
StopBackend(b) ==
  /\ b \in shutdown_backends
  /\ Coordinate("stopping", "awaiting")
  /\ B!BeginShutdown(b)
  /\ UNCHANGED <<taskVars, stateVars, shutdown_cancels, shutdown_backends, verdict,
                 notifyVars, strays>>

(* A backend's shutdown may return an error; the coordinator goes on.      *)
BackendStopped(b) ==
  /\ b \in shutdown_backends
  /\ backend_phase[b] = "Closed"
  /\ Coordinate("awaiting", "stopping")
  /\ shutdown_backends' = shutdown_backends \ {b}
  /\ verdict' \in {verdict, "Failures"}
  /\ UNCHANGED <<backendVars, taskVars, stateVars, shutdown_cancels, notifyVars, strays>>

BackendsDone ==
  /\ shutdown_backends = {}
  /\ Coordinate("stopping", "enabling")
  /\ UNCHANGED <<backendVars, taskVars, stateVars, shutdown_cancels, shutdown_backends,
                 verdict, notifyVars, strays>>

(* wait_for_active_empty, on the same Notify as wait_for_shutdown.         *)
CoordinatorEnables ==
  /\ Coordinate("enabling", "checking")
  /\ enabled' = enabled \cup {Coordinator}
  /\ woken' = woken \ {Coordinator}
  /\ UNCHANGED <<backendVars, taskVars, stateVars, shutdown_cancels, shutdown_backends,
                 verdict, strays>>

(* The fault flag is read first, the number of operations after it.        *)
CoordinatorChecks ==
  /\ Coordinate("checking", IF faulted THEN "draining" ELSE "counting")
  /\ verdict' = IF faulted THEN "Unavailable" ELSE verdict
  /\ IF faulted THEN Forget(Coordinator) ELSE UNCHANGED notifyVars
  /\ UNCHANGED <<backendVars, taskVars, stateVars, shutdown_cancels, shutdown_backends,
                 strays>>

CoordinatorCounts ==
  LET empty == DOMAIN operations = {} IN
  /\ Coordinate("counting", IF empty THEN "draining" ELSE "sleeping")
  /\ IF empty THEN Forget(Coordinator) ELSE UNCHANGED notifyVars
  /\ UNCHANGED <<backendVars, taskVars, stateVars, shutdown_cancels, shutdown_backends,
                 verdict, strays>>

CoordinatorWakes ==
  /\ Coordinator \in woken
  /\ Coordinate("sleeping", "enabling")
  /\ Forget(Coordinator)
  /\ UNCHANGED <<backendVars, taskVars, stateVars, shutdown_cancels, shutdown_backends,
                 verdict, strays>>

(* A faulty drain, for mutation: the monitors are not awaited.             *)
FaultyMonitorsDrained ==
  /\ Coordinate("draining", "judging")
  /\ UNCHANGED <<backendVars, taskVars, stateVars, shutdown_cancels, shutdown_backends,
                 verdict, notifyVars, strays>>

(* tasks.wait_for_idle returns once every monitor has been joined.         *)
MonitorsDrained ==
  /\ monitors = {}
  /\ Coordinate("draining", "judging")
  /\ UNCHANGED <<backendVars, taskVars, stateVars, shutdown_cancels, shutdown_backends,
                 verdict, notifyVars, strays>>

Judge ==
  /\ Coordinate("judging", "publishing")
  /\ verdict' = IF faulted /\ verdict = "Ok" THEN "Failures" ELSE verdict
  /\ UNCHANGED <<backendVars, taskVars, stateVars, shutdown_cancels, shutdown_backends,
                 notifyVars, strays>>

(* A faulty publication, for mutation: nobody is notified.                 *)
FaultyPublishShutdown ==
  /\ Coordinate("publishing", "done")
  /\ shutdown_result' = verdict
  /\ phase' = "Closed"
  /\ UNCHANGED <<backendVars, taskVars, shutdown_started, registered, routes,
                 shutdown_cancels, shutdown_backends, verdict, notifyVars, strays>>

PublishShutdown ==
  /\ Coordinate("publishing", "done")
  /\ shutdown_result' = verdict
  /\ phase' = "Closed"
  /\ NotifyWaiters
  /\ UNCHANGED <<backendVars, taskVars, shutdown_started, registered, routes,
                 shutdown_cancels, shutdown_backends, verdict, enabled, strays>>

CoordinatorStep ==
  \/ CloseTasks \/ CancelsDone \/ BackendsDone
  \/ \E g \in R!Gens : CoordinatorCancels(g)
  \/ \E b \in Backends : StopBackend(b) \/ BackendStopped(b)
  \/ CoordinatorEnables \/ CoordinatorChecks \/ CoordinatorCounts \/ CoordinatorWakes
  \/ MonitorsDrained \/ Judge \/ PublishShutdown

HostUnchanged ==
  UNCHANGED <<registryVars, taskVars, stateVars, faulted, callVars, ticket,
              cancelVars, coordinatorVars, caller, notifyVars, strays>>

BackendStep(b) ==
  /\ B!WorkerStep(b) \/ B!CompleteShutdown(b)
  /\ HostUnchanged

Next ==
  \/ \E b \in Backends : RegisterBackend(b) \/ BackendStep(b)
  \/ \E id \in RequestIds, b \in Backends : Reserve(id, b)
  \/ \E g \in Calls : ExecutorStep(g) \/ BackendDeclines(g)
  \/ \E g \in Calls : DropTicket(g) \/ TicketProgress(g)
  \/ \E x \in Cancellers, id \in RequestIds : CancelCaptures(x, id)
  \/ \E x \in Cancellers : CancellerProgress(x)
  \/ Quiesce
  \/ \E g \in R!Gens : QuiesceDispatches(g)
  \/ \E s \in Callers : ShutdownCalled(s) \/ ShutdownRepeated(s)
  \/ \E s \in Callers : CallerProgress(s) \/ CallerAborts(s)
  \/ CoordinatorStep

Spec == Init /\ [][Next]_vars

(* Every started call, cancel, monitor, coordinator and awaiting task is   *)
(* polled by the runtime, and a backend worker that was cancelled answers  *)
(* and returns its lease.  Nobody has to submit, cancel, drop a ticket,    *)
(* quiesce or shut down, and an uncancelled worker may run for ever: a     *)
(* stream waits for its client.                                            *)
CancelledWorkerAnswers(b) ==
  /\ \E g \in backend_cancelled, class \in FinalClasses : B!SendFinal(b, g, class)
  /\ HostUnchanged

WorkerReturns(b) ==
  /\ \/ \E id \in RequestIds, g \in R!Gens : B!Reap(b, id, g)
     \/ B!CompleteShutdown(b)
  /\ HostUnchanged

Fairness ==
  /\ \A g \in R!Gens : /\ WF_vars(g \in Calls /\ ExecutorStep(g))
                       /\ WF_vars(g \in Calls /\ TicketProgress(g))
                       /\ WF_vars(QuiesceDispatches(g))
  /\ \A x \in Cancellers : WF_vars(CancellerProgress(x))
  /\ \A s \in Callers : WF_vars(CallerProgress(s))
  /\ WF_vars(CoordinatorStep)
  /\ \A b \in Backends : /\ WF_vars(CancelledWorkerAnswers(b))
                         /\ WF_vars(WorkerReturns(b))

FairSpec == Spec /\ Fairness

---------------------------------------------------------------------------

Stages == {"none", "setup", "dispatching", "admitted", "recancelling", "spawning",
           "relaying", "faulting", "finishing", "releasing", "returning",
           "delivering", "relayed", "done"}
Results == {"Ok", "Failures", "Unavailable"}

(* Every variable has the shape of the state it stands for.                *)
TypeOK ==
  /\ R!TypeOK /\ B!TypeOK
  /\ monitors \subseteq R!Gens /\ joined_monitors \subseteq R!Gens
  /\ tasks_closed \in BOOLEAN /\ faulted \in BOOLEAN
  /\ phase \in {"Running", "Quiescing", "Closed"}
  /\ shutdown_started \in BOOLEAN
  /\ registered \subseteq Backends
  /\ DOMAIN routes \subseteq RequestIds
  /\ \A id \in DOMAIN routes : routes[id] \in [backend : Backends, identity : R!Gens]
  /\ shutdown_result \in Results \cup {"None"} /\ verdict \in Results
  /\ selected \in [Calls -> Backends]
  /\ executor \in [R!Gens -> Stages]
  /\ ticket \in [R!Gens -> {"none", "held", "dropping", "captured", "marked",
                            "guarding", "gone", "answered", "collected"}]
  /\ canceller \in [Cancellers -> [at : {"idle", "captured", "marked"},
                                   target : R!Gens \cup {0}]]
  /\ quiesce_cancels \subseteq R!Gens /\ shutdown_cancels \subseteq R!Gens
  /\ coordinator \in {"none", "begin", "cancelling", "stopping", "awaiting", "enabling",
                      "checking", "counting", "sleeping", "draining", "judging", "publishing", "done"}
  /\ shutdown_backends \subseteq Backends
  /\ caller \in [Callers -> {"outside", "enabling", "checking", "doubting", "sleeping"}
                            \cup Results]
  /\ woken \subseteq enabled /\ enabled \subseteq Callers \cup {Coordinator}

(* Routes and operations are written under two locks, one after the other, *)
(* yet an operation always has its route, with the same identity, and a    *)
(* route without its operation belongs to an executor that is about to     *)
(* release exactly that route.                                             *)
RoutesMatchOperations ==
  /\ \A id \in DOMAIN operations :
       id \in DOMAIN routes /\ routes[id].identity = operations[id].identity
  /\ \A id \in DOMAIN routes :
       LET g == routes[id].identity IN
       R!Holds(g) \/ executor[g] = "releasing"

(* The registry and route calls an executor makes are never refused,       *)
(* whatever cancels, reuse of the id and shutdown do meanwhile; so no      *)
(* setup rolls back and no finished operation faults the host.             *)
LifecycleCallsSucceed ==
  \A g \in Calls :
    /\ executor[g] = "setup" =>
         R!Holds(g) /\ operations[leases[g]].phase \in {"Reserved", "Queued", "Running"}
    /\ executor[g] \in {"dispatching", "admitted", "recancelling", "spawning", "relaying",
                        "faulting", "finishing"} =>
         /\ R!Holds(g)
         /\ operations[leases[g]].phase = "Running"
         /\ operations[leases[g]].attempts = {1}
    /\ executor[g] = "releasing" => OwnsRoute(g)

(* A cancellation the registry accepted is not lost on the way to the      *)
(* backend: while the operation still runs there uncancelled, somebody is  *)
(* bound to pass it on, a captured cancel or the executor's own recheck.   *)
CancelsUnderWay ==
  quiesce_cancels \cup shutdown_cancels
  \cup {canceller[x].target : x \in {y \in Cancellers : canceller[y].at = "marked"}}
  \cup {g \in R!Gens : ticket[g] = "marked"}
  \cup {g \in R!Gens : executor[g] \in {"admitted", "recancelling"}}

CancelIsNeverLost ==
  \A g \in asked :
    (g \in B!ActiveRequests(selected[g]) /\ backend_final[g] = "None")
      => g \in backend_cancelled \cup CancelsUnderWay

(* Only host.cancel and ticket cancels race with the reuse of an id.  What *)
(* quiesce, shutdown, the executor's recheck and a refused monitor send to *)
(* a backend by request id reaches the generation it was meant for.        *)
OnlyRacingCancelsStray ==
  \A s \in strays : s.source \in {"cancel", "ticket"}

(* A ticket's cancel is scoped to its generation: it cannot cancel a newer *)
(* request that reuses the id (the shutdown follow-up receipt says so of   *)
(* tickets; HostLifecycle::cancel compares identities to the same end).    *)
TicketCancelIsScoped == \A s \in strays : s.source # "ticket"

(* The host holds an operation until its backend has answered: a released  *)
(* operation that a backend admitted has its final response, or the host   *)
(* knows that it lost track (it is faulted).                               *)
Answered(g) == backend_final[g] # "None"

AbandonedOnlyWhenFaulted ==
  \A g \in DOMAIN released :
    g \in B!ActiveRequests(selected[g]) => Answered(g) \/ faulted

(* A client that has its final response can use the request id again: the  *)
(* operation and the route are gone, and the response is the outcome the   *)
(* registry recorded and the backend sent.                                 *)
AnswerImpliesReleased ==
  \A g \in R!Gens : ticket[g] \in {"answered", "collected"} =>
    /\ ~R!Holds(g) /\ ~OwnsRoute(g)
    /\ released[g].terminal = backend_final[g]

(* Shutdown reports Ok only when nothing is left: no operation, no monitor,*)
(* every registered backend closed with nothing active, no ticket without  *)
(* its answer, no fault, and at most a route on its way out.               *)
CleanShutdownIsQuiet ==
  shutdown_result = "Ok" =>
    /\ DOMAIN operations = {} /\ monitors = {} /\ ~faulted
    /\ \A b \in registered : backend_phase[b] = "Closed" /\ backend_active[b] = {}
    /\ \A g \in Calls : ticket[g] # "held"
    /\ \A id \in DOMAIN routes : executor[routes[id].identity] = "releasing"

(* No wakeup is missed on the one Notify that callers of shutdown and the  *)
(* coordinator share: a sleeping caller that was not notified has neither  *)
(* the end of the shutdown nor a fault to see, and a sleeping coordinator  *)
(* waits for an operation, or for a release that will notify it: releasing *)
(* the operation itself, in the registry, notifies nobody.                 *)
NoWakeupIsMissed ==
  /\ \A s \in Callers :
       caller[s] = "sleeping" /\ s \notin woken => phase # "Closed" /\ ~faulted
  /\ coordinator = "sleeping" /\ Coordinator \notin woken =>
       /\ ~faulted
       /\ DOMAIN operations # {} \/ \E g \in Calls : executor[g] = "releasing"

(* What a client sees of the host: the ids in use are the routes, a call   *)
(* is owed an answer while its monitor has not delivered, and the answer   *)
(* is what the backend sent.                                               *)
IdsInUse == {<<id, routes[id].identity>> : id \in DOMAIN routes}
OutcomeOf(g) == IF g \in DOMAIN released THEN released[g].terminal ELSE "None"
OwedCalls == {g \in monitors : executor[g] # "relayed"}
Delivered(g) == executor[g] = "relayed" \/ g \in joined_monitors
AnswerOf(g) == IF Delivered(g) THEN backend_final[g] ELSE "None"

Service == INSTANCE SpeechService WITH
  Ids <- RequestIds, Calls <- R!Gens, Outcomes <- R!TerminalClass,
  Verdicts <- Results, Undecided <- "None",
  accepting <- phase = "Running",
  accepted <- Calls,
  open <- IdsInUse,
  outcome <- [g \in R!Gens |-> OutcomeOf(g)],
  owed <- OwedCalls,
  answer <- [g \in R!Gens |-> AnswerOf(g)],
  report <- shutdown_result

(* All of it together, executors, monitors, tickets, cancellers, quiesce,  *)
(* callers, coordinator and backends under their several locks, is to its  *)
(* clients the one service of SpeechService: no id is given out twice, an  *)
(* answer is the outcome recorded and comes after the id is free again, a  *)
(* shutdown that says Ok owes nobody an answer.                            *)
ImplementsService == Service!Spec

(* Once asked to shut down the host closes, whoever called and whether or  *)
(* not that caller is still there, and every caller that stays returns.    *)
ShutdownCompletes == shutdown_started ~> phase = "Closed"

CallersReturn ==
  \A s \in Callers : caller[s] # "outside" ~> caller[s] \in Results \cup {"outside"}

(* A client that holds a ticket of a cancelled request gets its answer.    *)
CancelledTicketsAreAnswered ==
  \A g \in R!Gens : (ticket[g] = "held" /\ g \in asked) ~> ticket[g] # "held"
=============================================================================
