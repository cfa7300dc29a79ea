-------------------------- MODULE ParakeetBackend --------------------------
(***************************************************************************)
(* The Parakeet backend around its workers: admission under a nonce, the   *)
(* active map, the workers' leases, and a shutdown with one coordinator,   *)
(* any number of callers who may go away, and one retained result.         *)
(* (AppleSpeechBackend is the same protocol, word for word.)               *)
(*                                                                         *)
(* The workers are tasks of the supervisor, taken here by its abstraction  *)
(* SupervisedTasks; ParakeetTranscription is what one of them does.        *)
(***************************************************************************)
EXTENDS Naturals, FiniteSets

CONSTANTS
  RequestIds,   (* request ids                                             *)
  MaxNonce,     (* the nonce at which next_nonce + 1 overflows             *)
  Callers       (* callers of shutdown                                     *)

ASSUME NonceAssumption == MaxNonce \in Nat

VARIABLES
  phase,           (* BackendPhase                                         *)
  next_nonce,      (* the next operation's nonce                           *)
  active,          (* by id, the nonce of its operation, or Free           *)
  cancelled,       (* nonces whose `cancelled` flag is set                 *)
  worker,          (* by nonce, where its worker is                        *)
  request_of,      (* by nonce, the request id its lease carries           *)
  final,           (* by nonce, its final response                         *)
  live, joined, failed, closed,  (* the supervisor, see SupervisedTasks    *)
  coordinator,     (* where the spawned shutdown is                        *)
  shutdown_result, (* the retained result                                  *)
  caller,          (* by caller, where it is in shutdown                   *)
  answer,          (* by caller, what shutdown returned                    *)
  enabled,         (* callers with an enabled Notified future              *)
  woken            (* those of them that were notified                     *)

operationVars == <<next_nonce, active, cancelled, worker, request_of, final>>
superVars == <<live, joined, failed, closed>>
shutdownVars == <<coordinator, shutdown_result>>
callerVars == <<caller, answer>>
notifyVars == <<enabled, woken>>
vars == <<phase, operationVars, superVars, shutdownVars, callerVars, notifyVars>>

Nonces == 0..MaxNonce - 1
Free == MaxNonce   (* stands for an id that is not in the map              *)

T == INSTANCE SupervisedTasks WITH Tasks <- Nonces

Init ==
  /\ phase = "Running"
  /\ next_nonce = 0
  /\ active = [id \in RequestIds |-> Free]
  /\ cancelled = {}
  /\ worker = [n \in Nonces |-> "None"]
  /\ request_of = [n \in Nonces |-> CHOOSE id \in RequestIds : TRUE]
  /\ final = [n \in Nonces |-> "None"]
  /\ T!Init
  /\ coordinator = "None"
  /\ shutdown_result = "None"
  /\ caller = [c \in Callers |-> "Idle"]
  /\ answer = [c \in Callers |-> "None"]
  /\ enabled = {}
  /\ woken = {}

ActiveNonces == {active[id] : id \in RequestIds} \ {Free}

NotifyWaiters == woken' = woken \cup enabled /\ UNCHANGED enabled
-----------------------------------------------------------------------------
(* Operations.                                                             *)

(* The phase is not looked at.                                             *)
FaultyAdmits(id) == active[id] = Free /\ next_nonce < MaxNonce

Admits(id) ==
  /\ phase = "Running"
  /\ active[id] = Free
  /\ next_nonce < MaxNonce

(* spawn_operation keeps the lock while it spawns: the worker may run, but *)
(* its lease cannot be dropped before the map has the operation.           *)
SpawnOperation(id) ==
  /\ Admits(id)
  /\ T!Admit(next_nonce)
  /\ next_nonce' = next_nonce + 1
  /\ active' = [active EXCEPT ![id] = next_nonce]
  /\ worker' = [worker EXCEPT ![next_nonce] = "Working"]
  /\ request_of' = [request_of EXCEPT ![next_nonce] = id]
  /\ UNCHANGED <<phase, cancelled, final, shutdownVars, callerVars, notifyVars>>

Cancel(id) ==
  /\ active[id] # Free
  /\ cancelled' = cancelled \cup {active[id]}
  /\ UNCHANGED <<phase, next_nonce, active, worker, request_of, final, superVars,
                 shutdownVars, callerVars, notifyVars>>

(* The worker closure returns, with its final response sent, or it panics  *)
(* and the response's sender is dropped.                                   *)
WorkerEnds(n) ==
  /\ worker[n] = "Working"
  /\ \/ worker' = [worker EXCEPT ![n] = "Returned"] /\ final' = [final EXCEPT ![n] = "Sent"]
     \/ worker' = [worker EXCEPT ![n] = "Panicked"] /\ final' = [final EXCEPT ![n] = "Lost"]
  /\ UNCHANGED <<phase, next_nonce, active, cancelled, request_of, superVars,
                 shutdownVars, callerVars, notifyVars>>

(* Drop of the lease, on return and on unwinding alike.                    *)
LeaseDrops(n) ==
  /\ worker[n] \in {"Returned", "Panicked"}
  /\ worker' = [worker EXCEPT ![n] = IF @ = "Returned" THEN "Ended" ELSE "Failed"]
  /\ IF active[request_of[n]] = n
       THEN active' = [active EXCEPT ![request_of[n]] = Free] /\ NotifyWaiters
       ELSE UNCHANGED <<active, notifyVars>>
  /\ UNCHANGED <<phase, next_nonce, cancelled, request_of, final, superVars,
                 shutdownVars, callerVars>>

(* The supervisor's reaper joins the worker and records a panic.           *)
Join(n) ==
  /\ worker[n] \in {"Ended", "Failed"}
  /\ T!Join(n)
  /\ failed' = IF worker[n] = "Failed" THEN failed \cup {n} ELSE failed
  /\ UNCHANGED <<phase, operationVars, shutdownVars, callerVars, notifyVars>>
-----------------------------------------------------------------------------
(* Shutdown: the callers.                                                  *)

(* The first call closes admission, cancels what is active and starts the  *)
(* coordinator, ...                                                        *)
CallShutdown(c) ==
  /\ caller[c] = "Idle"
  /\ phase = "Running"
  /\ phase' = "Quiescing"
  /\ cancelled' = cancelled \cup ActiveNonces
  /\ coordinator' = "Close"
  /\ caller' = [caller EXCEPT ![c] = "Enable"]
  /\ UNCHANGED <<next_nonce, active, worker, request_of, final, superVars,
                 shutdown_result, answer, notifyVars>>

(* ... the others wait with it, or return what is retained.                *)
FollowShutdown(c) ==
  /\ caller[c] = "Idle"
  /\ phase # "Running"
  /\ IF phase = "Closed"
       THEN /\ caller' = [caller EXCEPT ![c] = "Returned"]
            /\ answer' = [answer EXCEPT ![c] = shutdown_result]
       ELSE caller' = [caller EXCEPT ![c] = "Enable"] /\ UNCHANGED answer
  /\ UNCHANGED <<phase, operationVars, superVars, shutdownVars, notifyVars>>

(* The future is not enabled: it is registered only when it is awaited.    *)
FaultyCallerEnables(c) ==
  /\ caller[c] = "Enable"
  /\ caller' = [caller EXCEPT ![c] = "Check"]
  /\ UNCHANGED <<phase, operationVars, superVars, shutdownVars, answer, notifyVars>>

(* wait_for_backend_shutdown: enable the Notified future, ...              *)
CallerEnables(c) ==
  /\ caller[c] = "Enable"
  /\ caller' = [caller EXCEPT ![c] = "Check"]
  /\ enabled' = enabled \cup {c}
  /\ woken' = woken \ {c}
  /\ UNCHANGED <<phase, operationVars, superVars, shutdownVars, answer>>

(* A caller's future goes, when it returns, loops or is dropped.           *)
Forget(c) ==
  /\ enabled' = enabled \ {c}
  /\ woken' = woken \ {c}

(* ... read the phase under the lock, ...                                  *)
CallerChecks(c) ==
  /\ caller[c] = "Check"
  /\ IF phase = "Closed"
       THEN /\ caller' = [caller EXCEPT ![c] = "Returned"]
            /\ answer' = [answer EXCEPT ![c] = shutdown_result]
            /\ Forget(c)
       ELSE caller' = [caller EXCEPT ![c] = "Await"] /\ UNCHANGED <<answer, notifyVars>>
  /\ UNCHANGED <<phase, operationVars, superVars, shutdownVars>>

(* Awaiting enables a future that is not enabled yet.                      *)
CallerAwaits(c) ==
  /\ caller[c] = "Await"
  /\ caller' = [caller EXCEPT ![c] = "Sleep"]
  /\ enabled' = enabled \cup {c}
  /\ UNCHANGED <<phase, operationVars, superVars, shutdownVars, answer, woken>>

(* ... sleep until notified, by the end of the shutdown or by a lease.     *)
CallerWakes(c) ==
  /\ caller[c] = "Sleep"
  /\ c \in woken
  /\ caller' = [caller EXCEPT ![c] = "Enable"]
  /\ Forget(c)
  /\ UNCHANGED <<phase, operationVars, superVars, shutdownVars, answer>>

(* The caller's future is dropped where it sleeps; it may call again.      *)
CallerAborts(c) ==
  /\ caller[c] = "Sleep"
  /\ caller' = [caller EXCEPT ![c] = "Idle"]
  /\ Forget(c)
  /\ UNCHANGED <<phase, operationVars, superVars, shutdownVars, answer>>
-----------------------------------------------------------------------------
(* Shutdown: the coordinator.                                              *)

CloseTasks ==
  /\ coordinator = "Close"
  /\ T!Close
  /\ coordinator' = "Drain"
  /\ UNCHANGED <<phase, operationVars, shutdown_result, callerVars, notifyVars>>

(* The map is looked at in place of the tasks.                             *)
FaultyDrained ==
  /\ coordinator = "Drain"
  /\ ActiveNonces = {}
  /\ coordinator' = "Publish"
  /\ UNCHANGED <<phase, operationVars, superVars, shutdown_result, callerVars,
                 notifyVars>>

(* Nothing is waited for.                                                  *)
HastyDrained ==
  /\ coordinator = "Drain"
  /\ coordinator' = "Publish"
  /\ UNCHANGED <<phase, operationVars, superVars, shutdown_result, callerVars,
                 notifyVars>>

(* wait_for_idle, then failure_summary; the result is not yet retained.    *)
Drained ==
  /\ coordinator = "Drain"
  /\ live = {}
  /\ coordinator' = "Publish"
  /\ UNCHANGED <<phase, operationVars, superVars, shutdown_result, callerVars,
                 notifyVars>>

Summary == IF failed = {} THEN "Ok" ELSE "Failed"

(* publish_backend_shutdown retains the result under the lock ...          *)
Publish ==
  /\ coordinator = "Publish"
  /\ phase' = "Closed"
  /\ shutdown_result' = Summary
  /\ coordinator' = "Notify"
  /\ UNCHANGED <<operationVars, superVars, callerVars, notifyVars>>

(* ... and notifies after unlocking.                                       *)
PublishNotifies ==
  /\ coordinator = "Notify"
  /\ NotifyWaiters
  /\ coordinator' = "Done"
  /\ UNCHANGED <<phase, operationVars, superVars, shutdown_result, callerVars>>
-----------------------------------------------------------------------------
CoordinatorStep == CloseTasks \/ Drained \/ Publish \/ PublishNotifies

WorkerLeaves(n) == LeaseDrops(n) \/ Join(n)

CallerProgress(c) ==
  CallerEnables(c) \/ CallerChecks(c) \/ CallerAwaits(c) \/ CallerWakes(c)

Next ==
  \/ \E id \in RequestIds : SpawnOperation(id) \/ Cancel(id)
  \/ \E n \in Nonces : WorkerEnds(n) \/ WorkerLeaves(n)
  \/ CoordinatorStep
  \/ \E c \in Callers :
       CallShutdown(c) \/ FollowShutdown(c) \/ CallerProgress(c) \/ CallerAborts(c)

Spec == Init /\ [][Next]_vars

(* Spawned tasks and awaited futures are polled.  A worker ends when it    *)
(* has been cancelled (ParakeetTranscription, RequestsAreAnswered); one   *)
(* that has not may wait for its client for ever.                          *)
Fairness ==
  /\ WF_vars(CoordinatorStep)
  /\ \A n \in Nonces :
       /\ WF_vars(WorkerLeaves(n))
       /\ WF_vars(n \in cancelled /\ WorkerEnds(n))
  /\ \A c \in Callers : WF_vars(CallerProgress(c))

FairSpec == Spec /\ Fairness
-----------------------------------------------------------------------------
(* Properties.                                                             *)

(* Types of the backend's variables.                                       *)
TypeOK ==
  /\ phase \in {"Running", "Quiescing", "Closed"}
  /\ next_nonce \in 0..MaxNonce
  /\ active \in [RequestIds -> Nonces \cup {Free}]
  /\ cancelled \subseteq Nonces
  /\ worker \in [Nonces -> {"None", "Working", "Returned", "Panicked", "Ended", "Failed"}]
  /\ request_of \in [Nonces -> RequestIds]
  /\ final \in [Nonces -> {"None", "Sent", "Lost"}]
  /\ {live, joined, failed} \subseteq SUBSET Nonces
  /\ closed \in BOOLEAN
  /\ coordinator \in {"None", "Close", "Drain", "Publish", "Notify", "Done"}
  /\ shutdown_result \in {"None", "Ok", "Failed"}
  /\ caller \in [Callers ->
       {"Idle", "Enable", "Check", "Await", "Sleep", "Returned"}]
  /\ answer \in [Callers -> {"None", "Ok", "Failed"}]
  /\ woken \subseteq enabled /\ enabled \subseteq Callers

(* A retained result is true: every worker was joined, the map is empty,   *)
(* and it is Ok exactly when none of them panicked.  Whoever calls         *)
(* shutdown, however often and whenever, is answered with it.              *)
ResultIsTrue ==
  /\ shutdown_result # "None" =>
       /\ live = {}
       /\ ActiveNonces = {}
       /\ phase = "Closed"
       /\ shutdown_result = "Ok" <=> \A n \in Nonces : worker[n] # "Failed"
  /\ \A c \in Callers : caller[c] = "Returned" =>
       answer[c] # "None" /\ answer[c] = shutdown_result

(* No wakeup is missed: once the result is retained, who sleeps in         *)
(* wait_for_backend_shutdown has been notified, or the coordinator, which  *)
(* notifies after unlocking, is still about to.                            *)
NoWakeupIsMissed ==
  \A c \in Callers :
    caller[c] = "Sleep" /\ c \notin woken => phase # "Closed" \/ coordinator = "Notify"

(* Every caller of shutdown that stays returns.                            *)
CallersReturn ==
  \A c \in Callers : caller[c] = "Enable" ~> caller[c] \in {"Returned", "Idle"}

(* What the host relies on: the protocol by request id, with a nonce for a *)
(* request.                                                                *)
B == INSTANCE SpeechBackends WITH
  Backends <- {"parakeet"},
  Requests <- Nonces,
  FinalClasses <- {"Sent", "Lost"},
  backend_phase <- [b \in {"parakeet"} |-> phase],
  backend_active <- [b \in {"parakeet"} |->
      {<<id, active[id]>> : id \in {i \in RequestIds : active[i] # Free}}],
  backend_cancelled <- cancelled,
  backend_final <- final

ImplementsBackend == B!Spec
=============================================================================
