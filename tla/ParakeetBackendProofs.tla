----------------------- MODULE ParakeetBackendProofs ------------------------
(***************************************************************************)
(* For any number of ids, operations and callers: what a shutdown of the   *)
(* backend retains and answers is true, and the backend keeps the protocol *)
(* the host relies on.  Both rest on one invariant in three parts: the map *)
(* follows the leases, the supervisor follows the workers, and the         *)
(* coordinator publishes after both.                                       *)
(***************************************************************************)
EXTENDS ParakeetBackend, TLAPS

Leased == {"Working", "Returned", "Panicked"}

(* The map and the leases: an operation is under its id exactly while its  *)
(* lease is held, and has its answer exactly when its worker is done.      *)
MapFollowsLeases ==
  /\ next_nonce \in Nat
  /\ DOMAIN worker = Nonces /\ DOMAIN final = Nonces /\ DOMAIN request_of = Nonces
  /\ active \in [RequestIds -> Nonces \cup {Free}]
  /\ \A n \in Nonces :
       /\ next_nonce <= n => worker[n] = "None"
       /\ worker[n] \in Leased => request_of[n] \in RequestIds /\ active[request_of[n]] = n
       /\ final[n] = "None" <=> worker[n] \in {"None", "Working"}
  /\ \A id \in RequestIds : active[id] # Free =>
       worker[active[id]] \in Leased /\ request_of[active[id]] = id

(* The supervisor and the workers: a task is live until it has no lease,   *)
(* and a panic is recorded when it is joined.                              *)
TasksFollowWorkers ==
  /\ \A n \in Nonces : worker[n] \in Leased => n \in live
  /\ \A n \in Nonces : worker[n] = "Failed" => n \in live \cup failed
  /\ failed \subseteq {n \in Nonces : worker[n] = "Failed"}

(* The coordinator: no task is live from Drained on, and the result is     *)
(* retained while the phase is Closed.                                     *)
ClosedAfterTasks ==
  /\ phase = "Running" <=> coordinator = "None"
  /\ phase = "Closed" <=> coordinator \in {"Notify", "Done"}
  /\ phase \in {"Running", "Quiescing", "Closed"}
  /\ coordinator \in {"Publish", "Notify", "Done"} => live = {}
  /\ shutdown_result = IF phase = "Closed" THEN Summary ELSE "None"

(* The callers.                                                            *)
AnswersAreRetained ==
  /\ DOMAIN caller = Callers /\ DOMAIN answer = Callers
  /\ \A c \in Callers : caller[c] = "Returned" => phase = "Closed" /\ answer[c] = shutdown_result

Kept == MapFollowsLeases /\ TasksFollowWorkers /\ ClosedAfterTasks /\ AnswersAreRetained

LEMMA FreeIsNoNonce == Free \notin Nonces
BY NonceAssumption DEF Free, Nonces

LEMMA KeptInitially == Init => Kept
BY FreeIsNoNonce DEF Init, T!Init, Kept, MapFollowsLeases, TasksFollowWorkers, ClosedAfterTasks,
   AnswersAreRetained, Leased

LEMMA SpawnKeeps == ASSUME Kept, NEW id \in RequestIds, SpawnOperation(id) PROVE Kept'
<1> USE NonceAssumption, FreeIsNoNonce DEF Kept
<1>1. next_nonce \in Nonces /\ worker[next_nonce] = "None"
  BY DEF SpawnOperation, Admits, Nonces, MapFollowsLeases
<1>2. MapFollowsLeases'
  BY <1>1 DEF SpawnOperation, Admits, MapFollowsLeases, Leased, Nonces
<1>3. TasksFollowWorkers'
  BY <1>1 DEF SpawnOperation, T!Admit, TasksFollowWorkers, Leased, MapFollowsLeases
<1>4. ClosedAfterTasks' /\ AnswersAreRetained'
  BY DEF SpawnOperation, Admits, T!Admit, ClosedAfterTasks, AnswersAreRetained, shutdownVars,
         callerVars, Summary
<1> QED BY <1>2, <1>3, <1>4

LEMMA WorkerEndsKeeps == ASSUME Kept, NEW n \in Nonces, WorkerEnds(n) PROVE Kept'
<1> USE DEF Kept
<1>1. MapFollowsLeases'
  BY DEF WorkerEnds, MapFollowsLeases, Leased
<1>2. TasksFollowWorkers'
  BY DEF WorkerEnds, TasksFollowWorkers, Leased, superVars, MapFollowsLeases
<1>3. ClosedAfterTasks' /\ AnswersAreRetained'
  BY DEF WorkerEnds, ClosedAfterTasks, AnswersAreRetained, superVars, shutdownVars, callerVars,
         Summary
<1> QED BY <1>1, <1>2, <1>3

LEMMA LeaseDropsKeeps == ASSUME Kept, NEW n \in Nonces, LeaseDrops(n) PROVE Kept'
<1> USE FreeIsNoNonce DEF Kept
<1>1. MapFollowsLeases'
  BY DEF LeaseDrops, MapFollowsLeases, Leased
<1>2. TasksFollowWorkers'
  BY DEF LeaseDrops, TasksFollowWorkers, Leased, superVars, MapFollowsLeases
<1>3. ClosedAfterTasks' /\ AnswersAreRetained'
  BY DEF LeaseDrops, ClosedAfterTasks, AnswersAreRetained, superVars, shutdownVars, callerVars,
         Summary
<1> QED BY <1>1, <1>2, <1>3

LEMMA JoinKeeps == ASSUME Kept, NEW n \in Nonces, Join(n) PROVE Kept'
<1> USE DEF Kept
<1>1. MapFollowsLeases'
  BY DEF Join, MapFollowsLeases, operationVars
<1>2. TasksFollowWorkers'
  BY DEF Join, T!Join, TasksFollowWorkers, Leased, operationVars
<1>3. ClosedAfterTasks' /\ AnswersAreRetained'
  BY DEF Join, T!Join, ClosedAfterTasks, AnswersAreRetained, shutdownVars, callerVars, Summary
<1> QED BY <1>1, <1>2, <1>3

LEMMA CallersKeep ==
  ASSUME Kept, NEW c \in Callers,
         CallShutdown(c) \/ FollowShutdown(c) \/ CallerProgress(c) \/ CallerAborts(c)
  PROVE  Kept'
<1> USE DEF Kept
<1>1. CASE CallShutdown(c)
  <2>1. MapFollowsLeases' /\ TasksFollowWorkers'
    BY <1>1 DEF CallShutdown, MapFollowsLeases, TasksFollowWorkers, superVars
  <2>2. ClosedAfterTasks' /\ AnswersAreRetained'
    BY <1>1 DEF CallShutdown, ClosedAfterTasks, AnswersAreRetained, superVars, Summary
  <2> QED BY <2>1, <2>2
<1>2. CASE FollowShutdown(c) \/ CallerProgress(c) \/ CallerAborts(c)
  <2> USE DEF FollowShutdown, CallerProgress, CallerEnables, CallerChecks, CallerAwaits,
              CallerWakes, CallerAborts, operationVars, superVars, shutdownVars
  <2>1. MapFollowsLeases' /\ TasksFollowWorkers'
    BY <1>2 DEF MapFollowsLeases, TasksFollowWorkers
  <2>2. ClosedAfterTasks'
    BY <1>2 DEF ClosedAfterTasks, Summary
  <2>3. AnswersAreRetained'
    BY <1>2 DEF AnswersAreRetained
  <2> QED BY <2>1, <2>2, <2>3
<1> QED BY <1>1, <1>2

LEMMA CoordinatorKeeps == ASSUME Kept, CoordinatorStep PROVE Kept'
<1> USE DEF Kept, CoordinatorStep
<1>1. MapFollowsLeases' /\ TasksFollowWorkers'
  BY DEF CloseTasks, T!Close, Drained, Publish, PublishNotifies, MapFollowsLeases,
         TasksFollowWorkers, operationVars, superVars
<1>2. ClosedAfterTasks'
  BY DEF CloseTasks, T!Close, Drained, Publish, PublishNotifies, ClosedAfterTasks, Summary,
         superVars
<1>3. AnswersAreRetained'
  BY DEF CloseTasks, Drained, Publish, PublishNotifies, AnswersAreRetained, ClosedAfterTasks,
         callerVars
<1> QED BY <1>1, <1>2, <1>3

LEMMA NextKeeps == ASSUME Kept, [Next]_vars PROVE Kept'
<1>1. CASE \E id \in RequestIds : SpawnOperation(id)
  BY <1>1, SpawnKeeps
<1>2. CASE \/ \E id \in RequestIds : Cancel(id)
           \/ UNCHANGED vars
  BY <1>2 DEF Kept, MapFollowsLeases, TasksFollowWorkers, ClosedAfterTasks, AnswersAreRetained,
     Cancel, Summary, vars, operationVars, superVars, shutdownVars, callerVars
<1>3. CASE \E n \in Nonces : WorkerEnds(n) \/ WorkerLeaves(n)
  BY <1>3, WorkerEndsKeeps, LeaseDropsKeeps, JoinKeeps DEF WorkerLeaves
<1>4. CASE CoordinatorStep
  BY <1>4, CoordinatorKeeps
<1>5. CASE \E c \in Callers :
             CallShutdown(c) \/ FollowShutdown(c) \/ CallerProgress(c) \/ CallerAborts(c)
  BY <1>5, CallersKeep
<1> QED BY <1>1, <1>2, <1>3, <1>4, <1>5 DEF Next

LEMMA KeptInvariant == Spec => []Kept
BY KeptInitially, NextKeeps, PTL DEF Spec

(* However operations end, panic and give their ids back while a shutdown  *)
(* runs: the retained result says Ok exactly when no worker panicked, all  *)
(* workers are joined and the map is empty then, and every caller who      *)
(* returns was answered with it.                                           *)
THEOREM RetainedResultIsTrue == Spec => []ResultIsTrue
<1>1. Kept => ResultIsTrue
  <2> SUFFICES ASSUME Kept PROVE ResultIsTrue
    OBVIOUS
  <2>1. ASSUME phase = "Closed"
        PROVE  /\ live = {} /\ ActiveNonces = {}
               /\ failed = {} <=> \A n \in Nonces : worker[n] # "Failed"
    BY <2>1 DEF Kept, MapFollowsLeases, TasksFollowWorkers, ClosedAfterTasks, ActiveNonces
  <2> QED BY <2>1 DEF Kept, ClosedAfterTasks, AnswersAreRetained, Summary, ResultIsTrue
<1> QED BY <1>1, KeptInvariant, PTL
-----------------------------------------------------------------------------
(* From before it reads the phase a caller has an enabled future, and from *)
(* the moment it read a phase that was not Closed, asleep or not, a result *)
(* retained since has notified it or is about to.                          *)
Listening ==
  \A c \in Callers :
    /\ caller[c] \in {"Check", "Await", "Sleep"} => c \in enabled
    /\ caller[c] \in {"Await", "Sleep"} /\ c \notin woken =>
         phase # "Closed" \/ coordinator = "Notify"

(* Everything but the callers, and the end of the shutdown, leaves the     *)
(* callers, the phase and the notifications of the coordinator alone, and  *)
(* may notify.                                                             *)
LEMMA OthersNotify ==
  ASSUME \/ \E id \in RequestIds : SpawnOperation(id) \/ Cancel(id)
         \/ \E n \in Nonces : WorkerEnds(n) \/ WorkerLeaves(n)
         \/ UNCHANGED vars
  PROVE  /\ UNCHANGED <<phase, coordinator, caller, enabled>>
         /\ woken \subseteq woken'
BY DEF SpawnOperation, Cancel, WorkerEnds, WorkerLeaves, LeaseDrops, Join, NotifyWaiters, vars,
   shutdownVars, callerVars, notifyVars

LEMMA ListeningKeeps ==
  ASSUME Kept, Listening, [Next]_vars
  PROVE  Listening'
<1> USE DEF Listening
<1>1. CASE /\ UNCHANGED <<phase, coordinator, caller, enabled>>
           /\ woken \subseteq woken'
  BY <1>1
<1>2. CASE CoordinatorStep
  BY <1>2 DEF CoordinatorStep, CloseTasks, Drained, Publish, PublishNotifies, NotifyWaiters,
     callerVars, notifyVars, Kept, ClosedAfterTasks
<1>3. ASSUME NEW c \in Callers,
             CallShutdown(c) \/ FollowShutdown(c) \/ CallerProgress(c) \/ CallerAborts(c)
      PROVE  Listening'
  <2> USE DEF Kept, AnswersAreRetained, ClosedAfterTasks, shutdownVars, notifyVars
  <2>1. CASE CallShutdown(c) \/ FollowShutdown(c)
    BY <1>3, <2>1 DEF CallShutdown, FollowShutdown
  <2>2. CASE CallerEnables(c) \/ CallerAwaits(c)
    BY <1>3, <2>2 DEF CallerEnables, CallerAwaits
  <2>3. CASE CallerChecks(c)
    BY <1>3, <2>3 DEF CallerChecks, Forget
  <2>4. CASE CallerWakes(c) \/ CallerAborts(c)
    BY <1>3, <2>4 DEF CallerWakes, CallerAborts, Forget
  <2> QED BY <1>3, <2>1, <2>2, <2>3, <2>4 DEF CallerProgress
<1> QED BY <1>1, <1>2, <1>3, OthersNotify DEF Next

(* However callers come, look, sleep and go while leases are dropped and   *)
(* the result is retained, nobody sleeps through the one notification.     *)
THEOREM CallersMissNothing == Spec => []NoWakeupIsMissed
<1>1. Init => Listening
  BY DEF Init, Listening
<1>2. Kept /\ Listening /\ [Next]_vars => Listening'
  BY ListeningKeeps
<1>3. Listening => NoWakeupIsMissed
  BY DEF Listening, NoWakeupIsMissed
<1> QED BY <1>1, <1>2, <1>3, KeptInvariant, PTL DEF Spec
-----------------------------------------------------------------------------
(* The refinement of SpeechBackends.  Entries is the map as the host sees  *)
(* it, pairs of an id and the operation under it.                          *)
P == "parakeet"
Entries == {<<id, active[id]>> : id \in {i \in RequestIds : active[i] # Free}}

LEMMA UnderAnId ==
  ASSUME NEW id \in RequestIds
  PROVE  B!UnderId(P, id) = IF active[id] = Free THEN {} ELSE {active[id]}
<1>1. B!UnderId(P, id) = {entry[2] : entry \in {e \in Entries : e[1] = id}}
  BY DEF B!UnderId, Entries, P
<1>2. {e \in Entries : e[1] = id} = IF active[id] = Free THEN {} ELSE {<<id, active[id]>>}
  BY DEF Entries
<1>3. CASE active[id] = Free
  BY <1>1, <1>2, <1>3
<1>4. CASE active[id] # Free
  <2>1. B!UnderId(P, id) = {entry[2] : entry \in {<<id, active[id]>>}}
    BY <1>1, <1>2, <1>4
  <2> QED BY <2>1, <1>4
<1> QED BY <1>3, <1>4

LEMMA ActiveAreEntries == B!ActiveRequests(P) = ActiveNonces
<1>1. B!ActiveRequests(P) = {entry[2] : entry \in Entries}
  BY DEF B!ActiveRequests, Entries, P
<1>2. ASSUME NEW entry \in Entries PROVE entry[2] \in ActiveNonces
  BY DEF Entries, ActiveNonces
<1>3. ASSUME NEW n \in ActiveNonces PROVE \E entry \in Entries : entry[2] = n
  <2>1. PICK id \in RequestIds : active[id] = n /\ n # Free
    BY DEF ActiveNonces
  <2>2. <<id, n>> \in Entries /\ <<id, n>>[2] = n
    BY <2>1 DEF Entries
  <2> QED BY <2>2
<1> QED BY <1>1, <1>2, <1>3

(* A step that changes nothing the host sees.                              *)
LEMMA UnseenSteps ==
  ASSUME UNCHANGED <<phase, active, cancelled, final>>
  PROVE  UNCHANGED B!backendVars
BY DEF B!backendVars

LEMMA SpawnAdmits ==
  ASSUME Kept, NEW id \in RequestIds, SpawnOperation(id), NEW n \in Nonces, n = next_nonce
  PROVE  B!Admit(P, id, n)
<1>1. Entries' = Entries \cup {<<id, n>>}
  BY FreeIsNoNonce DEF Entries, SpawnOperation, Admits, Kept, MapFollowsLeases
<1>2. B!Admits(P, id)
  BY UnderAnId DEF B!Admits, SpawnOperation, Admits, P
<1> QED BY <1>1, <1>2 DEF B!Admit, SpawnOperation, Entries, P

LEMMA CancelCancels ==
  ASSUME NEW id \in RequestIds, Cancel(id)
  PROVE  B!Cancel(P, id)
BY UnderAnId DEF Cancel, B!Cancel

LEMMA WorkerAnswers ==
  ASSUME Kept, NEW n \in Nonces, WorkerEnds(n)
  PROVE  \E class \in {"Sent", "Lost"} : B!SendFinal(P, n, class)
<1>1. n \in B!ActiveRequests(P)
  BY ActiveAreEntries, FreeIsNoNonce
     DEF WorkerEnds, Kept, MapFollowsLeases, Leased, ActiveNonces
<1>2. final[n] = "None"
  BY DEF WorkerEnds, Kept, MapFollowsLeases
<1> QED BY <1>1, <1>2 DEF WorkerEnds, B!SendFinal

LEMMA LeaseReaps ==
  ASSUME Kept, NEW n \in Nonces, LeaseDrops(n)
  PROVE  \E id \in RequestIds : B!Reap(P, id, n)
<1> DEFINE id == request_of[n]
<1>1. id \in RequestIds /\ active[id] = n /\ final[n] # "None"
  BY DEF LeaseDrops, Kept, MapFollowsLeases, Leased
<1>2. Entries' = Entries \ {<<id, n>>}
  BY <1>1, FreeIsNoNonce DEF LeaseDrops, Entries, Kept, MapFollowsLeases
<1>3. <<id, n>> \in Entries
  BY <1>1, FreeIsNoNonce DEF Entries
<1> QED BY <1>1, <1>2, <1>3 DEF LeaseDrops, B!Reap, Entries, P

LEMMA ShutdownSteps ==
  ASSUME Kept, CoordinatorStep \/ \E c \in Callers : CallShutdown(c)
  PROVE  B!BeginShutdown(P) \/ B!CompleteShutdown(P) \/ UNCHANGED B!backendVars
<1>1. ASSUME NEW c \in Callers, CallShutdown(c) PROVE B!BeginShutdown(P)
  BY <1>1, ActiveAreEntries DEF CallShutdown, B!BeginShutdown, P
<1>2. CASE Publish
  <2>1. Entries = {}
    BY <1>2 DEF Publish, Kept, ClosedAfterTasks, TasksFollowWorkers, MapFollowsLeases, Entries
  <2>2. phase = "Quiescing"
    BY <1>2 DEF Publish, Kept, ClosedAfterTasks
  <2> QED BY <1>2, <2>1, <2>2 DEF Publish, B!CompleteShutdown, Entries, operationVars, P
<1>3. CASE CloseTasks \/ Drained \/ PublishNotifies
  BY <1>3, UnseenSteps DEF CloseTasks, Drained, PublishNotifies, operationVars
<1> QED BY <1>1, <1>2, <1>3 DEF CoordinatorStep

(* For every interleaving of operations and shutdown, the backend is the   *)
(* one the host model composes with: it refuses an id it holds, finds an   *)
(* operation by id alone, answers before the id is free, and is closed     *)
(* only when the map is empty.                                             *)
THEOREM BackendKeepsProtocol == Spec => ImplementsBackend
<1>1. Init => B!Init
  BY DEF Init, B!Init
<1>2. Kept /\ [Next]_vars => [B!Next]_B!backendVars
  <2> SUFFICES ASSUME Kept, [Next]_vars PROVE B!Next \/ UNCHANGED B!backendVars
    OBVIOUS
  <2> USE DEF B!Next, P
  <2>1. ASSUME NEW id \in RequestIds, SpawnOperation(id) PROVE B!Next
    <3>1. next_nonce \in Nonces
      BY <2>1, NonceAssumption DEF SpawnOperation, Admits, Nonces, Kept, MapFollowsLeases
    <3>2. PICK n \in Nonces : n = next_nonce
      BY <3>1
    <3>3. B!Admit(P, id, n)
      BY <2>1, <3>2, SpawnAdmits
    <3> QED BY <3>3
  <2>2. ASSUME NEW id \in RequestIds, Cancel(id) PROVE B!Next
    BY <2>2, CancelCancels
  <2>3. ASSUME NEW n \in Nonces, WorkerEnds(n) PROVE B!Next
    BY <2>3, WorkerAnswers DEF B!WorkerStep
  <2>4. ASSUME NEW n \in Nonces, LeaseDrops(n) PROVE B!Next
    BY <2>4, LeaseReaps DEF B!WorkerStep
  <2>5. CASE CoordinatorStep \/ \E c \in Callers : CallShutdown(c)
    BY <2>5, ShutdownSteps
  <2>6. CASE \/ \E n \in Nonces : Join(n)
             \/ \E c \in Callers : FollowShutdown(c) \/ CallerProgress(c) \/ CallerAborts(c)
             \/ UNCHANGED vars
    BY <2>6, UnseenSteps DEF Join, FollowShutdown, CallerProgress, CallerEnables, CallerChecks,
       CallerAwaits, CallerWakes, CallerAborts, vars, operationVars
  <2> QED BY <2>1, <2>2, <2>3, <2>4, <2>5, <2>6 DEF Next, WorkerLeaves
<1> QED BY <1>1, <1>2, KeptInvariant, PTL DEF Spec, B!Spec, ImplementsBackend
=============================================================================
