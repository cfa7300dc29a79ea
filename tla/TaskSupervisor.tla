-------------------------- MODULE TaskSupervisor ---------------------------
(***************************************************************************)
(* The supervisor of monitor and backend tasks (task_supervisor.rs).       *)
(*                                                                         *)
(* spawn and spawn_blocking are the same protocol: admit the worker under  *)
(* the lock, start the worker and a reaper, retain the reaper's join       *)
(* handle under the lock, and only then open the oneshot gate the reaper   *)
(* waits at.  The worker may end anywhere in between.  wait_for_idle is a  *)
(* loop around a tokio Notify, whose notify_waiters wakes exactly the      *)
(* futures already enabled and stores nothing for later ones.              *)
(*                                                                         *)
(* A worker is the sequence number of its worker id.                       *)
(***************************************************************************)
EXTENDS Naturals, Sequences, FiniteSets

CONSTANTS
  MaxSequence,     (* stands for the overflow bound of the worker sequence *)
  ArchiveCapacity, (* COMPLETED_WORKER_ID_CAPACITY                         *)
  Waiters          (* callers of wait_for_idle                             *)

ASSUME SupervisorAssumption ==
  /\ MaxSequence \in Nat \ {0}
  /\ ArchiveCapacity \in Nat \ {0}

Workers == 1 .. (MaxSequence - 1)
FailureKinds == {"Error", "Panic", "Cancelled"}
Outcomes == {"Ok"} \cup FailureKinds
NoFailure == [worker |-> 0, kind |-> "Ok"]

VARIABLES
  phase,             (* TaskSupervisorPhase                                *)
  active,            (* the state's fields, as named there                 *)
  first_failure,
  additional_failures,
  admitted_tasks,
  completed_tasks,
  next_worker_sequence,
  active_worker_ids,
  joined_worker_ids,
  join_handles,
  faulted,
  spawner,           (* how far spawn got for a worker                     *)
  worker,            (* a worker task, running or ended with an outcome    *)
  waiter,            (* where a caller of wait_for_idle is                 *)
  enabled,           (* waiters whose Notified future is enabled           *)
  woken,             (* enabled waiters that notify_waiters has reached    *)
  join_order         (* history: every worker joined, in order             *)

counters == <<active, admitted_tasks, completed_tasks, next_worker_sequence>>
failures == <<first_failure, additional_failures>>
ids == <<active_worker_ids, joined_worker_ids, join_handles, join_order>>
tasks == <<spawner, worker>>
waiting == <<waiter, enabled, woken>>
vars == <<phase, counters, failures, ids, faulted, tasks, waiting>>

Init ==
  /\ phase = "Running"
  /\ active = 0
  /\ first_failure = NoFailure
  /\ additional_failures = 0
  /\ admitted_tasks = 0
  /\ completed_tasks = 0
  /\ next_worker_sequence = 1
  /\ active_worker_ids = {}
  /\ joined_worker_ids = <<>>
  /\ join_handles = {}
  /\ faulted = FALSE
  /\ spawner = [w \in Workers |-> "none"]
  /\ worker = [w \in Workers |-> "none"]
  /\ waiter = [x \in Waiters |-> "outside"]
  /\ enabled = {}
  /\ woken = {}
  /\ join_order = <<>>

NotifyWaiters == woken' = woken \cup enabled

Fault ==
  /\ faulted' = TRUE
  /\ NotifyWaiters

(* A faulty admit, for mutation: admission is never closed.                *)
FaultyAdmit(w) ==
  /\ ~faulted
  /\ w = next_worker_sequence
  /\ next_worker_sequence < MaxSequence
  /\ active' = active + 1
  /\ admitted_tasks' = admitted_tasks + 1
  /\ next_worker_sequence' = next_worker_sequence + 1
  /\ active_worker_ids' = active_worker_ids \cup {w}
  /\ spawner' = [spawner EXCEPT ![w] = "admitted"]
  /\ worker' = [worker EXCEPT ![w] = "running"]
  /\ UNCHANGED <<phase, completed_tasks, failures, joined_worker_ids,
                 join_handles, join_order, faulted, waiting>>

(* admit, and the two tasks that spawn starts right after it, which touch  *)
(* nothing of the supervisor before their own first step.                  *)
Admit(w) ==
  /\ ~faulted
  /\ phase = "Running"
  /\ w = next_worker_sequence
  /\ next_worker_sequence < MaxSequence
  /\ active' = active + 1
  /\ admitted_tasks' = admitted_tasks + 1
  /\ next_worker_sequence' = next_worker_sequence + 1
  /\ active_worker_ids' = active_worker_ids \cup {w}
  /\ spawner' = [spawner EXCEPT ![w] = "admitted"]
  /\ worker' = [worker EXCEPT ![w] = "running"]
  /\ UNCHANGED <<phase, completed_tasks, failures, joined_worker_ids,
                 join_handles, join_order, faulted, waiting>>

RetainJoinHandle(w) ==
  /\ spawner[w] = "admitted"
  /\ spawner' = [spawner EXCEPT ![w] = "retained"]
  /\ join_handles' = join_handles \cup {w}
  /\ IF w \in join_handles THEN Fault ELSE UNCHANGED <<faulted, woken>>
  /\ UNCHANGED <<phase, counters, failures, active_worker_ids, joined_worker_ids,
                 join_order, worker, waiter, enabled>>

OpenGate(w) ==
  /\ spawner[w] = "retained"
  /\ spawner' = [spawner EXCEPT ![w] = "returned"]
  /\ UNCHANGED <<phase, counters, failures, ids, faulted, worker, waiting>>

WorkerEnds(w, outcome) ==
  /\ worker[w] = "running"
  /\ worker' = [worker EXCEPT ![w] = outcome]
  /\ UNCHANGED <<phase, counters, failures, ids, faulted, spawner, waiting>>

(* A faulty reaper, for mutation: it does not wait at the gate.            *)
FaultyReaperReady(w) ==
  /\ worker[w] \in Outcomes
  /\ w \notin {join_order[i] : i \in 1 .. Len(join_order)}

(* The reaper awaits the gate, then the worker.                            *)
ReaperReady(w) ==
  /\ spawner[w] = "returned"
  /\ worker[w] \in Outcomes
  /\ w \notin {join_order[i] : i \in 1 .. Len(join_order)}

Archive(w) ==
  LET joined == Append(joined_worker_ids, w) IN
  IF Len(joined) > ArchiveCapacity THEN Tail(joined) ELSE joined

(* The entry check of finish.                                              *)
Accountable(w) ==
  /\ active > 0
  /\ w \in active_worker_ids
  /\ \A i \in 1 .. Len(joined_worker_ids) : joined_worker_ids[i] # w
  /\ w \in join_handles

(* A faulty record of an outcome, for mutation: the last failure is first. *)
FaultyRecordOutcome(w) ==
  IF worker[w] = "Ok" THEN UNCHANGED failures
  ELSE /\ first_failure' = [worker |-> w, kind |-> worker[w]]
       /\ additional_failures' = additional_failures + (IF first_failure = NoFailure THEN 0 ELSE 1)

RecordOutcome(w) ==
  IF worker[w] = "Ok" THEN UNCHANGED failures
  ELSE IF first_failure = NoFailure
       THEN /\ first_failure' = [worker |-> w, kind |-> worker[w]]
            /\ UNCHANGED additional_failures
       ELSE /\ additional_failures' = additional_failures + 1
            /\ UNCHANGED first_failure

Finish(w) ==
  /\ ReaperReady(w)
  /\ join_order' = Append(join_order, w)
  /\ IF Accountable(w)
     THEN /\ RecordOutcome(w)
          /\ active' = active - 1
          /\ completed_tasks' = completed_tasks + 1
          /\ active_worker_ids' = active_worker_ids \ {w}
          /\ joined_worker_ids' = Archive(w)
          /\ join_handles' = join_handles \ {w}
          /\ IF active = 1 THEN NotifyWaiters ELSE UNCHANGED woken
          /\ UNCHANGED faulted
     ELSE /\ Fault
          /\ UNCHANGED <<failures, active, completed_tasks, active_worker_ids,
                         joined_worker_ids, join_handles>>
  /\ UNCHANGED <<phase, admitted_tasks, next_worker_sequence, tasks, waiter, enabled>>

BeginShutdown ==
  /\ ~faulted
  /\ phase' = "Quiescing"
  /\ UNCHANGED <<counters, failures, ids, faulted, tasks, waiting>>

(* The consistency checks of snapshot, which fault the supervisor.         *)
Consistent ==
  LET archive == {joined_worker_ids[i] : i \in 1 .. Len(joined_worker_ids)} IN
  /\ active = 0 => join_handles = {}
  /\ Cardinality(active_worker_ids) = active
  /\ completed_tasks + active = admitted_tasks
  /\ Len(joined_worker_ids) <= ArchiveCapacity
  /\ Cardinality(archive) = Len(joined_worker_ids)
  /\ join_handles \subseteq active_worker_ids
  /\ archive \cap active_worker_ids = {}

TakeSnapshot ==
  /\ ~faulted
  /\ IF Consistent THEN UNCHANGED <<faulted, woken>> ELSE Fault
  /\ UNCHANGED <<phase, counters, failures, ids, tasks, waiter, enabled>>

(* wait_for_idle.  Each turn of the loop makes a new Notified future.      *)
Wait(x, from, to) ==
  /\ waiter[x] = from
  /\ waiter' = [waiter EXCEPT ![x] = to]
  /\ UNCHANGED <<phase, counters, failures, ids, faulted, tasks>>

Enter(x) == Wait(x, "outside", "enabling") /\ UNCHANGED <<enabled, woken>>

(* A faulty waiter, for mutation: it checks before its future is enabled.  *)
FaultyEnable(x) == Wait(x, "enabling", "checking") /\ UNCHANGED <<enabled, woken>>

Enable(x) ==
  /\ Wait(x, "enabling", "checking")
  /\ enabled' = enabled \cup {x}
  /\ woken' = woken \ {x}

Answer ==
  IF faulted THEN "unavailable"
  ELSE IF active = 0 /\ phase = "Running" THEN "idle"
  ELSE IF active = 0 /\ phase = "Quiescing" THEN "drained"
  ELSE "sleeping"

Check(x) ==
  /\ Wait(x, "checking", Answer)
  /\ IF Answer = "sleeping" THEN UNCHANGED <<enabled, woken>>
     ELSE enabled' = enabled \ {x} /\ woken' = woken \ {x}

Wake(x) ==
  /\ x \in woken
  /\ Wait(x, "sleeping", "enabling")
  /\ enabled' = enabled \ {x}
  /\ woken' = woken \ {x}

SpawnStep(w) == RetainJoinHandle(w) \/ OpenGate(w)

WorkerEnding(w) == \E outcome \in Outcomes : WorkerEnds(w, outcome)

WaiterStep(x) == Enable(x) \/ Check(x) \/ Wake(x)

Next ==
  \/ \E w \in Workers : Admit(w) \/ SpawnStep(w) \/ WorkerEnding(w) \/ Finish(w)
  \/ BeginShutdown
  \/ TakeSnapshot
  \/ \E x \in Waiters : Enter(x) \/ WaiterStep(x)

Spec == Init /\ [][Next]_vars

(* The runtime runs every spawned task and every awaited future, and the   *)
(* owner's workers end by themselves; nobody has to spawn, wait or close.  *)
Fairness ==
  /\ \A w \in Workers : WF_vars(SpawnStep(w)) /\ WF_vars(WorkerEnding(w))
                        /\ WF_vars(Finish(w))
  /\ \A x \in Waiters : WF_vars(WaiterStep(x))

FairSpec == Spec /\ Fairness

---------------------------------------------------------------------------

JoinedWorkers == {join_order[i] : i \in 1 .. Len(join_order)}

FailedWorkers == {w \in JoinedWorkers : worker[w] \in FailureKinds}

(* Every variable has the shape of the field or task it stands for.        *)
TypeOK ==
  /\ phase \in {"Running", "Quiescing"}
  /\ active \in Nat /\ admitted_tasks \in Nat /\ completed_tasks \in Nat
  /\ additional_failures \in Nat
  /\ first_failure \in {NoFailure} \cup [worker : Workers, kind : FailureKinds]
  /\ next_worker_sequence \in 1 .. MaxSequence
  /\ active_worker_ids \subseteq Workers
  /\ joined_worker_ids \in Seq(Workers)
  /\ join_order \in Seq(Workers)
  /\ join_handles \subseteq Workers
  /\ faulted \in BOOLEAN
  /\ spawner \in [Workers -> {"none", "admitted", "retained", "returned"}]
  /\ worker \in [Workers -> {"none", "running"} \cup Outcomes]
  /\ waiter \in [Waiters -> {"outside", "enabling", "checking", "sleeping",
                             "idle", "drained", "unavailable"}]
  /\ woken \subseteq enabled
  /\ enabled \subseteq Waiters

(* Whatever the interleaving of spawning, ending and reaping, no legal use *)
(* trips the supervisor's own fault detection: a worker that ends before   *)
(* its handle is retained is still reaped in an accountable state.         *)
NeverFaults == ~faulted

(* The failure summary is exact: the failures counted are those of the     *)
(* joined workers that failed, and `first` is the first of them joined.    *)
FailureSummaryIsExact ==
  /\ Cardinality(FailedWorkers)
       = additional_failures + (IF first_failure = NoFailure THEN 0 ELSE 1)
  /\ first_failure # NoFailure =>
       \E i \in 1 .. Len(join_order) :
         /\ join_order[i] = first_failure.worker
         /\ first_failure.kind = worker[join_order[i]]
         /\ \A j \in 1 .. (i - 1) : worker[join_order[j]] = "Ok"

(* A waiter that was told the supervisor is idle after admission closed    *)
(* can rely on it for ever: every worker admitted has ended, its reaper    *)
(* has joined it, and its failure is in the summary.                       *)
DrainedMeansDone ==
  (\E x \in Waiters : waiter[x] = "drained") =>
    /\ active = 0 /\ join_handles = {}
    /\ JoinedWorkers = 1 .. (next_worker_sequence - 1)

(* No wakeup is missed: who sleeps in wait_for_idle, and has not been      *)
(* notified, sleeps for a worker that is yet to be joined.  A notification *)
(* between a waiter's check and its sleep reaches it all the same.         *)
NoWakeupIsMissed ==
  \A x \in Waiters :
    waiter[x] = "sleeping" /\ x \notin woken => active > 0 /\ ~faulted

(* Once admission is closed, every caller of wait_for_idle returns.        *)
ClosedWaitersReturn ==
  \A x \in Waiters :
    (phase = "Quiescing" /\ waiter[x] # "outside")
      ~> (waiter[x] \in {"idle", "drained", "unavailable"})

(* The supervisor implements the abstract set of supervised tasks.         *)
Supervised == INSTANCE SupervisedTasks WITH
  Tasks <- Workers,
  live <- active_worker_ids,
  joined <- JoinedWorkers,
  failed <- FailedWorkers,
  closed <- (phase = "Quiescing")

(* Every step is a step of the abstract task set or invisible to it.       *)
ImplementsSupervisedTasks == Supervised!Spec
=============================================================================
