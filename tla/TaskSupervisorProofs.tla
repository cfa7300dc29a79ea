------------------------ MODULE TaskSupervisorProofs ------------------------
(***************************************************************************)
(* For any number of workers and waiters and any archive: no use of the    *)
(* supervisor trips its own fault detection, a drained supervisor is done, *)
(* its failure summary is exact, and it implements SupervisedTasks.        *)
(*                                                                         *)
(* The invariant is in five parts: shapes, what the stages of a spawn say  *)
(* about the id sets, the counters, the archive, and the waiters that were *)
(* told drained.                                                           *)
(***************************************************************************)
EXTENDS TaskSupervisor, FiniteSetTheorems, TLAPS

Shaped ==
  /\ phase \in {"Running", "Quiescing"}
  /\ next_worker_sequence \in 1 .. MaxSequence
  /\ active \in Nat /\ admitted_tasks \in Nat /\ completed_tasks \in Nat
  /\ active_worker_ids \subseteq Workers /\ join_handles \subseteq Workers
  /\ join_order \in Seq(Workers) /\ joined_worker_ids \in Seq(Workers)
  /\ DOMAIN spawner = Workers /\ DOMAIN worker = Workers /\ DOMAIN waiter = Waiters

(* A worker is active from its admission to its join, its handle is kept   *)
(* from its retention to its join, and a joined one was spawned and ended. *)
StagesAgree ==
  /\ ~faulted
  /\ \A w \in Workers :
       /\ next_worker_sequence <= w <=> spawner[w] = "none"
       /\ next_worker_sequence <= w <=> worker[w] = "none"
       /\ w \in active_worker_ids <=> w < next_worker_sequence /\ w \notin JoinedWorkers
       /\ w \in JoinedWorkers =>
            w < next_worker_sequence /\ spawner[w] = "returned" /\ worker[w] \in Outcomes
       /\ w \in join_handles <=>
            w \in active_worker_ids /\ spawner[w] \in {"retained", "returned"}

CountsAgree ==
  /\ active = Cardinality(active_worker_ids)
  /\ completed_tasks + active = admitted_tasks

ArchiveAgrees ==
  /\ Len(joined_worker_ids) <= ArchiveCapacity
  /\ \A i \in 1 .. Len(joined_worker_ids) :
       /\ joined_worker_ids[i] \in JoinedWorkers
       /\ \A j \in 1 .. Len(joined_worker_ids) :
            i # j => joined_worker_ids[i] # joined_worker_ids[j]

DrainedStays ==
  \A x \in Waiters : waiter[x] = "drained" => phase = "Quiescing" /\ active = 0

Sound == Shaped /\ StagesAgree /\ CountsAgree /\ ArchiveAgrees /\ DrainedStays

LEMMA WorkersAreNaturals == Workers \subseteq Nat /\ IsFiniteSet(Workers)
<1>1. MaxSequence - 1 \in Int /\ 1 \in Int
  BY SupervisorAssumption
<1> QED BY <1>1, FS_Interval DEF Workers

LEMMA ActiveIsFinite == ASSUME Shaped PROVE IsFiniteSet(active_worker_ids)
BY WorkersAreNaturals, FS_Subset DEF Shaped

(* Who has been joined after one more was.                                 *)
LEMMA OneMoreJoined ==
  ASSUME join_order \in Seq(Workers), NEW w \in Workers, join_order' = Append(join_order, w)
  PROVE  /\ join_order' \in Seq(Workers)
         /\ JoinedWorkers' = JoinedWorkers \cup {w}
<1>1. /\ join_order' \in Seq(Workers)
      /\ Len(join_order') = Len(join_order) + 1
      /\ \A i \in 1 .. Len(join_order) : join_order'[i] = join_order[i]
      /\ join_order'[Len(join_order) + 1] = w
      /\ Len(join_order) \in Nat
  OBVIOUS
<1> HIDE DEF JoinedWorkers
<1>2. ASSUME NEW v \in JoinedWorkers' PROVE v \in JoinedWorkers \cup {w}
  BY <1>1 DEF JoinedWorkers
<1>3. JoinedWorkers \cup {w} \subseteq JoinedWorkers'
  BY <1>1 DEF JoinedWorkers
<1> QED BY <1>1, <1>2, <1>3

(* What is archived after w was joined: its tail, if it was full.          *)
LEMMA ArchiveMoves ==
  ASSUME joined_worker_ids \in Seq(Workers), Len(joined_worker_ids) <= ArchiveCapacity,
         NEW w \in Workers
  PROVE  /\ Archive(w) \in Seq(Workers)
         /\ Len(Archive(w)) <= ArchiveCapacity
         /\ \E k \in {0, 1} :
              /\ Len(Archive(w)) = Len(joined_worker_ids) + 1 - k
              /\ \A i \in 1 .. Len(Archive(w)) :
                   Archive(w)[i] = IF i + k = Len(joined_worker_ids) + 1
                                     THEN w ELSE joined_worker_ids[i + k]
<1> DEFINE appended == Append(joined_worker_ids, w)
           n == Len(joined_worker_ids)
<1>1. /\ appended \in Seq(Workers) /\ Len(appended) = n + 1 /\ n \in Nat
      /\ \A i \in 1 .. n : appended[i] = joined_worker_ids[i]
      /\ appended[n + 1] = w
  OBVIOUS
<1>2. CASE n + 1 > ArchiveCapacity
  <2>1. Archive(w) = Tail(appended)
    BY <1>1, <1>2 DEF Archive
  <2>2. /\ Tail(appended) \in Seq(Workers) /\ Len(Tail(appended)) = n
        /\ \A i \in 1 .. n : Tail(appended)[i] = appended[i + 1]
    BY <1>1
  <2> HIDE DEF appended
  <2> QED BY <1>1, <2>1, <2>2
<1>3. CASE ~(n + 1 > ArchiveCapacity)
  <2>1. Archive(w) = appended
    BY <1>1, <1>3 DEF Archive
  <2>2. Len(Archive(w)) <= ArchiveCapacity
    BY <1>1, <1>3, <2>1, SupervisorAssumption
  <2>3. \A i \in 1 .. Len(Archive(w)) :
          Archive(w)[i] = IF i + 0 = n + 1 THEN w ELSE joined_worker_ids[i + 0]
    BY <1>1, <2>1
  <2> HIDE DEF appended
  <2> QED BY <1>1, <2>1, <2>2, <2>3
<1> QED BY <1>2, <1>3
-----------------------------------------------------------------------------
LEMMA SoundInitially == Init => Sound
<1> SUFFICES ASSUME Init PROVE Sound
  OBVIOUS
<1>1. JoinedWorkers = {}
  BY DEF Init, JoinedWorkers
<1>2. Shaped
  BY SupervisorAssumption DEF Init, Shaped
<1>3. StagesAgree
  BY <1>1, WorkersAreNaturals DEF Init, StagesAgree, Workers
<1>4. CountsAgree /\ ArchiveAgrees /\ DrainedStays
  BY FS_EmptySet, SupervisorAssumption DEF Init, CountsAgree, ArchiveAgrees, DrainedStays
<1> QED BY <1>2, <1>3, <1>4 DEF Sound

LEMMA AdmitKeeps == ASSUME Sound, NEW w \in Workers, Admit(w) PROVE Sound'
<1> USE DEF Sound
<1>1. JoinedWorkers' = JoinedWorkers
  BY DEF Admit, JoinedWorkers
<1>2. w \notin active_worker_ids
  BY WorkersAreNaturals DEF Admit, Shaped, StagesAgree
<1>3. Shaped'
  BY SupervisorAssumption DEF Admit, Shaped, failures, waiting
<1>4. StagesAgree'
  BY <1>1, WorkersAreNaturals DEF Admit, StagesAgree, Shaped, Workers, Outcomes, FailureKinds
<1>5. CountsAgree'
  <2>1. Cardinality(active_worker_ids') = Cardinality(active_worker_ids) + 1
    BY <1>2, ActiveIsFinite, FS_AddElement DEF Admit
  <2>2. /\ active' = active + 1 /\ admitted_tasks' = admitted_tasks + 1
        /\ completed_tasks' = completed_tasks
    BY DEF Admit
  <2>3. /\ active \in Nat /\ admitted_tasks \in Nat /\ completed_tasks \in Nat
        /\ active = Cardinality(active_worker_ids)
        /\ completed_tasks + active = admitted_tasks
    BY DEF Shaped, CountsAgree
  <2>4. active' = Cardinality(active_worker_ids')
    BY <2>1, <2>2, <2>3
  <2>5. completed_tasks' + active' = admitted_tasks'
    BY <2>2, <2>3
  <2> QED BY <2>4, <2>5 DEF CountsAgree
<1>6. ArchiveAgrees'
  BY <1>1 DEF Admit, ArchiveAgrees
<1>7. DrainedStays'
  BY DEF Admit, DrainedStays, waiting
<1> QED BY <1>3, <1>4, <1>5, <1>6, <1>7

LEMMA SpawnKeeps == ASSUME Sound, NEW w \in Workers, SpawnStep(w) PROVE Sound'
<1> USE DEF Sound
<1>1. JoinedWorkers' = JoinedWorkers
  BY DEF SpawnStep, RetainJoinHandle, OpenGate, JoinedWorkers, ids
<1>2. CASE RetainJoinHandle(w)
  <2>1. w \notin join_handles
    BY <1>2 DEF RetainJoinHandle, StagesAgree
  <2>2. Shaped'
    BY <1>2 DEF RetainJoinHandle, Shaped, counters, failures
  <2>3. StagesAgree'
    BY <1>1, <1>2, <2>1 DEF RetainJoinHandle, StagesAgree, Shaped, counters
  <2>4. CountsAgree' /\ ArchiveAgrees' /\ DrainedStays'
    BY <1>1, <1>2 DEF RetainJoinHandle, CountsAgree, ArchiveAgrees, DrainedStays, counters
  <2> QED BY <2>2, <2>3, <2>4
<1>3. CASE OpenGate(w)
  <2>1. Shaped'
    BY <1>3 DEF OpenGate, Shaped, counters, failures, ids, waiting
  <2>2. StagesAgree'
    BY <1>1, <1>3 DEF OpenGate, StagesAgree, Shaped, counters, ids
  <2>3. CountsAgree' /\ ArchiveAgrees' /\ DrainedStays'
    BY <1>1, <1>3 DEF OpenGate, CountsAgree, ArchiveAgrees, DrainedStays, counters, ids, waiting
  <2> QED BY <2>1, <2>2, <2>3
<1> QED BY <1>2, <1>3 DEF SpawnStep

LEMMA EndingKeeps == ASSUME Sound, NEW w \in Workers, WorkerEnding(w) PROVE Sound'
<1> USE DEF Sound
<1>1. PICK outcome \in Outcomes : WorkerEnds(w, outcome)
  BY DEF WorkerEnding
<1>2. JoinedWorkers' = JoinedWorkers
  BY <1>1 DEF WorkerEnds, JoinedWorkers, ids
<1>3. Shaped'
  BY <1>1 DEF WorkerEnds, Shaped, counters, failures, ids, waiting
<1>4. StagesAgree'
  BY <1>1, <1>2 DEF WorkerEnds, StagesAgree, Shaped, counters, ids, Outcomes, FailureKinds
<1>5. CountsAgree' /\ ArchiveAgrees' /\ DrainedStays'
  BY <1>1, <1>2 DEF WorkerEnds, CountsAgree, ArchiveAgrees, DrainedStays, counters, ids, waiting
<1> QED BY <1>3, <1>4, <1>5

(* The entry check of finish never fails.                                  *)
LEMMA ReapedIsAccountable ==
  ASSUME Sound, NEW w \in Workers, ReaperReady(w)
  PROVE  /\ Accountable(w)
         /\ w \in active_worker_ids
         /\ w \notin JoinedWorkers
<1> USE DEF Sound
<1>1. w \notin JoinedWorkers
  BY DEF ReaperReady, JoinedWorkers
<1>2. w \in active_worker_ids /\ w \in join_handles
  BY <1>1, WorkersAreNaturals DEF ReaperReady, StagesAgree, Shaped, Workers
<1>3. active > 0
  <2>1. Cardinality(active_worker_ids) # 0
    BY <1>2, ActiveIsFinite, FS_EmptySet
  <2> QED BY <2>1 DEF CountsAgree, Shaped
<1>4. \A i \in 1 .. Len(joined_worker_ids) : joined_worker_ids[i] # w
  BY <1>1 DEF ArchiveAgrees
<1> QED BY <1>1, <1>2, <1>3, <1>4 DEF Accountable

LEMMA FinishKeeps == ASSUME Sound, NEW w \in Workers, Finish(w) PROVE Sound'
<1> USE DEF Sound
<1>1. /\ Accountable(w) /\ w \in active_worker_ids /\ w \notin JoinedWorkers
      /\ active > 0
  BY ReapedIsAccountable DEF Finish, Accountable
<1>2. JoinedWorkers' = JoinedWorkers \cup {w} /\ join_order' \in Seq(Workers)
  BY OneMoreJoined DEF Finish, Shaped
<1>3. joined_worker_ids' = Archive(w)
  BY <1>1 DEF Finish
<1>4. Shaped'
  BY <1>1, <1>2, <1>3, ArchiveMoves DEF Finish, Shaped, ArchiveAgrees, tasks
<1>5. StagesAgree'
  BY <1>1, <1>2, WorkersAreNaturals DEF Finish, StagesAgree, Shaped, ReaperReady, Workers, tasks
<1>6. CountsAgree'
  <2>1. Cardinality(active_worker_ids') = Cardinality(active_worker_ids) - 1
    BY <1>1, ActiveIsFinite, FS_RemoveElement DEF Finish
  <2> QED BY <1>1, <2>1 DEF Finish, CountsAgree, Shaped
<1>7. ArchiveAgrees'
  <2>1. PICK k \in {0, 1} :
          /\ Len(Archive(w)) = Len(joined_worker_ids) + 1 - k
          /\ \A i \in 1 .. Len(Archive(w)) :
               Archive(w)[i] = IF i + k = Len(joined_worker_ids) + 1
                                 THEN w ELSE joined_worker_ids[i + k]
    BY ArchiveMoves DEF Shaped, ArchiveAgrees
  <2>2. Len(joined_worker_ids) \in Nat
    BY DEF Shaped
  <2>3. Len(Archive(w)) <= ArchiveCapacity
    BY ArchiveMoves DEF Shaped, ArchiveAgrees
  <2>4. ASSUME NEW i \in 1 .. Len(Archive(w))
        PROVE  IF i + k = Len(joined_worker_ids) + 1
                 THEN Archive(w)[i] = w
                 ELSE /\ i + k \in 1 .. Len(joined_worker_ids)
                      /\ Archive(w)[i] = joined_worker_ids[i + k]
                      /\ Archive(w)[i] \in JoinedWorkers
    BY <2>1, <2>2 DEF ArchiveAgrees
  <2>5. ASSUME NEW i \in 1 .. Len(Archive(w)), NEW j \in 1 .. Len(Archive(w)), i # j
        PROVE  Archive(w)[i] # Archive(w)[j]
    <3>1. CASE i + k = Len(joined_worker_ids) + 1 \/ j + k = Len(joined_worker_ids) + 1
      <4>1. \/ Archive(w)[i] = w /\ j + k # Len(joined_worker_ids) + 1
            \/ Archive(w)[j] = w /\ i + k # Len(joined_worker_ids) + 1
        BY <2>1, <2>2, <2>5, <3>1
      <4>2. \/ Archive(w)[i] = w /\ Archive(w)[j] \in JoinedWorkers
            \/ Archive(w)[j] = w /\ Archive(w)[i] \in JoinedWorkers
        BY <2>4, <4>1
      <4> QED BY <1>1, <4>2
    <3>2. CASE i + k # Len(joined_worker_ids) + 1 /\ j + k # Len(joined_worker_ids) + 1
      <4>1. PICK a \in 1 .. Len(joined_worker_ids), b \in 1 .. Len(joined_worker_ids) :
              /\ Archive(w)[i] = joined_worker_ids[a] /\ Archive(w)[j] = joined_worker_ids[b]
              /\ a # b
        <5>1. i + k # j + k
          BY <2>5
        <5> QED BY <2>4, <3>2, <5>1
      <4>2. joined_worker_ids[a] # joined_worker_ids[b]
        BY <4>1 DEF ArchiveAgrees
      <4> QED BY <4>1, <4>2
    <3> QED BY <3>1, <3>2
  <2> QED BY <1>2, <1>3, <2>3, <2>4, <2>5 DEF ArchiveAgrees
<1>8. DrainedStays'
  BY <1>1 DEF Finish, DrainedStays
<1> QED BY <1>4, <1>5, <1>6, <1>7, <1>8

(* The checks of snapshot never fail.                                      *)
LEMMA SoundIsConsistent == ASSUME Sound PROVE Consistent
<1> USE DEF Sound
<1> DEFINE archive == {joined_worker_ids[i] : i \in 1 .. Len(joined_worker_ids)}
<1>1. active = 0 => join_handles = {}
  <2>1. active = 0 => active_worker_ids = {}
    BY ActiveIsFinite, FS_EmptySet DEF CountsAgree
  <2> QED BY <2>1 DEF StagesAgree, Shaped
<1>2. Cardinality(archive) = Len(joined_worker_ids)
  <2> DEFINE n == Len(joined_worker_ids)
             f == [i \in 1 .. n |-> joined_worker_ids[i]]
  <2>1. n \in Nat
    BY DEF Shaped
  <2>2. f \in Bijection(1 .. n, archive)
    BY DEF ArchiveAgrees, Bijection, Injection, Surjection, IsInjective
  <2>3. ExistsBijection(1 .. n, archive)
    BY <2>2 DEF ExistsBijection
  <2>4. IsFiniteSet(1 .. n) /\ Cardinality(1 .. n) = n
    <3> HIDE DEF n
    <3>1. 1 \in Int /\ n \in Int
      BY <2>1
    <3>2. IsFiniteSet(1 .. n) /\ Cardinality(1 .. n) = IF 1 > n THEN 0 ELSE n - 1 + 1
      BY <3>1, FS_Interval
    <3> QED BY <2>1, <3>2
  <2> HIDE DEF n, archive
  <2>5. Cardinality(archive) = n
    BY <2>3, <2>4, FS_Bijection
  <2> QED BY <2>5 DEF n
<1>3. join_handles \subseteq active_worker_ids /\ archive \cap active_worker_ids = {}
  BY DEF StagesAgree, Shaped, ArchiveAgrees
<1> QED BY <1>1, <1>2, <1>3 DEF Consistent, CountsAgree, ArchiveAgrees

LEMMA OthersKeep ==
  ASSUME Sound,
         \/ BeginShutdown
         \/ TakeSnapshot
         \/ \E x \in Waiters : Enter(x) \/ WaiterStep(x)
         \/ UNCHANGED vars
  PROVE  Sound'
<1> USE DEF Sound
<1>1. CASE BeginShutdown
  <2>1. JoinedWorkers' = JoinedWorkers
    BY <1>1 DEF BeginShutdown, JoinedWorkers, ids
  <2>2. Shaped' /\ StagesAgree'
    BY <1>1, <2>1 DEF BeginShutdown, Shaped, StagesAgree, counters, failures, ids, tasks, waiting
  <2>3. CountsAgree' /\ ArchiveAgrees' /\ DrainedStays'
    BY <1>1, <2>1 DEF BeginShutdown, CountsAgree, ArchiveAgrees, DrainedStays, counters, ids, waiting
  <2> QED BY <2>2, <2>3
<1>2. CASE TakeSnapshot \/ UNCHANGED vars
  <2>1. UNCHANGED <<phase, counters, ids, tasks, waiter, faulted>>
    BY <1>2, SoundIsConsistent DEF TakeSnapshot, vars, waiting
  <2>2. JoinedWorkers' = JoinedWorkers
    BY <2>1 DEF JoinedWorkers, ids
  <2> QED BY <2>1, <2>2 DEF Shaped, StagesAgree, CountsAgree, ArchiveAgrees, DrainedStays,
             counters, ids, tasks
<1>3. ASSUME NEW x \in Waiters, Enter(x) \/ WaiterStep(x) PROVE Sound'
  <2>1. /\ UNCHANGED <<phase, counters, ids, tasks, faulted>>
        /\ DOMAIN waiter' = DOMAIN waiter
    BY <1>3 DEF Enter, WaiterStep, Enable, Check, Wake, Wait
  <2>2. JoinedWorkers' = JoinedWorkers
    BY <2>1 DEF JoinedWorkers, ids
  <2>3. DrainedStays'
    BY <1>3 DEF DrainedStays, Shaped, StagesAgree, Enter, WaiterStep, Enable, Check, Wake, Wait,
       Answer, counters
  <2>4. Shaped' /\ StagesAgree' /\ CountsAgree' /\ ArchiveAgrees'
    BY <2>1, <2>2 DEF Shaped, StagesAgree, CountsAgree, ArchiveAgrees, counters, ids, tasks
  <2> QED BY <2>3, <2>4
<1> QED BY <1>1, <1>2, <1>3

LEMMA SoundInvariant == Spec => []Sound
<1>1. Sound /\ [Next]_vars => Sound'
  BY AdmitKeeps, SpawnKeeps, EndingKeeps, FinishKeeps, OthersKeep DEF Next
<1> QED BY <1>1, SoundInitially, PTL DEF Spec

(* Whatever the interleaving of spawning, ending, reaping and waiting, no  *)
(* legal use trips the supervisor's own fault detection.                   *)
THEOREM SupervisorNeverFaults == Spec => []NeverFaults
<1>1. Sound => NeverFaults
  BY DEF Sound, StagesAgree, NeverFaults
<1> QED BY <1>1, SoundInvariant, PTL

(* Who was told after admission closed that the supervisor is idle relies  *)
(* on it for ever: every worker admitted has been joined.                  *)
THEOREM DrainedIsDone == Spec => []DrainedMeansDone
<1>1. Sound => DrainedMeansDone
  <2> SUFFICES ASSUME Sound, NEW x \in Waiters, waiter[x] = "drained"
               PROVE  /\ active = 0 /\ join_handles = {}
                      /\ JoinedWorkers = 1 .. (next_worker_sequence - 1)
    BY DEF DrainedMeansDone
  <2>1. active = 0
    BY DEF Sound, DrainedStays
  <2>2. active_worker_ids = {}
    BY <2>1, ActiveIsFinite, FS_EmptySet DEF Sound, CountsAgree
  <2>3. join_handles = {}
    BY <2>2 DEF Sound, StagesAgree, Shaped
  <2>4. JoinedWorkers \subseteq Workers
    BY DEF Sound, Shaped, JoinedWorkers
  <2>5. \A w \in Workers : w \in JoinedWorkers <=> w < next_worker_sequence
    BY <2>2 DEF Sound, StagesAgree
  <2>6. next_worker_sequence \in 1 .. MaxSequence /\ MaxSequence \in Nat
    BY SupervisorAssumption DEF Sound, Shaped
  <2>7. ASSUME NEW v PROVE v \in JoinedWorkers <=> v \in 1 .. (next_worker_sequence - 1)
    <3>1. v \in 1 .. (next_worker_sequence - 1) <=> v \in Workers /\ v < next_worker_sequence
      BY <2>6 DEF Workers
    <3> QED BY <2>4, <2>5, <3>1
  <2> QED BY <2>1, <2>3, <2>7
<1> QED BY <1>1, SoundInvariant, PTL
-----------------------------------------------------------------------------
LEMMA OthersAreInvisible ==
  ASSUME Sound,
         \/ TakeSnapshot
         \/ \E w \in Workers : SpawnStep(w) \/ WorkerEnding(w)
         \/ \E x \in Waiters : Enter(x) \/ WaiterStep(x)
         \/ UNCHANGED vars
  PROVE  UNCHANGED Supervised!taskVars
<1>1. UNCHANGED <<active_worker_ids, phase, join_order>>
  BY DEF TakeSnapshot, SpawnStep, RetainJoinHandle, OpenGate, WorkerEnding, WorkerEnds,
         Enter, WaiterStep, Enable, Check, Wake, Wait, vars, counters, ids
<1>2. JoinedWorkers' = JoinedWorkers
  BY <1>1 DEF JoinedWorkers
<1>3. ASSUME NEW v \in JoinedWorkers PROVE worker'[v] = worker[v]
  <2>1. v \in Workers /\ worker[v] \in Outcomes /\ DOMAIN worker = Workers
    BY DEF Sound, Shaped, StagesAgree, JoinedWorkers
  <2>2. CASE \E w \in Workers : WorkerEnding(w)
    BY <2>1, <2>2 DEF WorkerEnding, WorkerEnds, Outcomes, FailureKinds
  <2>3. CASE UNCHANGED worker
    BY <2>3
  <2> QED BY <2>2, <2>3 DEF TakeSnapshot, SpawnStep, RetainJoinHandle, OpenGate, Enter,
         WaiterStep, Enable, Check, Wake, Wait, vars, tasks
<1>4. FailedWorkers' = FailedWorkers
  BY <1>2, <1>3 DEF FailedWorkers
<1> QED BY <1>1, <1>2, <1>4 DEF Supervised!taskVars

LEMMA AdmitIsAdmit ==
  ASSUME Sound, NEW w \in Workers, Admit(w)
  PROVE  Supervised!Admit(w)
<1>1. JoinedWorkers' = JoinedWorkers
  BY DEF Admit, JoinedWorkers
<1>2. w \notin active_worker_ids \cup JoinedWorkers
  BY WorkersAreNaturals DEF Sound, Admit, Shaped, StagesAgree
<1>3. ASSUME NEW v \in JoinedWorkers PROVE worker'[v] = worker[v]
  BY <1>2 DEF Sound, Shaped, StagesAgree, JoinedWorkers, Admit
<1>4. FailedWorkers' = FailedWorkers
  BY <1>1, <1>3 DEF FailedWorkers
<1> QED BY <1>1, <1>2, <1>4 DEF Supervised!Admit, Admit

LEMMA FinishIsJoin ==
  ASSUME Sound, NEW w \in Workers, Finish(w)
  PROVE  Supervised!Join(w)
<1>1. Accountable(w) /\ w \in active_worker_ids /\ w \notin JoinedWorkers
  BY ReapedIsAccountable DEF Finish
<1>2. JoinedWorkers' = JoinedWorkers \cup {w}
  BY OneMoreJoined DEF Sound, Finish, Shaped
<1>3. worker' = worker /\ phase' = phase /\ active_worker_ids' = active_worker_ids \ {w}
  BY <1>1 DEF Finish, tasks
<1>4. FailedWorkers' \in {FailedWorkers, FailedWorkers \cup {w}}
  BY <1>2, <1>3 DEF FailedWorkers
<1> QED BY <1>1, <1>2, <1>3, <1>4 DEF Supervised!Join

(* The supervisor implements the abstract set of supervised tasks: nothing *)
(* is admitted after the close or twice, a task is live until it is joined *)
(* and its failure is recorded by the step that joins it, never later.     *)
THEOREM SupervisorImplementsTasks == Spec => ImplementsSupervisedTasks
<1>1. Init => Supervised!Init
  BY DEF Init, Supervised!Init, JoinedWorkers, FailedWorkers
<1>2. Sound /\ [Next]_vars => [Supervised!Next]_(Supervised!taskVars)
  <2> SUFFICES ASSUME Sound, [Next]_vars
               PROVE  Supervised!Next \/ UNCHANGED Supervised!taskVars
    OBVIOUS
  <2>1. CASE BeginShutdown
    <3>1. JoinedWorkers' = JoinedWorkers
      BY <2>1 DEF BeginShutdown, JoinedWorkers, ids
    <3>2. FailedWorkers' = FailedWorkers
      BY <2>1, <3>1 DEF BeginShutdown, FailedWorkers, tasks
    <3>3. Supervised!Close
      BY <2>1, <3>1, <3>2 DEF BeginShutdown, Supervised!Close, ids
    <3> QED BY <3>3 DEF Supervised!Next
  <2>2. CASE \E w \in Workers : Admit(w)
    BY <2>2, AdmitIsAdmit DEF Supervised!Next
  <2>3. CASE \E w \in Workers : Finish(w)
    BY <2>3, FinishIsJoin DEF Supervised!Next
  <2> QED BY <2>1, <2>2, <2>3, OthersAreInvisible DEF Next
<1> QED BY <1>1, <1>2, SoundInvariant, PTL DEF Spec, ImplementsSupervisedTasks, Supervised!Spec
-----------------------------------------------------------------------------
Summarised ==
  /\ additional_failures \in Nat
  /\ first_failure = NoFailure => additional_failures = 0
  /\ FailureSummaryIsExact

(* What does not join a worker leaves the joined ones and their outcomes.  *)
LEMMA OnlyFinishSummarises ==
  ASSUME Sound, Summarised,
         \/ BeginShutdown
         \/ TakeSnapshot
         \/ \E w \in Workers : Admit(w) \/ SpawnStep(w) \/ WorkerEnding(w)
         \/ \E x \in Waiters : Enter(x) \/ WaiterStep(x)
         \/ UNCHANGED vars
  PROVE  Summarised'
<1>1. UNCHANGED <<first_failure, additional_failures, join_order>>
  BY DEF BeginShutdown, TakeSnapshot, Admit, SpawnStep, RetainJoinHandle, OpenGate,
         WorkerEnding, WorkerEnds, Enter, WaiterStep, Enable, Check, Wake, Wait, vars,
         ids, failures
<1>2. JoinedWorkers' = JoinedWorkers
  BY <1>1 DEF JoinedWorkers
<1>3. ASSUME NEW v \in JoinedWorkers PROVE worker'[v] = worker[v]
  <2>1. /\ v \in Workers /\ worker[v] \in Outcomes /\ DOMAIN worker = Workers
        /\ v < next_worker_sequence
    BY DEF Sound, Shaped, StagesAgree, JoinedWorkers
  <2>2. CASE \E w \in Workers : WorkerEnding(w)
    BY <2>1, <2>2 DEF WorkerEnding, WorkerEnds, Outcomes, FailureKinds
  <2>3. CASE \E w \in Workers : Admit(w)
    BY <2>1, <2>3, WorkersAreNaturals DEF Admit
  <2>4. CASE UNCHANGED worker
    BY <2>4
  <2> QED BY <2>2, <2>3, <2>4 DEF BeginShutdown, TakeSnapshot, SpawnStep, RetainJoinHandle,
         OpenGate, Enter, WaiterStep, Enable, Check, Wake, Wait, vars, tasks
<1>4. FailedWorkers' = FailedWorkers
  BY <1>2, <1>3 DEF FailedWorkers
<1>5. ASSUME NEW i \in 1 .. Len(join_order) PROVE worker'[join_order[i]] = worker[join_order[i]]
  BY <1>3 DEF JoinedWorkers
<1>6. first_failure # NoFailure =>
        \E i \in 1 .. Len(join_order) :
          /\ join_order[i] = first_failure.worker
          /\ first_failure.kind = worker'[join_order[i]]
          /\ \A j \in 1 .. (i - 1) : worker'[join_order[j]] = "Ok"
  <2> SUFFICES ASSUME first_failure # NoFailure
               PROVE  \E i \in 1 .. Len(join_order) :
                        /\ join_order[i] = first_failure.worker
                        /\ first_failure.kind = worker'[join_order[i]]
                        /\ \A j \in 1 .. (i - 1) : worker'[join_order[j]] = "Ok"
    OBVIOUS
  <2>1. PICK i \in 1 .. Len(join_order) :
          /\ join_order[i] = first_failure.worker
          /\ first_failure.kind = worker[join_order[i]]
          /\ \A j \in 1 .. (i - 1) : worker[join_order[j]] = "Ok"
    BY DEF Summarised, FailureSummaryIsExact
  <2>2. Len(join_order) \in Nat
    BY DEF Sound, Shaped
  <2>3. ASSUME NEW j \in 1 .. (i - 1) PROVE worker'[join_order[j]] = "Ok"
    BY <1>5, <2>1, <2>2
  <2> QED BY <1>5, <2>1, <2>3
<1> QED BY <1>1, <1>4, <1>6 DEF Summarised, FailureSummaryIsExact

LEMMA FinishSummarises ==
  ASSUME Sound, Summarised, NEW w \in Workers, Finish(w)
  PROVE  Summarised'
<1> DEFINE n == Len(join_order)
<1>1. Accountable(w) /\ w \notin JoinedWorkers
  BY ReapedIsAccountable DEF Finish
<1>2. RecordOutcome(w) /\ worker' = worker /\ join_order' = Append(join_order, w)
  BY <1>1 DEF Finish, tasks
<1>3. JoinedWorkers' = JoinedWorkers \cup {w}
  BY OneMoreJoined DEF Sound, Finish, Shaped
<1>4. worker[w] \in Outcomes
  BY DEF Finish, ReaperReady
<1>5. /\ n \in Nat /\ Len(join_order') = n + 1 /\ join_order'[n + 1] = w
      /\ \A i \in 1 .. n : join_order'[i] = join_order[i]
  BY <1>2 DEF Sound, Shaped
<1>6. IsFiniteSet(FailedWorkers) /\ w \notin FailedWorkers
  <2>1. FailedWorkers \subseteq Workers
    BY DEF Sound, Shaped, FailedWorkers, JoinedWorkers
  <2> QED BY <1>1, <2>1, WorkersAreNaturals, FS_Subset DEF FailedWorkers
<1>7. ASSUME first_failure # NoFailure
      PROVE  \E i \in 1 .. Len(join_order') :
               /\ join_order'[i] = first_failure.worker
               /\ first_failure.kind = worker'[join_order'[i]]
               /\ \A j \in 1 .. (i - 1) : worker'[join_order'[j]] = "Ok"
  <2>1. PICK i \in 1 .. n :
          /\ join_order[i] = first_failure.worker
          /\ first_failure.kind = worker[join_order[i]]
          /\ \A j \in 1 .. (i - 1) : worker[join_order[j]] = "Ok"
    BY <1>7 DEF Summarised, FailureSummaryIsExact
  <2>2. i \in 1 .. Len(join_order') /\ \A j \in 1 .. (i - 1) : j \in 1 .. n
    BY <1>5
  <2> HIDE DEF n
  <2> QED BY <1>2, <1>5, <2>1, <2>2
<1>8. CASE worker[w] = "Ok"
  <2>1. UNCHANGED <<first_failure, additional_failures>>
    BY <1>2, <1>8 DEF RecordOutcome, failures
  <2>2. FailedWorkers' = FailedWorkers
    BY <1>2, <1>3, <1>8 DEF FailedWorkers, FailureKinds
  <2> QED BY <1>7, <2>1, <2>2 DEF Summarised, FailureSummaryIsExact
<1>9. CASE worker[w] # "Ok"
  <2>1. worker[w] \in FailureKinds
    BY <1>4, <1>9 DEF Outcomes
  <2>2. FailedWorkers' = FailedWorkers \cup {w}
    BY <1>2, <1>3, <2>1 DEF FailedWorkers
  <2>3. Cardinality(FailedWorkers') = Cardinality(FailedWorkers) + 1
    BY <1>6, <2>2, FS_AddElement
  <2>4. CASE first_failure # NoFailure
    <3>1. first_failure' = first_failure /\ additional_failures' = additional_failures + 1
      BY <1>2, <1>9, <2>4 DEF RecordOutcome
    <3>2. Cardinality(FailedWorkers) = additional_failures + 1 /\ additional_failures \in Nat
      BY <2>4 DEF Summarised, FailureSummaryIsExact
    <3>3. Cardinality(FailedWorkers') = additional_failures' + 1 /\ additional_failures' \in Nat
      BY <2>3, <3>1, <3>2
    <3> QED BY <1>7, <2>4, <3>1, <3>3 DEF Summarised, FailureSummaryIsExact
  <2>5. CASE first_failure = NoFailure
    <3>1. /\ first_failure' = [worker |-> w, kind |-> worker[w]]
          /\ additional_failures' = additional_failures
      BY <1>2, <1>9, <2>5 DEF RecordOutcome
    <3>2. Cardinality(FailedWorkers) = 0 /\ additional_failures = 0
      BY <2>5 DEF Summarised, FailureSummaryIsExact
    <3>3. FailedWorkers = {}
      BY <1>6, <3>2, FS_EmptySet
    <3>4. ASSUME NEW j \in 1 .. n PROVE worker[join_order[j]] = "Ok"
      <4>1. join_order[j] \in JoinedWorkers
        BY DEF JoinedWorkers
      <4>2. worker[join_order[j]] \in Outcomes
        BY <4>1 DEF Sound, Shaped, StagesAgree, JoinedWorkers
      <4> QED BY <3>3, <4>1, <4>2 DEF FailedWorkers, Outcomes
    <3>5. \E i \in 1 .. Len(join_order') :
            /\ join_order'[i] = first_failure'.worker
            /\ first_failure'.kind = worker'[join_order'[i]]
            /\ \A j \in 1 .. (i - 1) : worker'[join_order'[j]] = "Ok"
      <4>1. n + 1 \in 1 .. Len(join_order') /\ \A j \in 1 .. (n + 1 - 1) : j \in 1 .. n
        BY <1>5
      <4> HIDE DEF n
      <4> QED BY <1>2, <1>5, <3>1, <3>4, <4>1
    <3>6. first_failure' # NoFailure
      BY <1>9, <3>1 DEF NoFailure
    <3>7. Cardinality(FailedWorkers') = additional_failures' + 1 /\ additional_failures' \in Nat
      BY <2>3, <3>1, <3>2
    <3> QED BY <3>5, <3>6, <3>7 DEF Summarised, FailureSummaryIsExact
  <2> QED BY <2>4, <2>5
<1> QED BY <1>8, <1>9

(* The failure summary is exact, however many workers fail in whatever     *)
(* order: it counts the joined workers that failed, and `first` is the     *)
(* first of them joined.                                                   *)
THEOREM SummaryIsExact == Spec => []FailureSummaryIsExact
<1>1. Init => Summarised
  <2> SUFFICES ASSUME Init PROVE Summarised
    OBVIOUS
  <2>1. FailedWorkers = {} /\ first_failure = NoFailure /\ additional_failures = 0
    BY DEF Init, FailedWorkers, JoinedWorkers
  <2> QED BY <2>1, FS_EmptySet DEF Summarised, FailureSummaryIsExact
<1>2. Sound /\ Summarised /\ [Next]_vars => Summarised'
  BY OnlyFinishSummarises, FinishSummarises DEF Next
<1>3. Summarised => FailureSummaryIsExact
  BY DEF Summarised
<1> QED BY <1>1, <1>2, <1>3, SoundInvariant, PTL DEF Spec
-----------------------------------------------------------------------------
(* Who has looked at the count, or sleeps after it, has an enabled future. *)
WaitersListen ==
  \A x \in Waiters : waiter[x] \in {"checking", "sleeping"} => x \in enabled

LEMMA OnlyFinishLowers ==
  ASSUME Sound, [Next]_vars
  PROVE  \/ /\ UNCHANGED <<waiting, faulted>>
            /\ active > 0 => active' > 0
         \/ \E w \in Workers : Finish(w)
         \/ /\ \E x \in Waiters : Enter(x) \/ WaiterStep(x)
            /\ UNCHANGED <<active, phase, faulted>>
<1> USE DEF counters, waiting
<1>1. CASE \E w \in Workers : Admit(w)
  BY <1>1 DEF Admit, Sound, Shaped
<1>2. ASSUME NEW w \in Workers, SpawnStep(w) \/ WorkerEnding(w)
      PROVE  UNCHANGED <<waiting, faulted, active>>
  <2>1. CASE RetainJoinHandle(w)
    <3>1. w \notin join_handles
      BY <2>1 DEF RetainJoinHandle, Sound, StagesAgree
    <3> QED BY <2>1, <3>1 DEF RetainJoinHandle
  <2>2. CASE OpenGate(w) \/ WorkerEnding(w)
    BY <2>2 DEF OpenGate, WorkerEnding, WorkerEnds
  <2> QED BY <1>2, <2>1, <2>2 DEF SpawnStep
<1>3. CASE BeginShutdown \/ TakeSnapshot \/ UNCHANGED vars
  BY <1>3, SoundIsConsistent DEF BeginShutdown, TakeSnapshot, vars
<1>4. CASE \E x \in Waiters : Enter(x) \/ WaiterStep(x)
  <2>1. UNCHANGED <<active, phase, faulted>>
    BY <1>4 DEF Enter, WaiterStep, Enable, Check, Wake, Wait
  <2> QED BY <1>4, <2>1
<1> QED BY <1>1, <1>2, <1>3, <1>4 DEF Next

LEMMA WaitersKeep ==
  ASSUME Sound, WaitersListen, NoWakeupIsMissed, [Next]_vars
  PROVE  WaitersListen' /\ NoWakeupIsMissed'
<1> USE DEF WaitersListen, NoWakeupIsMissed
<1>1. CASE UNCHANGED <<waiting, faulted>> /\ (active > 0 => active' > 0)
  BY <1>1 DEF waiting
<1>2. ASSUME NEW w \in Workers, Finish(w) PROVE WaitersListen' /\ NoWakeupIsMissed'
  <2>1. Accountable(w) /\ active > 0 /\ active \in Nat
    BY <1>2, ReapedIsAccountable DEF Finish, Accountable, Sound, Shaped
  <2>2. /\ active' = active - 1
        /\ IF active = 1 THEN NotifyWaiters ELSE UNCHANGED woken
        /\ UNCHANGED <<faulted, waiter, enabled>>
    BY <1>2, <2>1 DEF Finish
  <2> QED BY <2>1, <2>2 DEF NotifyWaiters
<1>3. ASSUME NEW x \in Waiters, Enter(x) \/ WaiterStep(x), UNCHANGED <<active, phase, faulted>>
      PROVE  WaitersListen' /\ NoWakeupIsMissed'
  <2> USE DEF Sound, Shaped, StagesAgree
  <2>1. CASE Enter(x)
    BY <1>3, <2>1 DEF Enter, Wait
  <2>2. CASE Enable(x)
    BY <1>3, <2>2 DEF Enable, Wait
  <2>3. CASE Check(x)
    BY <1>3, <2>3 DEF Check, Wait, Answer
  <2>4. CASE Wake(x)
    BY <1>3, <2>4 DEF Wake, Wait
  <2> QED BY <1>3, <2>1, <2>2, <2>3, <2>4 DEF WaiterStep
<1> QED BY <1>1, <1>2, <1>3, OnlyFinishLowers

(* However checks, sleeps and the last join interleave, nobody sleeps in   *)
(* wait_for_idle who was not notified and has no worker left to wait for.  *)
THEOREM WaitersMissNothing == Spec => []NoWakeupIsMissed
<1>1. Init => WaitersListen /\ NoWakeupIsMissed
  BY DEF Init, WaitersListen, NoWakeupIsMissed
<1>2. Sound /\ WaitersListen /\ NoWakeupIsMissed /\ [Next]_vars
        => WaitersListen' /\ NoWakeupIsMissed'
  BY WaitersKeep
<1> QED BY <1>1, <1>2, SoundInvariant, PTL DEF Spec
=============================================================================
