---------------------- MODULE OperationRegistryProofs ----------------------
(***************************************************************************)
(* Theorems about the operation registry, for every set of ids, every      *)
(* bound of the two sequences and every progress capacity; last, that it   *)
(* implements the ledger of operations.                                    *)
(***************************************************************************)
EXTENDS OperationRegistry, TLAPS

(* Generations are numbered from 1 and the issued ones are those below the *)
(* next sequence, so the next sequence itself is fresh while it fits.      *)
LEMMA IssuedAreGens ==
  ASSUME TypeOK
  PROVE  /\ Issued = 1 .. (next_sequence - 1)
         /\ Issued \subseteq Gens
         /\ next_sequence \notin Issued
         /\ next_sequence < MaxSequence => next_sequence \in Gens
BY RegistryAssumption DEF TypeOK, Issued, Gens

(* What a lease that still holds its record knows about it.                *)
LEMMA HeldTyped ==
  ASSUME TypeOK, NEW g \in Issued, Holds(g)
  PROVE  /\ RecordOf(g) \in OperationRecord
         /\ g \in Gens
         /\ leases[g] \in OpIds
         /\ leases[g] \in DOMAIN operations
BY IssuedAreGens DEF TypeOK, Holds, RecordOf, Issued

(* Store keeps the registry well typed when the new record is.             *)
LEMMA StoreTyped ==
  ASSUME TypeOK, NEW g \in Issued, Holds(g), NEW record \in OperationRecord,
         Store(g, record)
  PROVE  /\ DOMAIN operations' = DOMAIN operations
         /\ \A id \in DOMAIN operations' : operations'[id] \in OperationRecord
BY DEF TypeOK, Holds, Store

LEMMA SnapshotTyped ==
  ASSUME NEW record \in OperationRecord
  PROVE  Snapshot(record) \in OperationSnapshot
BY DEF OperationRecord, OperationSnapshot, Snapshot

(* Retire keeps the registry well typed when the last record is.           *)
LEMMA RetireTyped ==
  ASSUME TypeOK, NEW g \in Issued, Holds(g), NEW record \in OperationRecord,
         Retire(g, record)
  PROVE  /\ DOMAIN operations' \subseteq DOMAIN operations
         /\ \A id \in DOMAIN operations' : operations'[id] \in OperationRecord
         /\ DOMAIN released' \subseteq Gens
         /\ \A h \in DOMAIN released' : released'[h] \in OperationSnapshot
<1> DEFINE last == [record EXCEPT !.phase = "Released"]
<1>1. last \in OperationRecord
  BY DEF OperationRecord, OperationPhase
<1>2. Snapshot(last) \in OperationSnapshot
  BY <1>1, SnapshotTyped
<1>3. g \in Gens
  BY HeldTyped
<1> QED
  BY <1>2, <1>3 DEF Retire, TypeOK

LEMMA FreshRecordTyped ==
  ASSUME NEW g \in Gens
  PROVE  NewRecord(g) \in OperationRecord
<1>1. 1 \in 1 .. MaxAttemptSequence
  BY RegistryAssumption
<1> QED
  BY <1>1 DEF NewRecord, OperationRecord, OperationPhase, TerminalClass

(* The progress queue stays a sequence of progress numbers.                *)
LEMMA PushTyped ==
  ASSUME NEW queue \in Seq(ProgressValues), NEW value \in ProgressValues
  PROVE  Push(queue, value) \in Seq(ProgressValues)
<1>1. CASE ProgressCapacity = 0
  BY <1>1 DEF Push
<1>2. CASE ProgressCapacity # 0 /\ Len(queue) = ProgressCapacity
  <2>1. Tail(queue) \in Seq(ProgressValues)
    BY <1>2, RegistryAssumption
  <2> QED
    BY <1>2, <2>1 DEF Push
<1>3. CASE ProgressCapacity # 0 /\ Len(queue) # ProgressCapacity
  BY <1>3 DEF Push
<1> QED
  BY <1>1, <1>2, <1>3

(* A step that stores a well-typed record for one of its generations and   *)
(* leaves the sequence, the leases and the released slots alone.           *)
LEMMA StoreKeepsType ==
  ASSUME TypeOK, NEW g \in Issued, Holds(g), NEW record \in OperationRecord,
         Store(g, record),
         UNCHANGED <<next_sequence, leases, released>>,
         armed' \subseteq Issued,
         attempt_leases' \subseteq Gens \X AttemptNumbers,
         asked' \subseteq Gens,
         published' \in [Gens -> Seq(ProgressValues)]
  PROVE  TypeOK'
<1>1. /\ DOMAIN operations' = DOMAIN operations
      /\ \A id \in DOMAIN operations' : operations'[id] \in OperationRecord
  BY StoreTyped
<1> QED
  BY <1>1 DEF TypeOK, Issued

(* A step that retires a generation with a well-typed last record.         *)
LEMMA RetireKeepsType ==
  ASSUME TypeOK, NEW g \in Issued, Holds(g), NEW record \in OperationRecord,
         Retire(g, record),
         UNCHANGED <<next_sequence, leases, armed, asked, published>>,
         attempt_leases' \subseteq attempt_leases
  PROVE  TypeOK'
<1>1. /\ DOMAIN operations' \subseteq DOMAIN operations
      /\ \A id \in DOMAIN operations' : operations'[id] \in OperationRecord
      /\ DOMAIN released' \subseteq Gens
      /\ \A h \in DOMAIN released' : released'[h] \in OperationSnapshot
  BY RetireTyped
<1> QED
  BY <1>1 DEF TypeOK, Issued

LEMMA InitTyped == Init => TypeOK
<1> SUFFICES ASSUME Init PROVE TypeOK
  OBVIOUS
<1>1. 1 \in 1 .. MaxSequence
  BY RegistryAssumption
<1>2. leases \in [1 .. (next_sequence - 1) -> OpIds]
  BY DEF Init
<1>3. published \in [Gens -> Seq(ProgressValues)]
  BY DEF Init
<1> QED
  BY <1>1, <1>2, <1>3 DEF Init, TypeOK, Issued

LEMMA ReserveTyped ==
  ASSUME TypeOK, NEW id \in OpIds, Reserve(id)
  PROVE  TypeOK'
<1>1. next_sequence \in Gens /\ next_sequence' \in 1 .. MaxSequence
  BY IssuedAreGens, RegistryAssumption DEF TypeOK, Reserve
<1>2. NewRecord(next_sequence) \in OperationRecord
  BY <1>1, FreshRecordTyped
<1>3. /\ DOMAIN operations' \subseteq OpIds
      /\ \A x \in DOMAIN operations' : operations'[x] \in OperationRecord
  BY <1>2 DEF TypeOK, Reserve
<1>4. leases' \in [1 .. (next_sequence' - 1) -> OpIds]
  BY <1>1 DEF TypeOK, Reserve, Issued
<1>5. armed' \subseteq Issued'
  BY DEF TypeOK, Reserve, Issued
<1> QED
  BY <1>1, <1>3, <1>4, <1>5 DEF TypeOK, Reserve

LEMMA RequestCancelAllTyped ==
  ASSUME TypeOK, RequestCancelAll
  PROVE  TypeOK'
<1>1. \A id \in DOMAIN operations' : operations'[id] \in OperationRecord
  BY DEF TypeOK, RequestCancelAll, OperationRecord
<1>2. asked' \subseteq Gens
  BY DEF TypeOK, RequestCancelAll, OperationRecord
<1> QED
  BY <1>1, <1>2 DEF TypeOK, RequestCancelAll, Issued

LEMMA TransitionTyped ==
  ASSUME TypeOK, NEW g \in Issued, NEW expected, NEW next \in OperationPhase,
         Transition(g, expected, next)
  PROVE  TypeOK'
<1>1. Holds(g) /\ RecordOf(g) \in OperationRecord
  BY HeldTyped DEF Transition
<1>2. [RecordOf(g) EXCEPT !.phase = next] \in OperationRecord
  BY <1>1 DEF OperationRecord
<1> QED
  BY <1>1, <1>2, StoreKeepsType DEF Transition, TypeOK

LEMMA TerminalTyped ==
  ASSUME TypeOK, NEW g \in Issued, NEW class \in TerminalClass, Terminal(g, class)
  PROVE  TypeOK'
<1>1. Holds(g) /\ RecordOf(g) \in OperationRecord
  BY HeldTyped DEF Terminal
<1>2. [RecordOf(g) EXCEPT !.terminal = class, !.phase = "Terminal"] \in OperationRecord
  BY <1>1 DEF OperationRecord, OperationPhase
<1> QED
  BY <1>1, <1>2, StoreKeepsType DEF Terminal, TypeOK

LEMMA ReleaseTyped ==
  ASSUME TypeOK, NEW g \in Issued, Release(g)
  PROVE  TypeOK'
<1>1. Holds(g) /\ RecordOf(g) \in OperationRecord
  BY HeldTyped DEF Release
<1> QED
  BY <1>1, RetireKeepsType DEF Release

LEMMA FinishAttemptAndReleaseTyped ==
  ASSUME TypeOK, NEW g \in Issued, NEW a, NEW class \in TerminalClass,
         FinishAttemptAndRelease(g, a, class)
  PROVE  TypeOK'
<1>1. Holds(g) /\ RecordOf(g) \in OperationRecord
  BY HeldTyped DEF FinishAttemptAndRelease
<1>2. [RecordOf(g) EXCEPT !.attempts = {}, !.terminal = class] \in OperationRecord
  BY <1>1 DEF OperationRecord
<1> QED
  BY <1>1, <1>2, RetireKeepsType DEF FinishAttemptAndRelease

LEMMA FailSetupAndReleaseTyped ==
  ASSUME TypeOK, NEW g \in Issued, FailSetupAndRelease(g)
  PROVE  TypeOK'
<1>1. Holds(g) /\ RecordOf(g) \in OperationRecord
  BY HeldTyped DEF FailSetupAndRelease
<1>2. [RecordOf(g) EXCEPT !.attempts = {}, !.terminal = "Failed"] \in OperationRecord
  BY <1>1 DEF OperationRecord, TerminalClass
<1> QED
  BY <1>1, <1>2, RetireKeepsType DEF FailSetupAndRelease

LEMMA CancelledRecordTyped ==
  ASSUME NEW record \in OperationRecord
  PROVE  [record EXCEPT !.cancellation_requested = TRUE] \in OperationRecord
BY DEF OperationRecord

LEMMA RequestCancelTyped ==
  ASSUME TypeOK, NEW g \in Issued, RequestCancel(g)
  PROVE  TypeOK'
<1>1. Holds(g) /\ RecordOf(g) \in OperationRecord /\ g \in Gens
  BY HeldTyped DEF RequestCancel
<1> QED
  BY <1>1, CancelledRecordTyped, StoreKeepsType DEF RequestCancel, MarkCancelled, TypeOK

LEMMA ConsumerDropTyped ==
  ASSUME TypeOK, NEW g \in Issued, ConsumerDrop(g)
  PROVE  TypeOK'
<1>1. CASE Holds(g)
  <2>1. RecordOf(g) \in OperationRecord /\ g \in Gens
    BY <1>1, HeldTyped
  <2> QED
    BY <1>1, <2>1, CancelledRecordTyped, StoreKeepsType DEF ConsumerDrop, MarkCancelled, TypeOK
<1>2. CASE ~Holds(g)
  BY <1>2 DEF ConsumerDrop, TypeOK, Issued
<1> QED
  BY <1>1, <1>2

LEMMA PublishProgressTyped ==
  ASSUME TypeOK, NEW g \in Issued, NEW value \in ProgressValues, PublishProgress(g, value)
  PROVE  TypeOK'
<1>1. Holds(g) /\ RecordOf(g) \in OperationRecord /\ g \in Gens
  BY HeldTyped DEF PublishProgress
<1>2. Push(RecordOf(g).progress, value) \in Seq(ProgressValues)
  BY <1>1, PushTyped DEF OperationRecord
<1>3. [RecordOf(g) EXCEPT !.progress = Push(@, value)] \in OperationRecord
  BY <1>1, <1>2 DEF OperationRecord
<1>4. published' \in [Gens -> Seq(ProgressValues)]
  BY <1>1 DEF PublishProgress, TypeOK
<1> QED
  BY <1>1, <1>3, <1>4, StoreKeepsType DEF PublishProgress, TypeOK

LEMMA StartAttemptTyped ==
  ASSUME TypeOK, NEW g \in Issued, StartAttempt(g)
  PROVE  TypeOK'
<1> DEFINE a == RecordOf(g).next_attempt_sequence
<1>1. Holds(g) /\ RecordOf(g) \in OperationRecord /\ g \in Gens
  BY HeldTyped DEF StartAttempt
<1>2. a \in AttemptNumbers /\ a + 1 \in 1 .. MaxAttemptSequence
  BY <1>1, RegistryAssumption DEF StartAttempt, OperationRecord, AttemptNumbers
<1>3. [RecordOf(g) EXCEPT !.next_attempt_sequence = a + 1,
                          !.attempts = @ \cup {a}] \in OperationRecord
  BY <1>1, <1>2 DEF OperationRecord
<1> QED
  BY <1>1, <1>2, <1>3, StoreKeepsType DEF StartAttempt, TypeOK

LEMMA AttemptFinishTyped ==
  ASSUME TypeOK, NEW g \in Issued, NEW a, AttemptFinish(g, a)
  PROVE  TypeOK'
<1>1. CASE Holds(g)
  <2>1. RecordOf(g) \in OperationRecord
    BY <1>1, HeldTyped
  <2>2. [RecordOf(g) EXCEPT !.attempts = @ \ {a}] \in OperationRecord
    BY <2>1 DEF OperationRecord
  <2> QED
    BY <1>1, <2>2, StoreKeepsType DEF AttemptFinish, TypeOK
<1>2. CASE ~Holds(g)
  BY <1>2 DEF AttemptFinish, TypeOK, Issued
<1> QED
  BY <1>1, <1>2

LEMMA NextTyped == TypeOK /\ [Next]_vars => TypeOK'
<1> SUFFICES ASSUME TypeOK, [Next]_vars PROVE TypeOK'
  OBVIOUS
<1>1. ASSUME NEW id \in OpIds, Reserve(id) PROVE TypeOK'
  BY <1>1, ReserveTyped
<1>2. CASE RequestCancelAll
  BY <1>2, RequestCancelAllTyped
<1>3. ASSUME NEW g \in Issued, LeaseStep(g) PROVE TypeOK'
  <2>1. CASE Queue(g) \/ Start(g)
    BY <2>1, TransitionTyped DEF Queue, Start, OperationPhase
  <2>2. CASE Release(g) \/ FailSetupAndRelease(g)
    BY <2>2, ReleaseTyped, FailSetupAndReleaseTyped
  <2>3. CASE \E class \in TerminalClass : Terminal(g, class)
    BY <2>3, TerminalTyped
  <2>4. CASE \E value \in ProgressValues : PublishProgress(g, value)
    BY <2>4, PublishProgressTyped
  <2>5. CASE RequestCancel(g) \/ StartAttempt(g)
    BY <2>5, RequestCancelTyped, StartAttemptTyped
  <2> QED
    BY <1>3, <2>1, <2>2, <2>3, <2>4, <2>5 DEF LeaseStep
<1>4. ASSUME NEW g \in Issued, NEW a \in AttemptNumbers, AttemptStep(g, a) PROVE TypeOK'
  BY <1>4, FinishAttemptAndReleaseTyped, AttemptFinishTyped DEF AttemptStep
<1>5. ASSUME NEW g \in armed, GuardStep(g) PROVE TypeOK'
  <2>1. g \in Issued
    BY DEF TypeOK
  <2>2. CASE ConsumerDrop(g)
    BY <2>1, <2>2, ConsumerDropTyped
  <2>3. CASE ConsumerDisarm(g)
    BY <2>3 DEF ConsumerDisarm, TypeOK, Issued
  <2> QED
    BY <1>5, <2>2, <2>3 DEF GuardStep
<1>6. CASE UNCHANGED vars
  BY <1>6 DEF vars, TypeOK, Issued
<1> QED
  BY <1>1, <1>2, <1>3, <1>4, <1>5, <1>6 DEF Next

(* Every reachable state of the registry has the shape the code's types    *)
(* give it; no sequence leaves its range and no record is malformed.       *)
THEOREM TypeCorrect == Spec => []TypeOK
<1>1. Init => TypeOK
  BY InitTyped
<1>2. TypeOK /\ [Next]_vars => TypeOK'
  BY NextTyped
<1> QED
  BY <1>1, <1>2, PTL DEF Spec

---------------------------------------------------------------------------
(* Three kinds of step, as the identities see them: the registry stores a  *)
(* record under the identity it already had, opens a fresh generation, or  *)
(* retires a generation that was live.                                     *)

IdentitiesKept ==
  /\ UNCHANGED <<leases, released>>
  /\ DOMAIN operations' = DOMAIN operations
  /\ \A id \in DOMAIN operations : operations'[id].identity = operations[id].identity

Opened(id) ==
  /\ id \notin DOMAIN operations
  /\ next_sequence < MaxSequence
  /\ leases' = [g \in Issued \cup {next_sequence} |->
                  IF g = next_sequence THEN id ELSE leases[g]]
  /\ DOMAIN operations' = DOMAIN operations \cup {id}
  /\ operations'[id].identity = next_sequence
  /\ \A x \in DOMAIN operations : operations'[x] = operations[x]
  /\ UNCHANGED released

Retired(g) ==
  /\ Holds(g)
  /\ UNCHANGED leases
  /\ DOMAIN operations' = DOMAIN operations \ {leases[g]}
  /\ \A id \in DOMAIN operations' : operations'[id] = operations[id]
  /\ DOMAIN released' = DOMAIN released \cup {g}
  /\ \A h \in DOMAIN released \ {g} : released'[h] = released[h]

LEMMA StoreKeepsIdentities ==
  ASSUME TypeOK, NEW g \in Issued, Holds(g), NEW record, record.identity = g,
         Store(g, record), UNCHANGED <<leases, released>>
  PROVE  IdentitiesKept
BY DEF Store, Holds, IdentitiesKept

LEMMA RetireRetires ==
  ASSUME NEW g \in Issued, Holds(g), NEW record, Retire(g, record), UNCHANGED leases
  PROVE  Retired(g)
BY DEF Retire, Retired

LEMMA LeaseStepKind ==
  ASSUME TypeOK, NEW g \in Issued, LeaseStep(g)
  PROVE  IdentitiesKept \/ Retired(g)
<1>1. ASSUME Holds(g)
      PROVE  RecordOf(g) \in OperationRecord /\ RecordOf(g).identity = g
  BY <1>1, HeldTyped DEF Holds, RecordOf
<1>2. ASSUME NEW expected, NEW next, Transition(g, expected, next)
      PROVE  IdentitiesKept
  <2>1. [RecordOf(g) EXCEPT !.phase = next].identity = g
    BY <1>1, <1>2 DEF Transition, OperationRecord
  <2> QED
    BY <1>2, <2>1, StoreKeepsIdentities DEF Transition
<1>3. ASSUME NEW class, Terminal(g, class) PROVE IdentitiesKept
  <2>1. [RecordOf(g) EXCEPT !.terminal = class, !.phase = "Terminal"].identity = g
    BY <1>1, <1>3 DEF Terminal, OperationRecord
  <2> QED
    BY <1>3, <2>1, StoreKeepsIdentities DEF Terminal
<1>4. CASE Release(g) \/ FailSetupAndRelease(g)
  BY <1>4, RetireRetires DEF Release, FailSetupAndRelease
<1>5. CASE RequestCancel(g)
  <2>1. [RecordOf(g) EXCEPT !.cancellation_requested = TRUE].identity = g
    BY <1>1, <1>5 DEF RequestCancel, OperationRecord
  <2> QED
    BY <1>5, <2>1, StoreKeepsIdentities DEF RequestCancel, MarkCancelled
<1>6. ASSUME NEW value, PublishProgress(g, value) PROVE IdentitiesKept
  <2>1. [RecordOf(g) EXCEPT !.progress = Push(@, value)].identity = g
    BY <1>1, <1>6 DEF PublishProgress, OperationRecord
  <2> QED
    BY <1>6, <2>1, StoreKeepsIdentities DEF PublishProgress
<1>7. CASE StartAttempt(g)
  <2> DEFINE a == RecordOf(g).next_attempt_sequence
  <2>1. [RecordOf(g) EXCEPT !.next_attempt_sequence = a + 1,
                            !.attempts = @ \cup {a}].identity = g
    BY <1>1, <1>7 DEF StartAttempt, OperationRecord
  <2> QED
    BY <1>7, <2>1, StoreKeepsIdentities DEF StartAttempt
<1> QED
  BY <1>2, <1>3, <1>4, <1>5, <1>6, <1>7 DEF LeaseStep, Queue, Start

LEMMA StepKinds ==
  ASSUME TypeOK, [Next]_vars
  PROVE  \/ IdentitiesKept
         \/ \E id \in OpIds : Opened(id)
         \/ \E g \in Issued : Retired(g)
<1>1. ASSUME NEW id \in OpIds, Reserve(id) PROVE Opened(id)
  BY <1>1 DEF Reserve, Opened, NewRecord
<1>2. CASE RequestCancelAll
  BY <1>2 DEF RequestCancelAll, IdentitiesKept, TypeOK, OperationRecord
<1>3. ASSUME NEW g \in Issued, LeaseStep(g) PROVE IdentitiesKept \/ Retired(g)
  BY <1>3, LeaseStepKind
<1>4. ASSUME NEW g \in Issued, NEW a \in AttemptNumbers, AttemptStep(g, a)
      PROVE  IdentitiesKept \/ Retired(g)
  <2>1. ASSUME NEW class, FinishAttemptAndRelease(g, a, class) PROVE Retired(g)
    BY <2>1, RetireRetires DEF FinishAttemptAndRelease
  <2>2. CASE AttemptFinish(g, a) /\ Holds(g)
    <3>1. [RecordOf(g) EXCEPT !.attempts = @ \ {a}].identity = g
      BY <2>2, HeldTyped DEF Holds, RecordOf, OperationRecord
    <3> QED
      BY <2>2, <3>1, StoreKeepsIdentities DEF AttemptFinish
  <2>3. CASE AttemptFinish(g, a) /\ ~Holds(g)
    BY <2>3 DEF AttemptFinish, IdentitiesKept
  <2> QED
    BY <1>4, <2>1, <2>2, <2>3 DEF AttemptStep
<1>5. ASSUME NEW g \in armed, GuardStep(g) PROVE IdentitiesKept
  <2>1. g \in Issued
    BY DEF TypeOK
  <2>2. CASE ConsumerDrop(g) /\ Holds(g)
    <3>1. [RecordOf(g) EXCEPT !.cancellation_requested = TRUE].identity = g
      BY <2>1, <2>2, HeldTyped DEF Holds, RecordOf, OperationRecord
    <3> QED
      BY <2>1, <2>2, <3>1, StoreKeepsIdentities DEF ConsumerDrop, MarkCancelled
  <2>3. CASE (ConsumerDrop(g) /\ ~Holds(g)) \/ ConsumerDisarm(g)
    BY <2>3 DEF ConsumerDrop, ConsumerDisarm, IdentitiesKept
  <2> QED
    BY <1>5, <2>2, <2>3 DEF GuardStep
<1>6. CASE UNCHANGED vars
  BY <1>6 DEF vars, IdentitiesKept
<1> QED
  BY <1>1, <1>2, <1>3, <1>4, <1>5, <1>6 DEF Next

(* What each kind of step does to the generations that hold a record.      *)
LEMMA HoldsKept ==
  ASSUME IdentitiesKept, NEW h \in Issued
  PROVE  Holds(h)' <=> Holds(h)
BY DEF IdentitiesKept, Holds

LEMMA HoldsOpened ==
  ASSUME TypeOK, NEW id \in OpIds, Opened(id), NEW h \in Issued'
  PROVE  /\ Issued' = Issued \cup {next_sequence}
         /\ h = next_sequence => Holds(h)'
         /\ h # next_sequence => (Holds(h)' <=> Holds(h))
BY IssuedAreGens DEF TypeOK, Opened, Holds, Issued

LEMMA HoldsRetired ==
  ASSUME NEW g \in Issued, Retired(g), NEW h \in Issued
  PROVE  /\ ~Holds(g)'
         /\ h # g => (Holds(h)' <=> Holds(h))
BY DEF Retired, Holds

LEMMA OneFateStep == TypeOK /\ OneFate /\ [Next]_vars => OneFate'
<1> SUFFICES ASSUME TypeOK, OneFate, [Next]_vars PROVE OneFate'
  OBVIOUS
<1>1. CASE IdentitiesKept
  <2>1. Issued' = Issued
    BY <1>1 DEF IdentitiesKept, Issued
  <2> QED
    BY <1>1, <2>1, HoldsKept DEF OneFate, IdentitiesKept
<1>2. ASSUME NEW id \in OpIds, Opened(id) PROVE OneFate'
  <2>1. Issued' = Issued \cup {next_sequence}
    BY <1>2 DEF Opened, Issued
  <2>2. next_sequence \notin Issued /\ next_sequence \notin DOMAIN released
    BY IssuedAreGens DEF OneFate
  <2>3. \A h \in Issued' : Holds(h)' <=> h \notin DOMAIN released'
    BY <1>2, <2>1, <2>2, HoldsOpened DEF OneFate, Opened
  <2>4. \A x \in DOMAIN operations' :
          operations'[x].identity \in Issued' /\ leases'[operations'[x].identity] = x
    BY <1>2, <2>1, <2>2 DEF OneFate, Opened
  <2> QED
    BY <1>2, <2>1, <2>3, <2>4 DEF OneFate, Opened
<1>3. ASSUME NEW g \in Issued, Retired(g) PROVE OneFate'
  <2>1. Issued' = Issued
    BY <1>3 DEF Retired, Issued
  <2>2. \A h \in Issued' : Holds(h)' <=> h \notin DOMAIN released'
    BY <1>3, <2>1, HoldsRetired DEF OneFate, Retired
  <2> QED
    BY <1>3, <2>1, <2>2 DEF OneFate, Retired
<1> QED
  BY <1>1, <1>2, <1>3, StepKinds

(* Every generation ever issued is either live under its id or released,   *)
(* for any number of ids, generations and holders of stale leases.         *)
THEOREM EveryGenerationHasOneFate == Spec => []OneFate
<1>1. Init => OneFate
  BY DEF Init, OneFate, Issued
<1>2. TypeOK /\ OneFate /\ [Next]_vars => OneFate'
  BY OneFateStep
<1> QED
  BY <1>1, <1>2, TypeCorrect, PTL DEF Spec

(* What a released slot says never changes, whoever still holds leases,    *)
(* attempts or guards of the generation or of the next admission of its id.*)
THEOREM ReleasedSlotsAreFinal == Spec => ReleasedNeverChanges
<1> DEFINE Kept == \A g \in DOMAIN released : g \in DOMAIN released' /\ released'[g] = released[g]
<1>1. TypeOK /\ OneFate /\ [Next]_vars => [Kept]_vars
  <2> SUFFICES ASSUME TypeOK, OneFate, [Next]_vars PROVE Kept
    OBVIOUS
  <2>1. CASE IdentitiesKept \/ \E id \in OpIds : Opened(id)
    BY <2>1 DEF IdentitiesKept, Opened
  <2>2. ASSUME NEW g \in Issued, Retired(g) PROVE Kept
    <3>1. g \notin DOMAIN released
      BY <2>2 DEF Retired, OneFate
    <3> QED
      BY <2>2, <3>1 DEF Retired
  <2> QED
    BY <2>1, <2>2, StepKinds
<1> QED
  BY <1>1, TypeCorrect, EveryGenerationHasOneFate, PTL DEF Spec, ReleasedNeverChanges

---------------------------------------------------------------------------
(* Cancellation marks and attempts stay with their own generation.  Neither*)
(* invariant is inductive alone: a fresh generation must not find a mark or*)
(* an attempt lease made before it existed.                                *)

Traced ==
  /\ CancelReachesOnlyItsGeneration
  /\ AttemptsBelongToTheirLeases
  /\ asked \subseteq Issued
  /\ attempt_leases \subseteq Issued \X AttemptNumbers

AttemptsUnder(g) == {a \in AttemptNumbers : <<g, a>> \in attempt_leases}

(* The identity under an id determines the id, so a step on one generation *)
(* leaves the records of all the others as they were.                      *)
LEMMA OthersUntouched ==
  ASSUME OneFate, NEW g \in Issued, Holds(g), NEW id \in DOMAIN operations
  PROVE  operations[id].identity = g <=> id = leases[g]
BY DEF OneFate, Holds

LEMMA HeldTraced ==
  ASSUME Traced, NEW g \in Issued, Holds(g)
  PROVE  /\ RecordOf(g).cancellation_requested <=> g \in asked
         /\ RecordOf(g).attempts = AttemptsUnder(g)
         /\ RecordOf(g).identity = g
BY DEF Traced, Holds, RecordOf, CancelReachesOnlyItsGeneration,
       AttemptsBelongToTheirLeases, AttemptsUnder

LEMMA StoreTraced ==
  ASSUME TypeOK, OneFate, Traced, NEW g \in Issued, Holds(g),
         NEW record, record.identity = g, Store(g, record),
         UNCHANGED <<leases, released>>,
         asked' \in {asked, asked \cup {g}},
         record.cancellation_requested <=> g \in asked',
         attempt_leases' \subseteq Issued \X AttemptNumbers,
         \A h \in Issued, a \in AttemptNumbers :
           h # g => (<<h, a>> \in attempt_leases' <=> <<h, a>> \in attempt_leases),
         record.attempts = AttemptsUnder(g)'
  PROVE  Traced'
<1>1. /\ DOMAIN operations' = DOMAIN operations
      /\ operations'[leases[g]] = record
      /\ \A id \in DOMAIN operations : id # leases[g] => operations'[id] = operations[id]
  BY DEF Store, Holds
<1>2. g \notin DOMAIN released
  BY DEF OneFate
<1>3. \A id \in DOMAIN operations : operations[id].identity \in Issued
  BY DEF OneFate
<1>4. ASSUME NEW id \in DOMAIN operations', id # leases[g]
      PROVE  /\ operations'[id].cancellation_requested <=> operations'[id].identity \in asked'
             /\ operations'[id].attempts =
                  {a \in AttemptNumbers : <<operations'[id].identity, a>> \in attempt_leases'}
  <2>1. /\ id \in DOMAIN operations
        /\ operations'[id] = operations[id]
        /\ operations[id].identity \in Issued \ {g}
    BY <1>1, <1>3, <1>4, OthersUntouched
  <2>2. operations[id].cancellation_requested <=> operations[id].identity \in asked'
    BY <2>1 DEF Traced, CancelReachesOnlyItsGeneration
  <2>3. operations[id].attempts =
          {a \in AttemptNumbers : <<operations[id].identity, a>> \in attempt_leases'}
    BY <2>1 DEF Traced, AttemptsBelongToTheirLeases
  <2> QED
    BY <2>1, <2>2, <2>3
<1>5. CancelReachesOnlyItsGeneration'
  BY <1>1, <1>2, <1>4 DEF Traced, CancelReachesOnlyItsGeneration
<1>6. AttemptsBelongToTheirLeases'
  BY <1>1, <1>4 DEF AttemptsBelongToTheirLeases, AttemptsUnder
<1> QED
  BY <1>5, <1>6 DEF Traced, Issued

LEMMA RetireTraced ==
  ASSUME TypeOK, OneFate, Traced, NEW g \in Issued, Holds(g),
         NEW record \in OperationRecord, Retire(g, record),
         record.cancellation_requested = RecordOf(g).cancellation_requested,
         UNCHANGED <<leases, asked>>,
         attempt_leases' \subseteq attempt_leases,
         \A h \in Issued, a \in AttemptNumbers :
           h # g => (<<h, a>> \in attempt_leases' <=> <<h, a>> \in attempt_leases)
  PROVE  Traced'
<1>1. \A id \in DOMAIN operations \ {leases[g]} :
        operations[id].identity \in Issued /\ operations[id].identity # g
  BY OthersUntouched DEF OneFate
<1>2. released'[g].cancellation_requested = record.cancellation_requested
  BY DEF Retire, Snapshot, OperationRecord
<1>3. record.cancellation_requested <=> g \in asked
  BY HeldTraced
<1>4. CancelReachesOnlyItsGeneration'
  BY <1>2, <1>3 DEF Traced, CancelReachesOnlyItsGeneration, Retire
<1>5. AttemptsBelongToTheirLeases'
  BY <1>1 DEF Traced, AttemptsBelongToTheirLeases, Retire
<1> QED
  BY <1>4, <1>5 DEF Traced, Issued

LEMMA ReserveTraced ==
  ASSUME TypeOK, OneFate, Traced, NEW id \in OpIds, Reserve(id)
  PROVE  Traced'
<1>1. next_sequence \notin Issued
  BY IssuedAreGens
<1>2. \A x \in DOMAIN operations : operations[x].identity \in Issued
  BY DEF OneFate
<1>3. NewRecord(next_sequence).attempts = AttemptsUnder(next_sequence)
  BY <1>1 DEF Traced, NewRecord, AttemptsUnder
<1>4. CancelReachesOnlyItsGeneration'
  BY <1>1, <1>2 DEF Traced, Reserve, NewRecord, CancelReachesOnlyItsGeneration
<1>5. AttemptsBelongToTheirLeases'
  BY <1>2, <1>3 DEF Traced, Reserve, NewRecord, AttemptsBelongToTheirLeases, AttemptsUnder
<1>6. Issued \subseteq Issued'
  BY DEF Reserve, Issued
<1> QED
  BY <1>4, <1>5, <1>6 DEF Traced, Reserve

LEMMA RequestCancelAllTraced ==
  ASSUME TypeOK, OneFate, Traced, RequestCancelAll
  PROVE  Traced'
<1>1. \A id \in DOMAIN operations :
        /\ operations[id] \in OperationRecord
        /\ operations[id].identity \in Issued \ DOMAIN released
  BY DEF TypeOK, OneFate, Holds
<1>2. \A id \in DOMAIN operations :
        /\ operations'[id].identity = operations[id].identity
        /\ operations'[id].attempts = operations[id].attempts
        /\ operations'[id].cancellation_requested = TRUE
  BY <1>1 DEF RequestCancelAll, OperationRecord
<1>3. DOMAIN operations' = DOMAIN operations
  BY DEF RequestCancelAll
<1>4. CancelReachesOnlyItsGeneration'
  BY <1>1, <1>2, <1>3 DEF Traced, RequestCancelAll, CancelReachesOnlyItsGeneration
<1>5. AttemptsBelongToTheirLeases'
  BY <1>2, <1>3 DEF Traced, RequestCancelAll, AttemptsBelongToTheirLeases
<1>6. asked' \subseteq Issued
  BY <1>1 DEF Traced, RequestCancelAll
<1> QED
  BY <1>4, <1>5, <1>6 DEF Traced, RequestCancelAll, Issued

(* A store that touches neither the cancellation mark nor the attempts.    *)
LEMMA PlainStoreTraced ==
  ASSUME TypeOK, OneFate, Traced, NEW g \in Issued, Holds(g),
         NEW record, Store(g, record),
         record.identity = g,
         record.cancellation_requested = RecordOf(g).cancellation_requested,
         record.attempts = RecordOf(g).attempts,
         UNCHANGED <<leases, released, asked, attempt_leases>>
  PROVE  Traced'
<1>1. /\ record.cancellation_requested <=> g \in asked'
      /\ record.attempts = AttemptsUnder(g)'
  BY HeldTraced DEF AttemptsUnder
<1> QED
  BY <1>1, StoreTraced DEF Traced

LEMMA MarkTraced ==
  ASSUME TypeOK, OneFate, Traced, NEW g \in Issued, Holds(g), MarkCancelled(g),
         UNCHANGED <<leases, released, attempt_leases>>
  PROVE  Traced'
<1> DEFINE record == [RecordOf(g) EXCEPT !.cancellation_requested = TRUE]
<1>1. RecordOf(g) \in OperationRecord
  BY HeldTyped
<1>2. /\ record.identity = g
      /\ record.cancellation_requested = TRUE
      /\ record.attempts = AttemptsUnder(g)'
  BY <1>1, HeldTraced DEF OperationRecord, AttemptsUnder
<1> QED
  BY <1>2, StoreTraced DEF MarkCancelled, Traced

LEMMA StartAttemptTraced ==
  ASSUME TypeOK, OneFate, Traced, NEW g \in Issued, StartAttempt(g)
  PROVE  Traced'
<1> DEFINE a == RecordOf(g).next_attempt_sequence
           record == [RecordOf(g) EXCEPT !.next_attempt_sequence = a + 1,
                                         !.attempts = @ \cup {a}]
<1>1. Holds(g) /\ RecordOf(g) \in OperationRecord
  BY HeldTyped DEF StartAttempt
<1>2. a \in AttemptNumbers
  BY <1>1, RegistryAssumption DEF StartAttempt, OperationRecord, AttemptNumbers
<1>3. /\ record.identity = g
      /\ record.cancellation_requested <=> g \in asked
      /\ record.attempts = RecordOf(g).attempts \cup {a}
  BY <1>1, HeldTraced DEF OperationRecord
<1>4. record.attempts = AttemptsUnder(g)'
  BY <1>1, <1>2, <1>3, HeldTraced DEF StartAttempt, AttemptsUnder
<1>5. attempt_leases' \subseteq Issued \X AttemptNumbers
  BY <1>2 DEF StartAttempt, Traced
<1>6. \A h \in Issued, b \in AttemptNumbers :
        h # g => (<<h, b>> \in attempt_leases' <=> <<h, b>> \in attempt_leases)
  BY DEF StartAttempt
<1>7. Store(g, record) /\ UNCHANGED <<leases, released, asked>>
  BY DEF StartAttempt
<1> QED
  BY <1>1, <1>3, <1>4, <1>5, <1>6, <1>7, StoreTraced

LEMMA AttemptFinishTraced ==
  ASSUME TypeOK, OneFate, Traced, NEW g \in Issued, NEW a \in AttemptNumbers,
         AttemptFinish(g, a)
  PROVE  Traced'
<1>1. /\ attempt_leases' \subseteq Issued \X AttemptNumbers
      /\ \A h \in Issued, b \in AttemptNumbers :
           h # g => (<<h, b>> \in attempt_leases' <=> <<h, b>> \in attempt_leases)
  BY DEF AttemptFinish, Traced
<1>2. CASE Holds(g)
  <2> DEFINE record == [RecordOf(g) EXCEPT !.attempts = @ \ {a}]
  <2>1. RecordOf(g) \in OperationRecord
    BY <1>2, HeldTyped
  <2>2. /\ record.identity = g
        /\ record.cancellation_requested <=> g \in asked
        /\ record.attempts = RecordOf(g).attempts \ {a}
    BY <1>2, <2>1, HeldTraced DEF OperationRecord
  <2>3. record.attempts = AttemptsUnder(g)'
    BY <1>2, <2>2, HeldTraced DEF AttemptFinish, AttemptsUnder
  <2>4. Store(g, record) /\ UNCHANGED <<leases, released, asked>>
    BY <1>2 DEF AttemptFinish
  <2> QED
    BY <1>1, <1>2, <2>2, <2>3, <2>4, StoreTraced
<1>3. CASE ~Holds(g)
  <2>1. \A id \in DOMAIN operations :
          operations[id].identity \in Issued /\ operations[id].identity # g
    BY <1>3 DEF OneFate, Holds
  <2>2. AttemptsBelongToTheirLeases'
    BY <1>1, <1>3, <2>1 DEF AttemptFinish, Traced, AttemptsBelongToTheirLeases
  <2> QED
    BY <1>1, <1>3, <2>2 DEF AttemptFinish, Traced, CancelReachesOnlyItsGeneration, Issued
<1> QED
  BY <1>2, <1>3

LEMMA LeaseStepTraced ==
  ASSUME TypeOK, OneFate, Traced, NEW g \in Issued, LeaseStep(g)
  PROVE  Traced'
<1>1. ASSUME Holds(g)
      PROVE  RecordOf(g) \in OperationRecord /\ RecordOf(g).identity = g
  BY <1>1, HeldTyped, HeldTraced
<1>2. ASSUME NEW expected, NEW next, Transition(g, expected, next) PROVE Traced'
  <2> DEFINE record == [RecordOf(g) EXCEPT !.phase = next]
  <2>1. /\ record.identity = g
        /\ record.cancellation_requested = RecordOf(g).cancellation_requested
        /\ record.attempts = RecordOf(g).attempts
    BY <1>1, <1>2 DEF Transition, OperationRecord
  <2> QED
    BY <1>2, <2>1, PlainStoreTraced DEF Transition
<1>3. ASSUME NEW class, Terminal(g, class) PROVE Traced'
  <2> DEFINE record == [RecordOf(g) EXCEPT !.terminal = class, !.phase = "Terminal"]
  <2>1. /\ record.identity = g
        /\ record.cancellation_requested = RecordOf(g).cancellation_requested
        /\ record.attempts = RecordOf(g).attempts
    BY <1>1, <1>3 DEF Terminal, OperationRecord
  <2> QED
    BY <1>3, <2>1, PlainStoreTraced DEF Terminal
<1>4. CASE Release(g)
  BY <1>1, <1>4, RetireTraced DEF Release
<1>5. CASE FailSetupAndRelease(g)
  <2> DEFINE record == [RecordOf(g) EXCEPT !.attempts = {}, !.terminal = "Failed"]
  <2>1. /\ record \in OperationRecord
        /\ record.cancellation_requested = RecordOf(g).cancellation_requested
    BY <1>1, <1>5 DEF FailSetupAndRelease, OperationRecord, TerminalClass
  <2> QED
    BY <1>5, <2>1, RetireTraced DEF FailSetupAndRelease
<1>6. CASE RequestCancel(g)
  BY <1>6, MarkTraced DEF RequestCancel
<1>7. ASSUME NEW value, PublishProgress(g, value) PROVE Traced'
  <2> DEFINE record == [RecordOf(g) EXCEPT !.progress = Push(@, value)]
  <2>1. /\ record.identity = g
        /\ record.cancellation_requested = RecordOf(g).cancellation_requested
        /\ record.attempts = RecordOf(g).attempts
    BY <1>1, <1>7 DEF PublishProgress, OperationRecord
  <2> QED
    BY <1>7, <2>1, PlainStoreTraced DEF PublishProgress
<1>8. CASE StartAttempt(g)
  BY <1>8, StartAttemptTraced
<1> QED
  BY <1>2, <1>3, <1>4, <1>5, <1>6, <1>7, <1>8 DEF LeaseStep, Queue, Start

LEMMA FinishAttemptAndReleaseTraced ==
  ASSUME TypeOK, OneFate, Traced, NEW g \in Issued, NEW a \in AttemptNumbers,
         NEW class \in TerminalClass, FinishAttemptAndRelease(g, a, class)
  PROVE  Traced'
<1> DEFINE record == [RecordOf(g) EXCEPT !.attempts = {}, !.terminal = class]
<1>1. Holds(g) /\ RecordOf(g) \in OperationRecord
  BY HeldTyped DEF FinishAttemptAndRelease
<1>2. /\ record \in OperationRecord
      /\ record.cancellation_requested = RecordOf(g).cancellation_requested
  BY <1>1 DEF OperationRecord
<1>3. \A h \in Issued, b \in AttemptNumbers :
        h # g => (<<h, b>> \in attempt_leases' <=> <<h, b>> \in attempt_leases)
  BY DEF FinishAttemptAndRelease
<1> QED
  BY <1>1, <1>2, <1>3, RetireTraced DEF FinishAttemptAndRelease

LEMMA TracedStep == TypeOK /\ OneFate /\ Traced /\ [Next]_vars => Traced'
<1> SUFFICES ASSUME TypeOK, OneFate, Traced, [Next]_vars PROVE Traced'
  OBVIOUS
<1>1. ASSUME NEW id \in OpIds, Reserve(id) PROVE Traced'
  BY <1>1, ReserveTraced
<1>2. CASE RequestCancelAll
  BY <1>2, RequestCancelAllTraced
<1>3. ASSUME NEW g \in Issued, LeaseStep(g) PROVE Traced'
  BY <1>3, LeaseStepTraced
<1>4. ASSUME NEW g \in Issued, NEW a \in AttemptNumbers, AttemptStep(g, a) PROVE Traced'
  BY <1>4, FinishAttemptAndReleaseTraced, AttemptFinishTraced DEF AttemptStep
<1>5. ASSUME NEW g \in armed, GuardStep(g) PROVE Traced'
  <2>1. g \in Issued
    BY DEF TypeOK
  <2>2. CASE ConsumerDrop(g) /\ Holds(g)
    BY <2>1, <2>2, MarkTraced DEF ConsumerDrop
  <2>3. CASE (ConsumerDrop(g) /\ ~Holds(g)) \/ ConsumerDisarm(g)
    BY <2>3 DEF ConsumerDrop, ConsumerDisarm, Traced, CancelReachesOnlyItsGeneration,
       AttemptsBelongToTheirLeases, Issued
  <2> QED
    BY <1>5, <2>2, <2>3 DEF GuardStep
<1>6. CASE UNCHANGED vars
  BY <1>6 DEF vars, Traced, CancelReachesOnlyItsGeneration, AttemptsBelongToTheirLeases, Issued
<1> QED
  BY <1>1, <1>2, <1>3, <1>4, <1>5, <1>6 DEF Next

LEMMA AlwaysTraced == Spec => []Traced
<1>1. Init => Traced
  BY DEF Init, Traced, CancelReachesOnlyItsGeneration, AttemptsBelongToTheirLeases, Issued
<1>2. TypeOK /\ OneFate /\ Traced /\ [Next]_vars => Traced'
  BY TracedStep
<1> QED
  BY <1>1, <1>2, TypeCorrect, EveryGenerationHasOneFate, PTL DEF Spec

(* No cancel request, whoever makes it and however stale the lease, guard  *)
(* or ticket it comes through, marks a generation it was not made for; and *)
(* a mark once made is still there in the released snapshot.               *)
THEOREM CancelsStayWithTheirGeneration == Spec => []CancelReachesOnlyItsGeneration
<1>1. Traced => CancelReachesOnlyItsGeneration
  BY DEF Traced
<1> QED
  BY <1>1, AlwaysTraced, PTL

(* The attempts in a live record are exactly the unconsumed attempt leases *)
(* of that generation; a leftover lease never ends another's attempt.      *)
THEOREM AttemptsStayWithTheirGeneration == Spec => []AttemptsBelongToTheirLeases
<1>1. Traced => AttemptsBelongToTheirLeases
  BY DEF Traced
<1> QED
  BY <1>1, AlwaysTraced, PTL

---------------------------------------------------------------------------
(* The terminal class and the phase of a record, and what ends in a slot.  *)

Sound(record) ==
  /\ record.phase # "Released"
  /\ record.terminal # "None" <=> record.phase = "Terminal"
  /\ record.attempts # {} => record.phase \in {"Running", "Terminal"}

LEMMA HeldSound ==
  ASSUME TerminalMatchesPhase, NEW g \in Issued, Holds(g)
  PROVE  Sound(RecordOf(g))
BY DEF TerminalMatchesPhase, Holds, RecordOf, Sound

LEMMA StoreSound ==
  ASSUME TerminalMatchesPhase, NEW g \in Issued, Holds(g),
         NEW record, Sound(record), Store(g, record)
  PROVE  TerminalMatchesPhase'
BY DEF TerminalMatchesPhase, Holds, Store, Sound

LEMMA LeaseStepSound ==
  ASSUME TypeOK, TerminalMatchesPhase, NEW g \in Issued, LeaseStep(g)
  PROVE  TerminalMatchesPhase'
<1>1. ASSUME Holds(g)
      PROVE  RecordOf(g) \in OperationRecord /\ Sound(RecordOf(g))
  BY <1>1, HeldTyped, HeldSound
<1>2. ASSUME NEW next \in {"Queued", "Running"},
             Transition(g, IF next = "Queued" THEN "Reserved" ELSE "Queued", next)
      PROVE  TerminalMatchesPhase'
  <2>1. Sound([RecordOf(g) EXCEPT !.phase = next])
    BY <1>1, <1>2 DEF Transition, OperationRecord, Sound
  <2> QED
    BY <1>2, <2>1, StoreSound DEF Transition
<1>3. ASSUME NEW class \in TerminalClass, Terminal(g, class) PROVE TerminalMatchesPhase'
  <2>1. Sound([RecordOf(g) EXCEPT !.terminal = class, !.phase = "Terminal"])
    BY <1>1, <1>3 DEF Terminal, OperationRecord, Sound, TerminalClass
  <2> QED
    BY <1>3, <2>1, StoreSound DEF Terminal
<1>4. CASE Release(g) \/ FailSetupAndRelease(g)
  BY <1>4 DEF Release, FailSetupAndRelease, Retire, TerminalMatchesPhase
<1>5. CASE RequestCancel(g)
  <2>1. Sound([RecordOf(g) EXCEPT !.cancellation_requested = TRUE])
    BY <1>1, <1>5 DEF RequestCancel, OperationRecord, Sound
  <2> QED
    BY <1>5, <2>1, StoreSound DEF RequestCancel, MarkCancelled
<1>6. ASSUME NEW value, PublishProgress(g, value) PROVE TerminalMatchesPhase'
  <2>1. Sound([RecordOf(g) EXCEPT !.progress = Push(@, value)])
    BY <1>1, <1>6 DEF PublishProgress, OperationRecord, Sound
  <2> QED
    BY <1>6, <2>1, StoreSound DEF PublishProgress
<1>7. CASE StartAttempt(g)
  <2> DEFINE a == RecordOf(g).next_attempt_sequence
  <2>1. Sound([RecordOf(g) EXCEPT !.next_attempt_sequence = a + 1, !.attempts = @ \cup {a}])
    BY <1>1, <1>7 DEF StartAttempt, OperationRecord, Sound
  <2> QED
    BY <1>7, <2>1, StoreSound DEF StartAttempt
<1> QED
  BY <1>2, <1>3, <1>4, <1>5, <1>6, <1>7 DEF LeaseStep, Queue, Start

LEMMA SoundStep == TypeOK /\ TerminalMatchesPhase /\ [Next]_vars => TerminalMatchesPhase'
<1> SUFFICES ASSUME TypeOK, TerminalMatchesPhase, [Next]_vars PROVE TerminalMatchesPhase'
  OBVIOUS
<1>1. ASSUME NEW id \in OpIds, Reserve(id) PROVE TerminalMatchesPhase'
  BY <1>1 DEF Reserve, NewRecord, TerminalMatchesPhase
<1>2. CASE RequestCancelAll
  BY <1>2 DEF RequestCancelAll, TerminalMatchesPhase, TypeOK, OperationRecord
<1>3. ASSUME NEW g \in Issued, LeaseStep(g) PROVE TerminalMatchesPhase'
  BY <1>3, LeaseStepSound
<1>4. ASSUME NEW g \in Issued, NEW a \in AttemptNumbers, AttemptStep(g, a)
      PROVE  TerminalMatchesPhase'
  <2>1. ASSUME NEW class, FinishAttemptAndRelease(g, a, class) PROVE TerminalMatchesPhase'
    BY <2>1 DEF FinishAttemptAndRelease, Retire, TerminalMatchesPhase
  <2>2. CASE AttemptFinish(g, a) /\ Holds(g)
    <3>1. Sound([RecordOf(g) EXCEPT !.attempts = @ \ {a}])
      BY <2>2, HeldTyped, HeldSound DEF OperationRecord, Sound
    <3> QED
      BY <2>2, <3>1, StoreSound DEF AttemptFinish
  <2>3. CASE AttemptFinish(g, a) /\ ~Holds(g)
    BY <2>3 DEF AttemptFinish, TerminalMatchesPhase
  <2> QED
    BY <1>4, <2>1, <2>2, <2>3 DEF AttemptStep
<1>5. ASSUME NEW g \in armed, GuardStep(g) PROVE TerminalMatchesPhase'
  <2>1. g \in Issued
    BY DEF TypeOK
  <2>2. CASE ConsumerDrop(g) /\ Holds(g)
    <3>1. Sound([RecordOf(g) EXCEPT !.cancellation_requested = TRUE])
      BY <2>1, <2>2, HeldTyped, HeldSound DEF OperationRecord, Sound
    <3> QED
      BY <2>1, <2>2, <3>1, StoreSound DEF ConsumerDrop, MarkCancelled
  <2>3. CASE (ConsumerDrop(g) /\ ~Holds(g)) \/ ConsumerDisarm(g)
    BY <2>3 DEF ConsumerDrop, ConsumerDisarm, TerminalMatchesPhase
  <2> QED
    BY <1>5, <2>2, <2>3 DEF GuardStep
<1>6. CASE UNCHANGED vars
  BY <1>6 DEF vars, TerminalMatchesPhase
<1> QED
  BY <1>1, <1>2, <1>3, <1>4, <1>5, <1>6 DEF Next

(* Phase and terminal class of every live record agree.                    *)
THEOREM PhasesAgree == Spec => []TerminalMatchesPhase
<1>1. Init => TerminalMatchesPhase
  BY DEF Init, TerminalMatchesPhase
<1> QED
  BY <1>1, SoundStep, TypeCorrect, PTL DEF Spec

(* A step that fills no slot and starts no attempt of a released operation.*)
LEMMA NothingReleased ==
  ASSUME OneFate, ReleasedIsFinal, UNCHANGED released,
         \A g \in DOMAIN released, a \in AttemptNumbers :
           <<g, a>> \in attempt_leases' => <<g, a>> \in attempt_leases
  PROVE  ReleasedIsFinal'
BY DEF ReleasedIsFinal

(* A step that fills a slot with a terminal record.                        *)
LEMMA RetireFinal ==
  ASSUME TypeOK, ReleasedIsFinal, NEW g \in Issued,
         NEW record \in OperationRecord, Retire(g, record),
         record.identity = g, record.terminal \in TerminalClass,
         attempt_leases' \subseteq attempt_leases,
         record.terminal # "Failed" =>
           \A a \in AttemptNumbers : <<g, a>> \notin attempt_leases'
  PROVE  ReleasedIsFinal'
<1>1. /\ released'[g].identity = g
      /\ released'[g].phase = "Released"
      /\ released'[g].terminal = record.terminal
  BY DEF Retire, Snapshot, OperationRecord
<1>2. \A h \in DOMAIN released' : h # g => h \in DOMAIN released /\ released'[h] = released[h]
  BY DEF Retire
<1> QED
  BY <1>1, <1>2 DEF ReleasedIsFinal

LEMMA FinalStep ==
  TypeOK /\ OneFate /\ Traced /\ TerminalMatchesPhase /\ ReleasedIsFinal /\ [Next]_vars
    => ReleasedIsFinal'
<1> SUFFICES ASSUME TypeOK, OneFate, Traced, TerminalMatchesPhase, ReleasedIsFinal, [Next]_vars
             PROVE  ReleasedIsFinal'
  OBVIOUS
<1>1. ASSUME NEW g \in Issued, Release(g) PROVE ReleasedIsFinal'
  <2>1. /\ Holds(g) /\ RecordOf(g) \in OperationRecord /\ RecordOf(g).identity = g
        /\ RecordOf(g).attempts = AttemptsUnder(g)
        /\ Sound(RecordOf(g))
    BY <1>1, HeldTyped, HeldTraced, HeldSound DEF Release
  <2>2. RecordOf(g).terminal \in TerminalClass
    BY <1>1, <2>1 DEF Release, Sound, OperationRecord
  <2>3. \A a \in AttemptNumbers : <<g, a>> \notin attempt_leases'
    BY <1>1, <2>1 DEF Release, AttemptsUnder
  <2> QED
    BY <1>1, <2>1, <2>2, <2>3, RetireFinal DEF Release
<1>2. ASSUME NEW g \in Issued, FailSetupAndRelease(g) PROVE ReleasedIsFinal'
  <2> DEFINE record == [RecordOf(g) EXCEPT !.attempts = {}, !.terminal = "Failed"]
  <2>1. Holds(g) /\ RecordOf(g) \in OperationRecord /\ RecordOf(g).identity = g
    BY <1>2, HeldTyped, HeldTraced DEF FailSetupAndRelease
  <2>2. record \in OperationRecord /\ record.identity = g /\ record.terminal = "Failed"
    BY <2>1 DEF OperationRecord, TerminalClass
  <2> QED
    BY <1>2, <2>2, RetireFinal DEF FailSetupAndRelease, TerminalClass
<1>3. ASSUME NEW g \in Issued, NEW a \in AttemptNumbers, NEW class \in TerminalClass,
             FinishAttemptAndRelease(g, a, class)
      PROVE  ReleasedIsFinal'
  <2> DEFINE record == [RecordOf(g) EXCEPT !.attempts = {}, !.terminal = class]
  <2>1. /\ Holds(g) /\ RecordOf(g) \in OperationRecord /\ RecordOf(g).identity = g
        /\ RecordOf(g).attempts = AttemptsUnder(g)
    BY <1>3, HeldTyped, HeldTraced DEF FinishAttemptAndRelease
  <2>2. record \in OperationRecord /\ record.identity = g /\ record.terminal = class
    BY <2>1 DEF OperationRecord
  <2>3. \A b \in AttemptNumbers : <<g, b>> \notin attempt_leases'
    BY <1>3, <2>1 DEF FinishAttemptAndRelease, AttemptsUnder
  <2> QED
    BY <1>3, <2>2, <2>3, RetireFinal DEF FinishAttemptAndRelease
<1>4. ASSUME NEW g \in Issued, StartAttempt(g) PROVE ReleasedIsFinal'
  <2>1. g \notin DOMAIN released
    BY <1>4 DEF StartAttempt, OneFate
  <2> QED
    BY <1>4, <2>1, NothingReleased DEF StartAttempt
<1>5. ASSUME NEW g \in Issued, LeaseStep(g) PROVE ReleasedIsFinal'
  <2>1. CASE Release(g) \/ FailSetupAndRelease(g) \/ StartAttempt(g)
    BY <2>1, <1>1, <1>2, <1>4
  <2>2. CASE \/ Queue(g) \/ Start(g) \/ RequestCancel(g)
             \/ \E class \in TerminalClass : Terminal(g, class)
             \/ \E value \in ProgressValues : PublishProgress(g, value)
    BY <2>2, NothingReleased DEF Queue, Start, Transition, RequestCancel, Terminal, PublishProgress
  <2> QED
    BY <1>5, <2>1, <2>2 DEF LeaseStep
<1>6. ASSUME NEW g \in Issued, NEW a \in AttemptNumbers, AttemptStep(g, a)
      PROVE  ReleasedIsFinal'
  <2>1. CASE AttemptFinish(g, a)
    BY <2>1, NothingReleased DEF AttemptFinish
  <2> QED
    BY <1>3, <1>6, <2>1 DEF AttemptStep
<1>7. CASE \/ RequestCancelAll \/ UNCHANGED vars
           \/ \E id \in OpIds : Reserve(id)
           \/ \E g \in armed : GuardStep(g)
  BY <1>7, NothingReleased
     DEF RequestCancelAll, vars, Reserve, GuardStep, ConsumerDrop, ConsumerDisarm
<1> QED
  BY <1>5, <1>6, <1>7 DEF Next

(* A released slot carries its own identity and a terminal class, and only *)
(* a rollback can leave an attempt lease of a released operation behind.   *)
THEOREM ReleasedSlotsAreTerminal == Spec => []ReleasedIsFinal
<1>1. Init => ReleasedIsFinal
  BY DEF Init, ReleasedIsFinal
<1> QED
  BY <1>1, FinalStep, TypeCorrect, EveryGenerationHasOneFate, AlwaysTraced, PhasesAgree,
     PTL DEF Spec

(* A lease reads only its own generation, and reads nothing only when that *)
(* generation is over and its id has been admitted again.                  *)
THEOREM LeasesReadTheirOwn == Spec => []LeaseReadsItsOwnGeneration
<1>1. TypeOK /\ OneFate /\ ReleasedIsFinal => LeaseReadsItsOwnGeneration
  <2> SUFFICES ASSUME TypeOK, OneFate, ReleasedIsFinal, NEW g \in Issued
               PROVE  /\ \A s \in LeaseSnapshot(g) : s.identity = g
                      /\ LeaseSnapshot(g) = {} =>
                           g \in DOMAIN released /\ leases[g] \in DOMAIN operations
    BY DEF LeaseReadsItsOwnGeneration
  <2>1. CASE Holds(g)
    <3>1. {x \in {operations[leases[g]]} : x.identity = g} = {operations[leases[g]]}
      BY <2>1 DEF Holds
    <3>2. LeaseSnapshot(g) = {Snapshot(operations[leases[g]])}
      BY <2>1, <3>1 DEF LeaseSnapshot, Holds
    <3>3. Snapshot(operations[leases[g]]).identity = g
      BY <2>1 DEF Holds, Snapshot
    <3> QED
      BY <3>2, <3>3
  <2>2. CASE ~Holds(g) /\ leases[g] \in DOMAIN operations
    <3>1. operations[leases[g]].identity # g /\ g \in DOMAIN released
      BY <2>2 DEF Holds, OneFate
    <3>2. \A s : s \notin LeaseSnapshot(g)
      BY <2>2, <3>1 DEF LeaseSnapshot
    <3> QED
      BY <2>2, <3>1, <3>2
  <2>3. CASE leases[g] \notin DOMAIN operations
    <3>1. g \in DOMAIN released
      BY <2>3 DEF Holds, OneFate
    <3>2. LeaseSnapshot(g) = {released[g]}
      BY <2>3, <3>1 DEF LeaseSnapshot
    <3> QED
      BY <3>1, <3>2 DEF ReleasedIsFinal
  <2> QED
    BY <2>1, <2>2, <2>3
<1> QED
  BY <1>1, TypeCorrect, EveryGenerationHasOneFate, ReleasedSlotsAreTerminal, PTL

---------------------------------------------------------------------------
(* The retained progress of a generation.  A fresh generation starts from  *)
(* nothing, which needs that nothing was ever published before it existed. *)

ProgressTraced ==
  /\ ProgressIsLatest
  /\ \A g \in Gens \ Issued : published[g] = <<>>

(* Pushing onto the latest part of what was accepted gives the latest part *)
(* again: while the queue has room, when it is full, and when its capacity *)
(* is zero.                                                                *)
LEMMA PushLatest ==
  ASSUME NEW queue \in Seq(ProgressValues), NEW all \in Seq(ProgressValues),
         NEW value \in ProgressValues, LatestOf(queue, all)
  PROVE  LatestOf(Push(queue, value), Append(all, value))
<1> DEFINE more == Append(all, value)
<1>1. /\ Len(all) \in Nat /\ Len(more) = Len(all) + 1
      /\ \A i \in 1 .. Len(all) : more[i] = all[i]
      /\ more[Len(all) + 1] = value
  OBVIOUS
<1>2. Len(queue) \in Nat /\ ProgressCapacity \in Nat
  BY RegistryAssumption
<1>3. CASE ProgressCapacity = 0
  BY <1>1, <1>2, <1>3 DEF LatestOf, Push
<1>4. CASE ProgressCapacity # 0 /\ Len(queue) = ProgressCapacity
  <2> DEFINE rest == Tail(queue)
  <2>1. /\ rest \in Seq(ProgressValues) /\ Len(rest) = ProgressCapacity - 1
        /\ \A i \in 1 .. (ProgressCapacity - 1) : rest[i] = queue[i + 1]
    BY <1>2, <1>4
  <2>2. /\ Len(Append(rest, value)) = ProgressCapacity
        /\ \A i \in 1 .. (ProgressCapacity - 1) : Append(rest, value)[i] = queue[i + 1]
        /\ Append(rest, value)[ProgressCapacity] = value
    BY <1>2, <2>1
  <2>3. Len(all) >= ProgressCapacity
    BY <1>1, <1>2, <1>4 DEF LatestOf
  <2>4. \A i \in 1 .. ProgressCapacity :
          Append(rest, value)[i] = more[Len(more) - ProgressCapacity + i]
    <3>1. ASSUME NEW i \in 1 .. (ProgressCapacity - 1)
          PROVE  Append(rest, value)[i] = more[Len(more) - ProgressCapacity + i]
      <4>1. queue[i + 1] = all[Len(all) - ProgressCapacity + (i + 1)]
        <5>1. i + 1 \in 1 .. Len(queue)
          BY <1>2, <1>4
        <5> QED BY <1>4, <5>1 DEF LatestOf
      <4>2. /\ Len(all) - ProgressCapacity + (i + 1) = Len(more) - ProgressCapacity + i
            /\ Len(more) - ProgressCapacity + i \in 1 .. Len(all)
        BY <1>1, <1>2, <2>3
      <4> QED BY <1>1, <2>2, <4>1, <4>2
    <3>2. Len(more) - ProgressCapacity + ProgressCapacity = Len(all) + 1
      BY <1>1, <1>2
    <3>3. Append(rest, value)[ProgressCapacity] = more[Len(more) - ProgressCapacity + ProgressCapacity]
      BY <1>1, <2>2, <3>2
    <3>4. \A i \in 1 .. ProgressCapacity : i \in 1 .. (ProgressCapacity - 1) \/ i = ProgressCapacity
      BY <1>2
    <3> QED BY <3>1, <3>3, <3>4
  <2>5. Push(queue, value) = Append(rest, value)
    BY <1>4 DEF Push
  <2>6. ProgressCapacity = IF Len(more) < ProgressCapacity THEN Len(more) ELSE ProgressCapacity
    BY <1>1, <1>2, <2>3
  <2> HIDE DEF more, rest
  <2> QED BY <2>2, <2>4, <2>5, <2>6 DEF LatestOf, more
<1>5. CASE ProgressCapacity # 0 /\ Len(queue) # ProgressCapacity
  <2>1. Len(queue) = Len(all) /\ Len(all) < ProgressCapacity
    BY <1>1, <1>2, <1>5 DEF LatestOf
  <2>2. \A i \in 1 .. Len(all) : queue[i] = all[i]
    BY <1>1, <2>1 DEF LatestOf
  <2>3. /\ Len(Append(queue, value)) = Len(all) + 1
        /\ \A i \in 1 .. Len(all) : Append(queue, value)[i] = all[i]
        /\ Append(queue, value)[Len(all) + 1] = value
    BY <1>1, <2>1, <2>2
  <2>4. \A i \in 1 .. Len(more) : Append(queue, value)[i] = more[i]
    BY <1>1, <2>3
  <2>5. \A i \in 1 .. Len(more) : Len(more) - Len(more) + i = i
    BY <1>1
  <2>6. Push(queue, value) = Append(queue, value)
    BY <1>5 DEF Push
  <2>7. Len(more) = IF Len(more) < ProgressCapacity THEN Len(more) ELSE ProgressCapacity
    BY <1>1, <1>2, <2>1
  <2>8. Len(Append(queue, value)) = Len(more)
    BY <1>1, <2>3
  <2> HIDE DEF more
  <2> QED BY <2>4, <2>5, <2>6, <2>7, <2>8 DEF LatestOf, more
<1> QED BY <1>3, <1>4, <1>5

LEMMA HeldLatest ==
  ASSUME ProgressTraced, OneFate, NEW g \in Issued, Holds(g)
  PROVE  LatestOf(RecordOf(g).progress, published[g])
BY DEF ProgressTraced, ProgressIsLatest, Holds, RecordOf

(* Storing a record whose progress agrees with what was accepted for it.   *)
LEMMA StoreLatest ==
  ASSUME TypeOK, OneFate, ProgressTraced, NEW g \in Issued, Holds(g),
         NEW record, record.identity = g, Store(g, record),
         LatestOf(record.progress, published'[g]),
         \A h \in Gens \ {g} : published'[h] = published[h],
         UNCHANGED <<leases, released>>
  PROVE  ProgressTraced'
<1>1. Issued' = Issued /\ Issued \subseteq Gens /\ DOMAIN released \subseteq Issued \ {g}
  BY IssuedAreGens DEF Issued, OneFate
<1>2. ASSUME NEW id \in DOMAIN operations'
      PROVE  LatestOf(operations'[id].progress, published'[operations'[id].identity])
  <2>1. CASE id = leases[g]
    BY <2>1 DEF Store, Holds
  <2>2. CASE id # leases[g]
    <3>1. /\ id \in DOMAIN operations /\ operations'[id] = operations[id]
          /\ operations[id].identity \in Gens \ {g}
      BY <1>1, <1>2, <2>2, OthersUntouched DEF Store, OneFate
    <3> QED BY <3>1 DEF ProgressTraced, ProgressIsLatest
  <2> QED BY <2>1, <2>2
<1>3. \A h \in DOMAIN released' : LatestOf(released'[h].progress, published'[h])
  BY <1>1 DEF ProgressTraced, ProgressIsLatest
<1>4. \A h \in Gens \ Issued' : published'[h] = <<>>
  BY <1>1 DEF ProgressTraced
<1> QED BY <1>2, <1>3, <1>4 DEF ProgressTraced, ProgressIsLatest, LatestOf

(* A step that neither publishes nor retires.                              *)
LEMMA SameLatest ==
  ASSUME ProgressTraced, UNCHANGED <<leases, released, published>>,
         DOMAIN operations' = DOMAIN operations,
         \A id \in DOMAIN operations :
           /\ operations'[id].identity = operations[id].identity
           /\ operations'[id].progress = operations[id].progress
  PROVE  ProgressTraced'
<1>1. ASSUME NEW id \in DOMAIN operations'
      PROVE  LatestOf(operations'[id].progress, published'[operations'[id].identity])
  BY DEF ProgressTraced, ProgressIsLatest
<1>2. \A h \in DOMAIN released' : LatestOf(released'[h].progress, published'[h])
  BY DEF ProgressTraced, ProgressIsLatest
<1>3. \A h \in Gens \ Issued' : published'[h] = <<>>
  BY DEF ProgressTraced, Issued
<1> QED BY <1>1, <1>2, <1>3 DEF ProgressTraced, ProgressIsLatest, LatestOf

LEMMA RetireLatest ==
  ASSUME TypeOK, OneFate, ProgressTraced, NEW g \in Issued, Holds(g),
         NEW record, Retire(g, record), record.progress = RecordOf(g).progress,
         [record EXCEPT !.phase = "Released"].progress = record.progress,
         UNCHANGED <<leases, published>>
  PROVE  ProgressTraced'
<1>1. LatestOf(record.progress, published[g])
  BY HeldLatest
<1>2. released'[g].progress = record.progress
  BY DEF Retire, Snapshot
<1> QED BY <1>1, <1>2 DEF Retire, ProgressTraced, ProgressIsLatest, LatestOf, Issued

LEMMA LeaseStepLatest ==
  ASSUME TypeOK, OneFate, ProgressTraced, NEW g \in Issued, LeaseStep(g)
  PROVE  ProgressTraced'
<1>1. ASSUME Holds(g)
      PROVE  /\ RecordOf(g) \in OperationRecord /\ RecordOf(g).identity = g /\ g \in Gens
             /\ LatestOf(RecordOf(g).progress, published[g])
  BY <1>1, HeldTyped, HeldLatest DEF Holds, RecordOf
<1>2. ASSUME NEW expected, NEW next, Transition(g, expected, next) PROVE ProgressTraced'
  <2> DEFINE record == [RecordOf(g) EXCEPT !.phase = next]
  <2>1. record.identity = g /\ record.progress = RecordOf(g).progress
    BY <1>1, <1>2 DEF Transition, OperationRecord
  <2> QED BY <1>1, <1>2, <2>1, StoreLatest DEF Transition
<1>3. ASSUME NEW class, Terminal(g, class) PROVE ProgressTraced'
  <2> DEFINE record == [RecordOf(g) EXCEPT !.terminal = class, !.phase = "Terminal"]
  <2>1. record.identity = g /\ record.progress = RecordOf(g).progress
    BY <1>1, <1>3 DEF Terminal, OperationRecord
  <2> QED BY <1>1, <1>3, <2>1, StoreLatest DEF Terminal
<1>4. CASE Release(g)
  <2>1. [RecordOf(g) EXCEPT !.phase = "Released"].progress = RecordOf(g).progress
    BY <1>1, <1>4 DEF Release, OperationRecord
  <2> QED BY <1>4, <2>1, RetireLatest DEF Release
<1>5. CASE FailSetupAndRelease(g)
  <2> DEFINE record == [RecordOf(g) EXCEPT !.attempts = {}, !.terminal = "Failed"]
  <2>1. /\ record.progress = RecordOf(g).progress
        /\ [record EXCEPT !.phase = "Released"].progress = record.progress
    BY <1>1, <1>5 DEF FailSetupAndRelease, OperationRecord
  <2> QED BY <1>5, <2>1, RetireLatest DEF FailSetupAndRelease
<1>6. CASE RequestCancel(g)
  <2> DEFINE record == [RecordOf(g) EXCEPT !.cancellation_requested = TRUE]
  <2>1. record.identity = g /\ record.progress = RecordOf(g).progress
    BY <1>1, <1>6 DEF RequestCancel, OperationRecord
  <2> QED BY <1>1, <1>6, <2>1, StoreLatest DEF RequestCancel, MarkCancelled
<1>7. ASSUME NEW value \in ProgressValues, PublishProgress(g, value) PROVE ProgressTraced'
  <2> DEFINE record == [RecordOf(g) EXCEPT !.progress = Push(@, value)]
  <2>1. Holds(g) /\ record.identity = g /\ record.progress = Push(RecordOf(g).progress, value)
    BY <1>1, <1>7 DEF PublishProgress, OperationRecord
  <2>2. published \in [Gens -> Seq(ProgressValues)] /\ published[g] \in Seq(ProgressValues)
    BY <1>1, <2>1 DEF TypeOK
  <2>3. published'[g] = Append(published[g], value)
    BY <1>1, <1>7, <2>1, <2>2 DEF PublishProgress
  <2>4. RecordOf(g).progress \in Seq(ProgressValues)
    BY <1>1, <2>1 DEF OperationRecord
  <2>5. LatestOf(record.progress, published'[g])
    BY <1>1, <2>1, <2>2, <2>3, <2>4, PushLatest
  <2>6. \A h \in Gens \ {g} : published'[h] = published[h]
    BY <1>7, <2>2 DEF PublishProgress
  <2> QED BY <1>7, <2>1, <2>5, <2>6, StoreLatest DEF PublishProgress
<1>8. CASE StartAttempt(g)
  <2> DEFINE a == RecordOf(g).next_attempt_sequence
             record == [RecordOf(g) EXCEPT !.next_attempt_sequence = a + 1,
                                           !.attempts = @ \cup {a}]
  <2>1. record.identity = g /\ record.progress = RecordOf(g).progress
    BY <1>1, <1>8 DEF StartAttempt, OperationRecord
  <2> QED BY <1>1, <1>8, <2>1, StoreLatest DEF StartAttempt
<1> QED BY <1>2, <1>3, <1>4, <1>5, <1>6, <1>7, <1>8 DEF LeaseStep, Queue, Start

LEMMA AttemptStepLatest ==
  ASSUME TypeOK, OneFate, ProgressTraced, NEW g \in Issued, NEW a \in AttemptNumbers,
         AttemptStep(g, a)
  PROVE  ProgressTraced'
<1>1. ASSUME Holds(g)
      PROVE  /\ RecordOf(g) \in OperationRecord /\ RecordOf(g).identity = g /\ g \in Gens
             /\ LatestOf(RecordOf(g).progress, published[g])
  BY <1>1, HeldTyped, HeldLatest DEF Holds, RecordOf
<1>2. ASSUME NEW class, FinishAttemptAndRelease(g, a, class) PROVE ProgressTraced'
  <2> DEFINE record == [RecordOf(g) EXCEPT !.attempts = {}, !.terminal = class]
  <2>1. /\ record.progress = RecordOf(g).progress
        /\ [record EXCEPT !.phase = "Released"].progress = record.progress
    BY <1>1, <1>2 DEF FinishAttemptAndRelease, OperationRecord
  <2> QED BY <1>2, <2>1, RetireLatest DEF FinishAttemptAndRelease
<1>3. CASE AttemptFinish(g, a) /\ Holds(g)
  <2> DEFINE record == [RecordOf(g) EXCEPT !.attempts = @ \ {a}]
  <2>1. record.identity = g /\ record.progress = RecordOf(g).progress
    BY <1>1, <1>3 DEF OperationRecord
  <2> QED BY <1>1, <1>3, <2>1, StoreLatest DEF AttemptFinish
<1>4. CASE AttemptFinish(g, a) /\ ~Holds(g)
  BY <1>4, SameLatest DEF AttemptFinish
<1> QED BY <1>2, <1>3, <1>4 DEF AttemptStep

LEMMA LatestStep == TypeOK /\ OneFate /\ ProgressTraced /\ [Next]_vars => ProgressTraced'
<1> SUFFICES ASSUME TypeOK, OneFate, ProgressTraced, [Next]_vars PROVE ProgressTraced'
  OBVIOUS
<1>1. ASSUME NEW id \in OpIds, Reserve(id) PROVE ProgressTraced'
  <2>1. next_sequence \in Gens \ Issued /\ Issued \subseteq Gens
    BY <1>1, IssuedAreGens DEF Reserve, TypeOK, Gens
  <2>2. LatestOf(<<>>, published[next_sequence])
    BY <2>1, RegistryAssumption DEF ProgressTraced, LatestOf
  <2>3. Issued' = Issued \cup {next_sequence}
    BY <1>1 DEF Reserve, Issued
  <2>4. ASSUME NEW x \in DOMAIN operations'
        PROVE  LatestOf(operations'[x].progress, published[operations'[x].identity])
    BY <1>1, <2>2, <2>4 DEF Reserve, NewRecord, ProgressTraced, ProgressIsLatest
  <2>5. UNCHANGED <<published, released>>
    BY <1>1 DEF Reserve
  <2> QED BY <2>3, <2>4, <2>5 DEF ProgressTraced, ProgressIsLatest, LatestOf
<1>2. CASE RequestCancelAll
  <2>1. ASSUME NEW id \in DOMAIN operations
        PROVE  /\ operations'[id].identity = operations[id].identity
               /\ operations'[id].progress = operations[id].progress
    BY <1>2 DEF RequestCancelAll, TypeOK, OperationRecord
  <2>2. DOMAIN operations' = DOMAIN operations /\ UNCHANGED <<published, released, leases>>
    BY <1>2 DEF RequestCancelAll
  <2> QED BY <2>1, <2>2, SameLatest
<1>3. ASSUME NEW g \in Issued, LeaseStep(g) PROVE ProgressTraced'
  BY <1>3, LeaseStepLatest
<1>4. ASSUME NEW g \in Issued, NEW a \in AttemptNumbers, AttemptStep(g, a) PROVE ProgressTraced'
  BY <1>4, AttemptStepLatest
<1>5. ASSUME NEW g \in armed, GuardStep(g) PROVE ProgressTraced'
  <2>1. g \in Issued
    BY DEF TypeOK
  <2>2. CASE ConsumerDrop(g) /\ Holds(g)
    <3> DEFINE record == [RecordOf(g) EXCEPT !.cancellation_requested = TRUE]
    <3>1. /\ record.identity = g /\ record.progress = RecordOf(g).progress
          /\ LatestOf(RecordOf(g).progress, published[g])
      BY <2>1, <2>2, HeldTyped, HeldLatest DEF OperationRecord, Holds, RecordOf
    <3> QED BY <2>1, <2>2, <3>1, StoreLatest DEF ConsumerDrop, MarkCancelled
  <2>3. CASE (ConsumerDrop(g) /\ ~Holds(g)) \/ ConsumerDisarm(g)
    BY <2>3, SameLatest DEF ConsumerDrop, ConsumerDisarm
  <2> QED BY <1>5, <2>2, <2>3 DEF GuardStep
<1>6. CASE UNCHANGED vars
  BY <1>6, SameLatest DEF vars
<1> QED BY <1>1, <1>2, <1>3, <1>4, <1>5, <1>6 DEF Next

(* The progress a live operation retains, and the progress its released    *)
(* slot keeps for late readers, is the latest part of what was accepted    *)
(* for that generation, and all of it while it fits, for any capacity      *)
(* (publish_progress, release).                                            *)
THEOREM RetainedProgressIsLatest == Spec => []ProgressIsLatest
<1>1. Init => ProgressTraced
  BY DEF Init, ProgressTraced, ProgressIsLatest, Issued
<1>2. TypeOK /\ OneFate /\ ProgressTraced /\ [Next]_vars => ProgressTraced'
  BY LatestStep
<1>3. ProgressTraced => ProgressIsLatest
  BY DEF ProgressTraced
<1> QED BY <1>1, <1>2, <1>3, TypeCorrect, EveryGenerationHasOneFate, PTL DEF Spec
-----------------------------------------------------------------------------
(* The refinement of the ledger: every step opens a fresh generation,      *)
(* passes on a cancellation, decides an outcome, closes a generation, or   *)
(* is invisible.                                                           *)

LedgerOutcome == [g \in Gens |-> OutcomeOf(g)]

LEMMA HeldEntry ==
  ASSUME TypeOK, NEW g \in Issued, Holds(g)
  PROVE  /\ <<leases[g], g>> \in LiveEntries
         /\ g \in Ledger!LiveGens
         /\ g \in Gens
         /\ leases[g] \in OpIds
<1>1. <<leases[g], g>> \in LiveEntries
  BY DEF LiveEntries, Holds
<1>2. g \in Ledger!LiveGens
  BY <1>1 DEF Ledger!LiveGens
<1> QED
  BY <1>1, <1>2, HeldTyped

LEMMA HeldOutcome ==
  ASSUME TypeOK, OneFate, NEW g \in Issued, Holds(g)
  PROVE  /\ OutcomeOf(g) = RecordOf(g).terminal
         /\ LedgerOutcome[g] = RecordOf(g).terminal
BY HeldTyped DEF OneFate, OutcomeOf, LedgerOutcome

(* What the ledger sees of a store: the record's terminal class and mark.  *)
LEMMA StoreSeen ==
  ASSUME TypeOK, OneFate, NEW g \in Issued, Holds(g),
         NEW record, record.identity = g, Store(g, record),
         RecordOf(g).cancellation_requested => record.cancellation_requested,
         record.cancellation_requested \in BOOLEAN,
         UNCHANGED <<leases, released>>
  PROVE  /\ LiveEntries' = LiveEntries
         /\ Issued' = Issued
         /\ LedgerOutcome' = [LedgerOutcome EXCEPT ![g] = record.terminal]
         /\ CancelledGens' = IF record.cancellation_requested
                             THEN CancelledGens \cup {g} ELSE CancelledGens
<1>1. /\ DOMAIN operations' = DOMAIN operations
      /\ operations'[leases[g]] = record
      /\ \A id \in DOMAIN operations : id # leases[g] => operations'[id] = operations[id]
  BY DEF Store, Holds
<1>2. IdentitiesKept
  BY StoreKeepsIdentities
<1>3. LiveEntries' = LiveEntries /\ Issued' = Issued
  BY <1>2 DEF IdentitiesKept, LiveEntries, Issued
<1>4. ASSUME NEW h \in Gens
      PROVE  OutcomeOf(h)' = IF h = g THEN record.terminal ELSE OutcomeOf(h)
  <2>1. CASE h = g
    BY <1>1, <1>2, <1>3, <2>1, HoldsKept DEF OneFate, OutcomeOf, RecordOf, IdentitiesKept
  <2>2. CASE h # g /\ h \in Issued
    <3>1. Holds(h) => leases[h] # leases[g]
      BY <2>2 DEF Holds
    <3> QED
      BY <1>1, <1>2, <1>3, <2>2, <3>1, HoldsKept
         DEF OutcomeOf, RecordOf, IdentitiesKept, Holds
  <2>3. CASE h \notin Issued
    BY <1>2, <1>3, <2>3 DEF OutcomeOf, IdentitiesKept
  <2> QED
    BY <2>1, <2>2, <2>3
<1>5. LedgerOutcome' = [LedgerOutcome EXCEPT ![g] = record.terminal]
  BY <1>4 DEF LedgerOutcome
<1>6. CancelledGens' = IF record.cancellation_requested
                       THEN CancelledGens \cup {g} ELSE CancelledGens
  BY <1>1, <1>2 DEF CancelledGens, IdentitiesKept, Holds, RecordOf
<1> QED
  BY <1>3, <1>5, <1>6

(* What the ledger sees of a retired generation.                           *)
LEMMA RetireSeen ==
  ASSUME TypeOK, OneFate, NEW g \in Issued, Holds(g),
         NEW record \in OperationRecord, Retire(g, record),
         record.cancellation_requested = RecordOf(g).cancellation_requested,
         UNCHANGED leases
  PROVE  /\ LiveEntries' = LiveEntries \ {<<leases[g], g>>}
         /\ Issued' = Issued
         /\ LedgerOutcome' = [LedgerOutcome EXCEPT ![g] = record.terminal]
         /\ CancelledGens' = CancelledGens
<1>1. Retired(g)
  BY RetireRetires
<1>2. /\ released'[g].terminal = record.terminal
      /\ released'[g].cancellation_requested = record.cancellation_requested
  BY DEF Retire, Snapshot, OperationRecord
<1>3. Issued' = Issued
  BY DEF Issued
<1>4. LiveEntries' = LiveEntries \ {<<leases[g], g>>}
  BY <1>1, OthersUntouched DEF Retired, LiveEntries, Holds
<1>5. ASSUME NEW h \in Gens
      PROVE  OutcomeOf(h)' = IF h = g THEN record.terminal ELSE OutcomeOf(h)
  <2>1. CASE h = g
    BY <1>1, <1>2, <2>1 DEF OutcomeOf, Retired
  <2>2. CASE h # g /\ h \in DOMAIN released
    BY <1>1, <2>2 DEF OutcomeOf, Retired
  <2>3. CASE h # g /\ h \notin DOMAIN released /\ h \in Issued
    <3>1. Holds(h) /\ Holds(h)' /\ leases[h] # leases[g]
      BY <1>1, <2>3, HoldsRetired DEF OneFate, Holds
    <3>2. h \notin DOMAIN released'
      BY <1>1, <2>3 DEF Retired
    <3> QED
      BY <1>1, <1>3, <2>3, <3>1, <3>2 DEF OutcomeOf, RecordOf, Retired, Holds
  <2>4. CASE h # g /\ h \notin DOMAIN released /\ h \notin Issued
    BY <1>1, <1>3, <2>4 DEF OutcomeOf, Retired
  <2> QED
    BY <2>1, <2>2, <2>3, <2>4
<1>6. LedgerOutcome' = [LedgerOutcome EXCEPT ![g] = record.terminal]
  BY <1>5 DEF LedgerOutcome
<1>7. g \notin DOMAIN released
  BY DEF OneFate
<1>8. ASSUME NEW h PROVE h \in CancelledGens' <=> h \in CancelledGens
  <2>1. CASE h = g
    <3>1. /\ leases[g] \in DOMAIN operations
          /\ operations[leases[g]].identity = g
          /\ operations[leases[g]].cancellation_requested = record.cancellation_requested
      BY DEF Holds, RecordOf
    <3>2. g \in CancelledGens <=> record.cancellation_requested
      BY <1>7, <3>1, OthersUntouched DEF CancelledGens
    <3>3. \A id \in DOMAIN operations' : operations'[id].identity # g
      BY <1>1, OthersUntouched DEF Retired
    <3>4. g \in CancelledGens' <=> record.cancellation_requested
      BY <1>1, <1>2, <3>3 DEF CancelledGens, Retired
    <3> QED
      BY <2>1, <3>2, <3>4
  <2>2. CASE h # g
    <3>1. \A id \in DOMAIN operations : operations[id].identity = h => id \in DOMAIN operations'
      BY <1>1, <2>2 DEF Retired, Holds
    <3>2. /\ \A id \in DOMAIN operations' : id \in DOMAIN operations /\ operations'[id] = operations[id]
          /\ h \in DOMAIN released' <=> h \in DOMAIN released
          /\ h \in DOMAIN released => released'[h] = released[h]
      BY <1>1, <2>2 DEF Retired
    <3> QED
      BY <3>1, <3>2 DEF CancelledGens
  <2> QED
    BY <2>1, <2>2
<1> QED
  BY <1>3, <1>4, <1>6, <1>8

LEMMA ReserveOpens ==
  ASSUME TypeOK, OneFate, NEW id \in OpIds, Reserve(id)
  PROVE  Ledger!Open(id, next_sequence) /\ next_sequence \in Gens
<1> DEFINE g == next_sequence
<1>1. Opened(id) /\ g \notin Issued /\ g \in Gens
  BY IssuedAreGens DEF Reserve, Opened, NewRecord
<1>2. \A entry \in LiveEntries : entry[1] # id
  BY <1>1 DEF LiveEntries, Opened
<1>3. LiveEntries' = LiveEntries \cup {<<id, g>>}
  BY <1>1 DEF LiveEntries, Opened
<1>4. Issued' = Issued \cup {g}
  BY <1>1 DEF Opened, Issued
<1>5. ASSUME NEW h \in Gens PROVE OutcomeOf(h)' = OutcomeOf(h)
  <2>1. CASE h = g
    <3>1. h \notin Issued /\ h \notin DOMAIN released /\ Holds(h)' /\ h \in Issued'
      BY <1>1, <1>4, <2>1, HoldsOpened DEF OneFate
    <3>2. RecordOf(h)'.terminal = "None"
      BY <1>1, <2>1 DEF Reserve, RecordOf, NewRecord, Issued
    <3> QED
      BY <1>1, <3>1, <3>2 DEF OutcomeOf, Opened
  <2>2. CASE h \in Issued
    <3>1. h # g /\ h \in Issued' /\ (Holds(h)' <=> Holds(h)) /\ leases'[h] = leases[h]
      BY <1>1, <1>4, <2>2, HoldsOpened DEF Opened
    <3> QED
      BY <1>1, <2>2, <3>1 DEF OutcomeOf, RecordOf, Opened, Holds
  <2>3. CASE h \notin Issued /\ h # g
    BY <1>1, <1>4, <2>3 DEF OutcomeOf, Opened
  <2> QED
    BY <2>1, <2>2, <2>3
<1>6. LedgerOutcome' = LedgerOutcome
  BY <1>5 DEF LedgerOutcome
<1>7. operations'[id].cancellation_requested = FALSE
  BY DEF Reserve, NewRecord
<1>8. CancelledGens' = CancelledGens
  BY <1>1, <1>7 DEF CancelledGens, Opened
<1> QED
  BY <1>1, <1>2, <1>3, <1>4, <1>6, <1>8 DEF Ledger!Open, LedgerOutcome

(* A store that changes neither the mark nor the terminal class is unseen; *)
(* one that sets the mark is a cancellation.                               *)
LEMMA PlainStoreUnseen ==
  ASSUME TypeOK, OneFate, Traced, NEW g \in Issued, Holds(g),
         NEW record, record.identity = g, Store(g, record),
         record.terminal = RecordOf(g).terminal,
         record.cancellation_requested = RecordOf(g).cancellation_requested,
         UNCHANGED <<leases, released>>
  PROVE  UNCHANGED Ledger!ledgerVars
<1>1. RecordOf(g).cancellation_requested \in BOOLEAN
  BY HeldTyped DEF OperationRecord
<1>2. RecordOf(g).cancellation_requested => g \in CancelledGens
  BY DEF CancelledGens, RecordOf, Holds
<1>3. LedgerOutcome = [LedgerOutcome EXCEPT ![g] = record.terminal]
  BY HeldOutcome DEF LedgerOutcome
<1>4. record.cancellation_requested => CancelledGens \cup {g} = CancelledGens
  BY <1>2
<1>5. /\ LiveEntries' = LiveEntries
      /\ Issued' = Issued
      /\ LedgerOutcome' = [LedgerOutcome EXCEPT ![g] = record.terminal]
      /\ CancelledGens' = IF record.cancellation_requested
                          THEN CancelledGens \cup {g} ELSE CancelledGens
  BY <1>1, StoreSeen
<1> QED
  BY <1>3, <1>4, <1>5 DEF Ledger!ledgerVars, LedgerOutcome

LEMMA MarkCancels ==
  ASSUME TypeOK, OneFate, Traced, NEW g \in Issued, Holds(g), MarkCancelled(g),
         UNCHANGED <<leases, released>>
  PROVE  \E targets \in SUBSET Ledger!LiveGens : Ledger!Cancel(targets)
<1> DEFINE record == [RecordOf(g) EXCEPT !.cancellation_requested = TRUE]
<1>1. RecordOf(g) \in OperationRecord /\ RecordOf(g).identity = g
  BY HeldTyped, HeldTraced
<1>2. /\ record.identity = g
      /\ record.cancellation_requested = TRUE
      /\ record.terminal = RecordOf(g).terminal
  BY <1>1 DEF OperationRecord
<1>3. LedgerOutcome = [LedgerOutcome EXCEPT ![g] = record.terminal]
  BY <1>2, HeldOutcome DEF LedgerOutcome
<1>4. /\ LiveEntries' = LiveEntries
      /\ Issued' = Issued
      /\ LedgerOutcome' = LedgerOutcome
      /\ CancelledGens' = CancelledGens \cup {g}
  BY <1>2, <1>3, StoreSeen DEF MarkCancelled
<1>5. {g} \in SUBSET Ledger!LiveGens
  BY HeldEntry
<1>6. Ledger!Cancel({g})
  BY <1>4, <1>5 DEF Ledger!Cancel, LedgerOutcome
<1> QED
  BY <1>5, <1>6

LEMMA CancelAllCancels ==
  ASSUME TypeOK, OneFate, RequestCancelAll
  PROVE  \E targets \in SUBSET Ledger!LiveGens : Ledger!Cancel(targets)
<1> DEFINE targets == Ledger!LiveGens
<1>1. /\ DOMAIN operations' = DOMAIN operations
      /\ \A id \in DOMAIN operations :
           /\ operations[id] \in OperationRecord
           /\ operations'[id].identity = operations[id].identity
           /\ operations'[id].terminal = operations[id].terminal
           /\ operations'[id].cancellation_requested = TRUE
  BY DEF RequestCancelAll, TypeOK, OperationRecord
<1>2. UNCHANGED <<leases, released>>
  BY DEF RequestCancelAll
<1>3. LiveEntries' = LiveEntries /\ Issued' = Issued
  BY <1>1, <1>2 DEF LiveEntries, Issued
<1>4. \A h : h \in targets <=> \E id \in DOMAIN operations : operations[id].identity = h
  <2>1. \A h : h \in targets <=> \E entry \in LiveEntries : entry[2] = h
    BY DEF Ledger!LiveGens
  <2>2. ASSUME NEW id \in DOMAIN operations PROVE operations[id].identity \in targets
    <3>1. <<id, operations[id].identity>> \in LiveEntries
      BY DEF LiveEntries
    <3> QED
      BY <2>1, <3>1
  <2>3. ASSUME NEW h \in targets PROVE \E id \in DOMAIN operations : operations[id].identity = h
    <3>1. PICK entry \in LiveEntries : entry[2] = h
      BY <2>1
    <3>2. PICK id \in DOMAIN operations : entry = <<id, operations[id].identity>>
      BY DEF LiveEntries
    <3> QED
      BY <3>1, <3>2
  <2> QED
    BY <2>2, <2>3
<1>5. CancelledGens' = CancelledGens \cup targets
  BY <1>1, <1>2, <1>4 DEF CancelledGens
<1>6. IdentitiesKept
  BY <1>1, <1>2 DEF IdentitiesKept
<1>7. \A h \in Gens : OutcomeOf(h)' = OutcomeOf(h)
  BY <1>1, <1>2, <1>3, <1>6, HoldsKept DEF OutcomeOf, RecordOf, Holds
<1>8. LedgerOutcome' = LedgerOutcome
  BY <1>7 DEF LedgerOutcome
<1>9. Ledger!Cancel(targets)
  BY <1>3, <1>5, <1>8 DEF Ledger!Cancel, LedgerOutcome
<1> QED
  BY <1>9

LEMMA TerminalDecides ==
  ASSUME TypeOK, OneFate, Traced, NEW g \in Issued, NEW class \in TerminalClass,
         Terminal(g, class)
  PROVE  Ledger!Decide(g, class) /\ g \in Gens
<1> DEFINE record == [RecordOf(g) EXCEPT !.terminal = class, !.phase = "Terminal"]
<1>1. Holds(g) /\ RecordOf(g) \in OperationRecord /\ RecordOf(g).identity = g
  BY HeldTyped, HeldTraced DEF Terminal
<1>2. /\ record.identity = g /\ record.terminal = class
      /\ record.cancellation_requested = RecordOf(g).cancellation_requested
      /\ record.cancellation_requested \in BOOLEAN
  BY <1>1 DEF OperationRecord
<1>3. RecordOf(g).cancellation_requested => g \in CancelledGens
  BY <1>1 DEF CancelledGens, RecordOf, Holds
<1>4. LedgerOutcome[g] = "None" /\ g \in Ledger!LiveGens /\ g \in Gens
  BY <1>1, HeldOutcome, HeldEntry DEF Terminal
<1>5. /\ LiveEntries' = LiveEntries
      /\ Issued' = Issued
      /\ LedgerOutcome' = [LedgerOutcome EXCEPT ![g] = class]
      /\ CancelledGens' = CancelledGens
  <2>1. Store(g, record) /\ UNCHANGED <<leases, released>>
    BY DEF Terminal
  <2>2. record.cancellation_requested => CancelledGens \cup {g} = CancelledGens
    BY <1>2, <1>3
  <2> HIDE DEF record
  <2>3. /\ LiveEntries' = LiveEntries
        /\ Issued' = Issued
        /\ LedgerOutcome' = [LedgerOutcome EXCEPT ![g] = record.terminal]
        /\ CancelledGens' = IF record.cancellation_requested
                            THEN CancelledGens \cup {g} ELSE CancelledGens
    BY <1>1, <1>2, <2>1, StoreSeen
  <2> QED
    BY <1>2, <2>2, <2>3
<1> QED
  BY <1>4, <1>5 DEF Ledger!Decide, LedgerOutcome

(* Retiring a generation closes it with the class of its last record.      *)
LEMMA RetireCloses ==
  ASSUME TypeOK, OneFate, NEW g \in Issued, Holds(g),
         NEW record \in OperationRecord, Retire(g, record),
         record.cancellation_requested = RecordOf(g).cancellation_requested,
         RecordOf(g).terminal \in {"None", record.terminal},
         UNCHANGED leases
  PROVE  Ledger!Close(leases[g], g, record.terminal)
<1>1. <<leases[g], g>> \in LiveEntries /\ LedgerOutcome[g] \in {"None", record.terminal}
  BY HeldEntry, HeldOutcome
<1> QED
  BY <1>1, RetireSeen DEF Ledger!Close, LedgerOutcome

LEMMA LeaseStepSeen ==
  ASSUME TypeOK, OneFate, Traced, TerminalMatchesPhase, NEW g \in Issued, LeaseStep(g)
  PROVE  [Ledger!Next]_(Ledger!ledgerVars)
<1>1. ASSUME Holds(g)
      PROVE  /\ RecordOf(g) \in OperationRecord /\ RecordOf(g).identity = g
             /\ Sound(RecordOf(g)) /\ g \in Gens /\ leases[g] \in OpIds
  BY <1>1, HeldTyped, HeldTraced, HeldSound
<1>2. ASSUME NEW expected, NEW next, Transition(g, expected, next)
      PROVE  UNCHANGED Ledger!ledgerVars
  <2> DEFINE record == [RecordOf(g) EXCEPT !.phase = next]
  <2>1. /\ record.identity = g /\ record.terminal = RecordOf(g).terminal
        /\ record.cancellation_requested = RecordOf(g).cancellation_requested
    BY <1>1, <1>2 DEF Transition, OperationRecord
  <2> QED
    BY <1>2, <2>1, PlainStoreUnseen DEF Transition
<1>3. ASSUME NEW class \in TerminalClass, Terminal(g, class) PROVE Ledger!Next
  BY <1>3, TerminalDecides DEF Ledger!Next
<1>4. CASE Release(g)
  <2>1. RecordOf(g).terminal \in TerminalClass
    BY <1>1, <1>4 DEF Release, Sound, OperationRecord
  <2>2. Ledger!Close(leases[g], g, RecordOf(g).terminal)
    BY <1>1, <1>4, RetireCloses DEF Release
  <2> QED
    BY <1>1, <1>4, <2>1, <2>2 DEF Ledger!Next, Release
<1>5. CASE FailSetupAndRelease(g)
  <2> DEFINE record == [RecordOf(g) EXCEPT !.attempts = {}, !.terminal = "Failed"]
  <2>1. /\ record \in OperationRecord /\ record.terminal = "Failed"
        /\ record.cancellation_requested = RecordOf(g).cancellation_requested
    BY <1>1, <1>5 DEF FailSetupAndRelease, OperationRecord, TerminalClass
  <2>2. Ledger!Close(leases[g], g, record.terminal)
    BY <1>5, <2>1, RetireCloses DEF FailSetupAndRelease
  <2>3. Ledger!Close(leases[g], g, "Failed")
    BY <2>1, <2>2
  <2> QED
    BY <1>1, <1>5, <2>3 DEF Ledger!Next, FailSetupAndRelease, TerminalClass
<1>6. CASE RequestCancel(g)
  BY <1>6, MarkCancels DEF RequestCancel, Ledger!Next
<1>7. ASSUME NEW value, PublishProgress(g, value) PROVE UNCHANGED Ledger!ledgerVars
  <2> DEFINE record == [RecordOf(g) EXCEPT !.progress = Push(@, value)]
  <2>1. /\ record.identity = g /\ record.terminal = RecordOf(g).terminal
        /\ record.cancellation_requested = RecordOf(g).cancellation_requested
    BY <1>1, <1>7 DEF PublishProgress, OperationRecord
  <2> QED
    BY <1>7, <2>1, PlainStoreUnseen DEF PublishProgress
<1>8. CASE StartAttempt(g)
  <2> DEFINE a == RecordOf(g).next_attempt_sequence
             record == [RecordOf(g) EXCEPT !.next_attempt_sequence = a + 1,
                                           !.attempts = @ \cup {a}]
  <2>1. /\ record.identity = g /\ record.terminal = RecordOf(g).terminal
        /\ record.cancellation_requested = RecordOf(g).cancellation_requested
    BY <1>1, <1>8 DEF StartAttempt, OperationRecord
  <2>2. Holds(g) /\ Store(g, record) /\ UNCHANGED <<leases, released>>
    BY <1>8 DEF StartAttempt
  <2> HIDE DEF record
  <2> QED
    BY <2>1, <2>2, PlainStoreUnseen
<1> QED
  BY <1>2, <1>3, <1>4, <1>5, <1>6, <1>7, <1>8 DEF LeaseStep, Queue, Start

LEMMA AttemptStepSeen ==
  ASSUME TypeOK, OneFate, Traced, NEW g \in Issued, NEW a \in AttemptNumbers,
         AttemptStep(g, a)
  PROVE  [Ledger!Next]_(Ledger!ledgerVars)
<1>1. ASSUME Holds(g)
      PROVE  /\ RecordOf(g) \in OperationRecord /\ RecordOf(g).identity = g
             /\ g \in Gens /\ leases[g] \in OpIds
  BY <1>1, HeldTyped, HeldTraced
<1>2. ASSUME NEW class \in TerminalClass, FinishAttemptAndRelease(g, a, class)
      PROVE  Ledger!Next
  <2> DEFINE record == [RecordOf(g) EXCEPT !.attempts = {}, !.terminal = class]
  <2>1. /\ record \in OperationRecord /\ record.terminal = class
        /\ record.cancellation_requested = RecordOf(g).cancellation_requested
    BY <1>1, <1>2 DEF FinishAttemptAndRelease, OperationRecord
  <2>2. Ledger!Close(leases[g], g, record.terminal)
    BY <1>2, <2>1, RetireCloses DEF FinishAttemptAndRelease
  <2>3. Ledger!Close(leases[g], g, class)
    BY <2>1, <2>2
  <2> QED
    BY <1>1, <1>2, <2>3 DEF Ledger!Next, FinishAttemptAndRelease
<1>3. CASE AttemptFinish(g, a) /\ Holds(g)
  <2> DEFINE record == [RecordOf(g) EXCEPT !.attempts = @ \ {a}]
  <2>1. /\ record.identity = g /\ record.terminal = RecordOf(g).terminal
        /\ record.cancellation_requested = RecordOf(g).cancellation_requested
    BY <1>1, <1>3 DEF OperationRecord
  <2> QED
    BY <1>3, <2>1, PlainStoreUnseen DEF AttemptFinish
<1>4. CASE AttemptFinish(g, a) /\ ~Holds(g)
  BY <1>4 DEF AttemptFinish, Ledger!ledgerVars, LiveEntries, Issued, OutcomeOf, RecordOf,
     Holds, CancelledGens
<1> QED
  BY <1>2, <1>3, <1>4 DEF AttemptStep

LEMMA LedgerStep ==
  TypeOK /\ OneFate /\ Traced /\ TerminalMatchesPhase /\ [Next]_vars
    => [Ledger!Next]_(Ledger!ledgerVars)
<1> SUFFICES ASSUME TypeOK, OneFate, Traced, TerminalMatchesPhase, [Next]_vars
             PROVE  [Ledger!Next]_(Ledger!ledgerVars)
  OBVIOUS
<1>1. ASSUME NEW id \in OpIds, Reserve(id) PROVE Ledger!Next
  BY <1>1, ReserveOpens DEF Ledger!Next
<1>2. CASE RequestCancelAll
  BY <1>2, CancelAllCancels DEF Ledger!Next
<1>3. ASSUME NEW g \in Issued, LeaseStep(g) PROVE [Ledger!Next]_(Ledger!ledgerVars)
  BY <1>3, LeaseStepSeen
<1>4. ASSUME NEW g \in Issued, NEW a \in AttemptNumbers, AttemptStep(g, a)
      PROVE  [Ledger!Next]_(Ledger!ledgerVars)
  BY <1>4, AttemptStepSeen
<1>5. ASSUME NEW g \in armed, GuardStep(g) PROVE [Ledger!Next]_(Ledger!ledgerVars)
  <2>1. g \in Issued
    BY DEF TypeOK
  <2>2. CASE ConsumerDrop(g) /\ Holds(g)
    BY <2>1, <2>2, MarkCancels DEF ConsumerDrop, Ledger!Next
  <2>3. CASE (ConsumerDrop(g) /\ ~Holds(g)) \/ ConsumerDisarm(g)
    BY <2>3 DEF ConsumerDrop, ConsumerDisarm, Ledger!ledgerVars, LiveEntries, Issued,
       OutcomeOf, RecordOf, Holds, CancelledGens
  <2> QED
    BY <1>5, <2>2, <2>3 DEF GuardStep
<1>6. CASE UNCHANGED vars
  BY <1>6 DEF vars, Ledger!ledgerVars, LiveEntries, Issued, OutcomeOf, RecordOf, Holds,
     CancelledGens
<1> QED
  BY <1>1, <1>2, <1>3, <1>4, <1>5, <1>6 DEF Next

(* Whatever ids, generations, attempts and stale holders there are, the    *)
(* registry behaves like the ledger.                                       *)
THEOREM RegistryImplementsLedger == Spec => ImplementsLedger
<1>1. Init => Ledger!Init
  BY DEF Init, Ledger!Init, LiveEntries, Issued, OutcomeOf, CancelledGens
<1>2. TypeOK /\ OneFate /\ Traced /\ TerminalMatchesPhase /\ [Next]_vars
        => [Ledger!Next]_(Ledger!ledgerVars)
  BY LedgerStep
<1> QED
  BY <1>1, <1>2, TypeCorrect, EveryGenerationHasOneFate, AlwaysTraced, PhasesAgree,
     PTL DEF Spec, ImplementsLedger, Ledger!Spec
=============================================================================
