------------------------- MODULE OperationRegistry -------------------------
(***************************************************************************)
(* The host's operation registry (operation_lifecycle.rs).  Every method   *)
(* runs under the registry mutex, so each is one action.  A method that    *)
(* returns an error changes nothing, except reserve on an exhausted        *)
(* sequence (which also changes nothing) and AttemptLease::finish, which   *)
(* consumes its lease whatever it returns.                                 *)
(*                                                                         *)
(* Leases are cloned freely and outlive the operation they were made for,  *)
(* so every lease operation may be called for every generation ever        *)
(* issued, at any time, by any number of holders.  A generation is the     *)
(* `sequence` of its OperationIdentity.  AttemptLeases are cloned too: one *)
(* whose attempt some clone has finished already changes nothing, so       *)
(* attempt_leases holds the attempts no clone has finished.  Every         *)
(* operation has the registry's own progress capacity, as in reserve.      *)
(* release fills the slot while it holds both locks, and snapshot looks    *)
(* under the registry lock first, so a lease's snapshot is one read.       *)
(***************************************************************************)
EXTENDS Naturals, Sequences, FiniteSets

CONSTANTS
  OpIds,              (* public operation ids                              *)
  MaxSequence,        (* stands for u64::MAX of next_sequence              *)
  MaxAttemptSequence, (* stands for u64::MAX of next_attempt_sequence      *)
  ProgressCapacity,   (* length of the retained progress queue             *)
  ProgressValues,     (* the progress numbers a caller publishes           *)
  MaxPublished        (* bound: progress numbers published per generation  *)

ASSUME RegistryAssumption ==
  /\ MaxSequence \in Nat \ {0}
  /\ MaxAttemptSequence \in Nat \ {0}
  /\ ProgressCapacity \in Nat
  /\ MaxPublished \in Nat

VARIABLES
  next_sequence,      (* RegistryState::next_sequence                      *)
  operations,         (* RegistryState::operations, id to record           *)
  leases,             (* the identities handed out, generation to id       *)
  released,           (* the filled `released` slots, by generation        *)
  armed,              (* generations whose ConsumerGuard is still armed    *)
  attempt_leases,     (* attempts whose AttemptLease no holder finished    *)
  asked,              (* history: generations whose cancel call succeeded  *)
  published           (* history: progress numbers accepted, in order      *)

vars == <<next_sequence, operations, leases, released, armed,
          attempt_leases, asked, published>>

Gens == 1 .. (MaxSequence - 1)
AttemptNumbers == 1 .. (MaxAttemptSequence - 1)
TerminalClass == {"Completed", "Cancelled", "Failed"}
OperationPhase == {"Reserved", "Queued", "Running", "Terminal", "Released"}

OperationRecord ==
  [identity : Gens, phase : OperationPhase, cancellation_requested : BOOLEAN,
   terminal : TerminalClass \cup {"None"}, progress : Seq(ProgressValues),
   next_attempt_sequence : 1 .. MaxAttemptSequence,
   attempts : SUBSET AttemptNumbers]

OperationSnapshot ==
  [identity : Gens, phase : OperationPhase, cancellation_requested : BOOLEAN,
   terminal : TerminalClass \cup {"None"}, progress : Seq(ProgressValues)]

Issued == DOMAIN leases

(* A faulty record_mut, for mutation: it looks up the id only.             *)
FaultyHolds(g) == leases[g] \in DOMAIN operations

(* record_mut: the record a lease may touch is the one under its id, and   *)
(* only while that record still carries the lease's own identity.          *)
Holds(g) ==
  /\ leases[g] \in DOMAIN operations
  /\ operations[leases[g]].identity = g

RecordOf(g) == operations[leases[g]]

Snapshot(record) ==
  [identity |-> record.identity, phase |-> record.phase,
   cancellation_requested |-> record.cancellation_requested,
   terminal |-> record.terminal, progress |-> record.progress]

(* OperationLease::snapshot: an Option, as a set of at most one snapshot.  *)
LeaseSnapshot(g) ==
  IF leases[g] \in DOMAIN operations
  THEN {Snapshot(r) : r \in {x \in {operations[leases[g]]} : x.identity = g}}
  ELSE {released[h] : h \in {g} \cap DOMAIN released}

NewRecord(g) ==
  [identity |-> g, phase |-> "Reserved", cancellation_requested |-> FALSE,
   terminal |-> "None", progress |-> <<>>, next_attempt_sequence |-> 1,
   attempts |-> {}]

Store(g, record) ==
  operations' = [operations EXCEPT ![leases[g]] = record]

(* The common end of release, finish_attempt_and_release and               *)
(* fail_setup_and_release: remove the record and fill the released slot.   *)
Retire(g, record) ==
  /\ operations' = [id \in DOMAIN operations \ {leases[g]} |-> operations[id]]
  /\ released' = [h \in DOMAIN released \cup {g} |->
                    IF h = g THEN Snapshot([record EXCEPT !.phase = "Released"])
                             ELSE released[h]]

---------------------------------------------------------------------------

Init ==
  /\ next_sequence = 1
  /\ operations = [id \in {} |-> NewRecord(1)]
  /\ leases = [g \in {} |-> {}]
  /\ released = [g \in {} |-> Snapshot(NewRecord(1))]
  /\ armed = {}
  /\ attempt_leases = {}
  /\ asked = {}
  /\ published = [g \in Gens |-> <<>>]

(* reserve: Duplicate when the id is present, Exhausted when the next      *)
(* sequence does not fit; a fresh identity, lease and armed guard else.    *)
Reserve(id) ==
  /\ id \notin DOMAIN operations
  /\ next_sequence < MaxSequence
  /\ next_sequence' = next_sequence + 1
  /\ operations' = [x \in DOMAIN operations \cup {id} |->
                      IF x = id THEN NewRecord(next_sequence) ELSE operations[x]]
  /\ leases' = [g \in Issued \cup {next_sequence} |->
                  IF g = next_sequence THEN id ELSE leases[g]]
  /\ armed' = armed \cup {next_sequence}
  /\ UNCHANGED <<released, attempt_leases, asked, published>>

RequestCancelAll ==
  /\ operations' = [id \in DOMAIN operations |->
                      [operations[id] EXCEPT !.cancellation_requested = TRUE]]
  /\ asked' = asked \cup {operations[id].identity : id \in DOMAIN operations}
  /\ UNCHANGED <<next_sequence, leases, released, armed, attempt_leases, published>>

Transition(g, expected, next) ==
  /\ Holds(g)
  /\ RecordOf(g).phase = expected
  /\ Store(g, [RecordOf(g) EXCEPT !.phase = next])
  /\ UNCHANGED <<next_sequence, leases, released, armed, attempt_leases,
                 asked, published>>

Queue(g) == Transition(g, "Reserved", "Queued")

Start(g) == Transition(g, "Queued", "Running")

Terminal(g, class) ==
  /\ Holds(g)
  /\ RecordOf(g).phase = "Running"
  /\ RecordOf(g).terminal = "None"
  /\ Store(g, [RecordOf(g) EXCEPT !.terminal = class, !.phase = "Terminal"])
  /\ UNCHANGED <<next_sequence, leases, released, armed, attempt_leases,
                 asked, published>>

Release(g) ==
  /\ Holds(g)
  /\ RecordOf(g).phase = "Terminal"
  /\ RecordOf(g).attempts = {}
  /\ Retire(g, RecordOf(g))
  /\ UNCHANGED <<next_sequence, leases, armed, attempt_leases, asked, published>>

(* finish_attempt_and_release: the executor's own attempt must be the only *)
(* one; it ends, the terminal is set and the record goes, in one step.     *)
(* The executor then drops its AttemptLease.                               *)
FinishAttemptAndRelease(g, a, class) ==
  /\ <<g, a>> \in attempt_leases
  /\ Holds(g)
  /\ RecordOf(g).phase = "Running"
  /\ RecordOf(g).terminal = "None"
  /\ RecordOf(g).attempts = {a}
  /\ Retire(g, [RecordOf(g) EXCEPT !.attempts = {}, !.terminal = class])
  /\ attempt_leases' = attempt_leases \ {<<g, a>>}
  /\ UNCHANGED <<next_sequence, leases, armed, asked, published>>

(* A faulty fail_setup_and_release, for mutation: it overrides a terminal. *)
FaultyFailSetupAndRelease(g) ==
  /\ Holds(g)
  /\ Retire(g, [RecordOf(g) EXCEPT !.attempts = {}, !.terminal = "Failed"])
  /\ UNCHANGED <<next_sequence, leases, armed, attempt_leases, asked, published>>

(* fail_setup_and_release: rollback from any phase without a terminal.     *)
FailSetupAndRelease(g) ==
  /\ Holds(g)
  /\ RecordOf(g).terminal = "None"
  /\ Retire(g, [RecordOf(g) EXCEPT !.attempts = {}, !.terminal = "Failed"])
  /\ UNCHANGED <<next_sequence, leases, armed, attempt_leases, asked, published>>

MarkCancelled(g) ==
  /\ Store(g, [RecordOf(g) EXCEPT !.cancellation_requested = TRUE])
  /\ asked' = asked \cup {g}

RequestCancel(g) ==
  /\ Holds(g)
  /\ MarkCancelled(g)
  /\ UNCHANGED <<next_sequence, leases, released, armed, attempt_leases, published>>

(* Dropping an armed ConsumerGuard asks for cancellation; Stale is ignored.*)
ConsumerDrop(g) ==
  /\ g \in armed
  /\ armed' = armed \ {g}
  /\ IF Holds(g) THEN MarkCancelled(g) ELSE UNCHANGED <<operations, asked>>
  /\ UNCHANGED <<next_sequence, leases, released, attempt_leases, published>>

ConsumerDisarm(g) ==
  /\ g \in armed
  /\ armed' = armed \ {g}
  /\ UNCHANGED <<next_sequence, operations, leases, released, attempt_leases,
                 asked, published>>

(* A faulty push, for mutation: the oldest number goes one push too late.  *)
FaultyPush(queue, value) ==
  IF ProgressCapacity = 0 THEN queue
  ELSE Append(IF Len(queue) > ProgressCapacity THEN Tail(queue) ELSE queue, value)

(* The queue of progress numbers, oldest dropped when it is full.          *)
Push(queue, value) ==
  IF ProgressCapacity = 0 THEN queue
  ELSE Append(IF Len(queue) = ProgressCapacity THEN Tail(queue) ELSE queue, value)

PublishProgress(g, value) ==
  /\ Holds(g)
  /\ RecordOf(g).phase = "Running"
  /\ RecordOf(g).terminal = "None"
  /\ Len(published[g]) < MaxPublished
  /\ Store(g, [RecordOf(g) EXCEPT !.progress = Push(@, value)])
  /\ published' = [published EXCEPT ![g] = Append(@, value)]
  /\ UNCHANGED <<next_sequence, leases, released, armed, attempt_leases, asked>>

StartAttempt(g) ==
  LET a == RecordOf(g).next_attempt_sequence IN
  /\ Holds(g)
  /\ RecordOf(g).phase = "Running"
  /\ a < MaxAttemptSequence
  /\ Store(g, [RecordOf(g) EXCEPT !.next_attempt_sequence = a + 1,
                                  !.attempts = @ \cup {a}])
  /\ attempt_leases' = attempt_leases \cup {<<g, a>>}
  /\ UNCHANGED <<next_sequence, leases, released, armed, asked, published>>

(* A faulty finish of an attempt, for mutation: the record is found by id. *)
FaultyAttemptFinish(g, a) ==
  /\ <<g, a>> \in attempt_leases
  /\ attempt_leases' = attempt_leases \ {<<g, a>>}
  /\ IF leases[g] \in DOMAIN operations
     THEN Store(g, [RecordOf(g) EXCEPT !.attempts = @ \ {a}])
     ELSE UNCHANGED operations
  /\ UNCHANGED <<next_sequence, leases, released, armed, asked, published>>

(* AttemptLease::finish consumes the lease; the attempt goes only from the *)
(* record of the operation it was started for.                             *)
AttemptFinish(g, a) ==
  /\ <<g, a>> \in attempt_leases
  /\ attempt_leases' = attempt_leases \ {<<g, a>>}
  /\ IF Holds(g)
     THEN Store(g, [RecordOf(g) EXCEPT !.attempts = @ \ {a}])
     ELSE UNCHANGED operations
  /\ UNCHANGED <<next_sequence, leases, released, armed, asked, published>>

LeaseStep(g) ==
  \/ Queue(g)
  \/ Start(g)
  \/ \E class \in TerminalClass : Terminal(g, class)
  \/ Release(g)
  \/ FailSetupAndRelease(g)
  \/ RequestCancel(g)
  \/ \E value \in ProgressValues : PublishProgress(g, value)
  \/ StartAttempt(g)

AttemptStep(g, a) ==
  \/ \E class \in TerminalClass : FinishAttemptAndRelease(g, a, class)
  \/ AttemptFinish(g, a)

GuardStep(g) == ConsumerDrop(g) \/ ConsumerDisarm(g)

Next ==
  \/ \E id \in OpIds : Reserve(id)
  \/ RequestCancelAll
  \/ \E g \in Issued : LeaseStep(g)
  \/ \E g \in Issued, a \in AttemptNumbers : AttemptStep(g, a)
  \/ \E g \in armed : GuardStep(g)

Spec == Init /\ [][Next]_vars

---------------------------------------------------------------------------

(* Every variable has the shape of the Rust value it stands for.           *)
TypeOK ==
  /\ next_sequence \in 1 .. MaxSequence
  /\ DOMAIN operations \subseteq OpIds
  /\ \A id \in DOMAIN operations : operations[id] \in OperationRecord
  /\ leases \in [1 .. (next_sequence - 1) -> OpIds]
  /\ DOMAIN released \subseteq Gens
  /\ \A g \in DOMAIN released : released[g] \in OperationSnapshot
  /\ armed \subseteq Issued
  /\ attempt_leases \subseteq Gens \X AttemptNumbers
  /\ asked \subseteq Gens
  /\ published \in [Gens -> Seq(ProgressValues)]

(* Each generation ever issued is either the record under its id or a      *)
(* filled released slot, never both and never neither: reserve, release,   *)
(* finish_attempt_and_release and fail_setup_and_release, called by racing *)
(* holders of stale and current leases, neither lose nor resurrect one.    *)
OneFate ==
  /\ \A g \in Issued : Holds(g) <=> g \notin DOMAIN released
  /\ DOMAIN released \subseteq Issued
  /\ \A id \in DOMAIN operations :
       operations[id].identity \in Issued /\ leases[operations[id].identity] = id

(* A cancellation mark, live or in a released snapshot, is there exactly   *)
(* when that very generation was asked to cancel while it was live: a      *)
(* stale lease, guard or ticket never cancels the id's next admission, and *)
(* an accepted request is never lost.                                      *)
CancelReachesOnlyItsGeneration ==
  /\ \A id \in DOMAIN operations :
       operations[id].cancellation_requested <=> operations[id].identity \in asked
  /\ \A g \in DOMAIN released : released[g].cancellation_requested <=> g \in asked

(* The attempts of a live record are the unconsumed AttemptLeases of that  *)
(* generation.  Attempt numbers restart at 1 for each generation, so a     *)
(* leftover lease of an earlier admission carries the number of a current  *)
(* attempt; finishing it must not end that attempt.                        *)
AttemptsBelongToTheirLeases ==
  \A id \in DOMAIN operations :
    operations[id].attempts =
      {a \in AttemptNumbers : <<operations[id].identity, a>> \in attempt_leases}

(* What a released slot says is final: phase Released and a terminal class.*)
(* An operation that ended Completed or Cancelled has no executor left     *)
(* holding an attempt of it; only a rollback may leave one behind.         *)
ReleasedIsFinal ==
  \A g \in DOMAIN released :
    /\ released[g].identity = g
    /\ released[g].phase = "Released"
    /\ released[g].terminal \in TerminalClass
    /\ released[g].terminal # "Failed" =>
         \A a \in AttemptNumbers : <<g, a>> \notin attempt_leases

(* The terminal class and the phase of a live record agree.                *)
TerminalMatchesPhase ==
  \A id \in DOMAIN operations :
    /\ operations[id].phase # "Released"
    /\ operations[id].terminal # "None" <=> operations[id].phase = "Terminal"
    /\ operations[id].attempts # {} => operations[id].phase \in {"Running", "Terminal"}

(* The retained progress of a generation, live or released, is the latest  *)
(* part of what was accepted for it, whole while it fits the capacity.     *)
LatestOf(queue, all) ==
  /\ Len(queue) = IF Len(all) < ProgressCapacity THEN Len(all) ELSE ProgressCapacity
  /\ \A i \in 1 .. Len(queue) : queue[i] = all[Len(all) - Len(queue) + i]

ProgressIsLatest ==
  /\ \A id \in DOMAIN operations :
       LatestOf(operations[id].progress, published[operations[id].identity])
  /\ \A g \in DOMAIN released : LatestOf(released[g].progress, published[g])

(* A lease only ever reads its own generation.  It reads nothing only when *)
(* its operation has ended and the id has been admitted again.             *)
LeaseReadsItsOwnGeneration ==
  \A g \in Issued :
    /\ \A s \in LeaseSnapshot(g) : s.identity = g
    /\ LeaseSnapshot(g) = {} =>
         g \in DOMAIN released /\ leases[g] \in DOMAIN operations

(* A released slot is written once.                                        *)
ReleasedNeverChanges ==
  [][\A g \in DOMAIN released : g \in DOMAIN released' /\ released'[g] = released[g]]_vars

(* The registry implements the ledger of operations.                       *)
CancelledGens ==
  {operations[id].identity : id \in
     {x \in DOMAIN operations : operations[x].cancellation_requested}}
  \cup {g \in DOMAIN released : released[g].cancellation_requested}

OutcomeOf(g) ==
  IF g \in DOMAIN released THEN released[g].terminal
  ELSE IF g \in Issued /\ Holds(g) THEN RecordOf(g).terminal ELSE "None"

LiveEntries == {<<id, operations[id].identity>> : id \in DOMAIN operations}

Ledger == INSTANCE OperationLedger WITH
  Outcomes <- TerminalClass,
  Undecided <- "None",
  live <- LiveEntries,
  opened <- Issued,
  outcome <- [g \in Gens |-> OutcomeOf(g)],
  cancelled <- CancelledGens

(* Every step of the registry is a step of the ledger or invisible to it.  *)
ImplementsLedger == Ledger!Spec
=============================================================================
