-------------------------- MODULE SupervisedTasks --------------------------
(***************************************************************************)
(* What a TaskSupervisor promises its owner: a task is admitted only while *)
(* admission is open, stays live until it has been joined, and its failure *)
(* is recorded in the step that joins it.                                  *)
(***************************************************************************)
CONSTANT Tasks   (* everything that is ever offered to the supervisor      *)

VARIABLES
  live,          (* admitted and not yet joined                            *)
  joined,        (* joined, successfully or not                            *)
  failed,        (* joined with an error, a panic or a cancellation        *)
  closed         (* admission is closed                                    *)

taskVars == <<live, joined, failed, closed>>

Init ==
  /\ live = {}
  /\ joined = {}
  /\ failed = {}
  /\ closed = FALSE

Admit(t) ==
  /\ ~closed
  /\ t \notin live \cup joined
  /\ live' = live \cup {t}
  /\ UNCHANGED <<joined, failed, closed>>

Join(t) ==
  /\ t \in live
  /\ live' = live \ {t}
  /\ joined' = joined \cup {t}
  /\ failed' \in {failed, failed \cup {t}}
  /\ UNCHANGED closed

Close ==
  /\ closed' = TRUE
  /\ UNCHANGED <<live, joined, failed>>

Next == Close \/ \E t \in Tasks : Admit(t) \/ Join(t)

Spec == Init /\ [][Next]_taskVars
=============================================================================
