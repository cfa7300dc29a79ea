-------------------------- MODULE OperationLedger --------------------------
(***************************************************************************)
(* What the operation registry of the speech host promises, without its    *)
(* records, leases, phases or attempts.  A public operation id is opened   *)
(* for one generation at a time.  While a generation is open it can be     *)
(* asked to cancel, and one outcome is decided for it; closing it fixes    *)
(* that outcome and the cancellation mark for good.                        *)
(***************************************************************************)
CONSTANTS
  OpIds,      (* public operation ids                                      *)
  Gens,       (* generations, each opened at most once                     *)
  Outcomes,   (* how an operation can end                                  *)
  Undecided   (* the outcome of a generation that has none yet             *)

VARIABLES
  live,       (* the open generations, as pairs of an id and a generation  *)
  opened,     (* every generation opened so far                            *)
  outcome,    (* the outcome decided for each generation                   *)
  cancelled   (* the generations that were asked to cancel                 *)

ledgerVars == <<live, opened, outcome, cancelled>>

LiveGens == {entry[2] : entry \in live}

Init ==
  /\ live = {}
  /\ opened = {}
  /\ outcome = [g \in Gens |-> Undecided]
  /\ cancelled = {}

Open(id, g) ==
  /\ g \notin opened
  /\ \A entry \in live : entry[1] # id
  /\ live' = live \cup {<<id, g>>}
  /\ opened' = opened \cup {g}
  /\ UNCHANGED <<outcome, cancelled>>

Cancel(targets) ==
  /\ targets \subseteq LiveGens
  /\ cancelled' = cancelled \cup targets
  /\ UNCHANGED <<live, opened, outcome>>

Decide(g, class) ==
  /\ g \in LiveGens
  /\ outcome[g] = Undecided
  /\ outcome' = [outcome EXCEPT ![g] = class]
  /\ UNCHANGED <<live, opened, cancelled>>

Close(id, g, class) ==
  /\ <<id, g>> \in live
  /\ outcome[g] \in {Undecided, class}
  /\ live' = live \ {<<id, g>>}
  /\ outcome' = [outcome EXCEPT ![g] = class]
  /\ UNCHANGED <<opened, cancelled>>

Next ==
  \/ \E id \in OpIds, g \in Gens : Open(id, g)
  \/ \E targets \in SUBSET LiveGens : Cancel(targets)
  \/ \E g \in Gens, class \in Outcomes : Decide(g, class)
  \/ \E id \in OpIds, g \in Gens, class \in Outcomes : Close(id, g, class)

Spec == Init /\ [][Next]_ledgerVars
=============================================================================
