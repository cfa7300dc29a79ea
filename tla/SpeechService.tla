--------------------------- MODULE SpeechService ----------------------------
(***************************************************************************)
(* What the speech host promises its clients, without registry, backends,  *)
(* tasks, locks or wakeups.  A call is accepted under a request id that no *)
(* other open call has.  Its outcome is decided once, and only then is the *)
(* id given back.  A call that got a ticket is owed one answer, which      *)
(* comes after its id is free and is the outcome decided.  Once admission  *)
(* has stopped it never opens again, and a shutdown that says Ok owes      *)
(* nobody anything.                                                        *)
(***************************************************************************)
CONSTANTS
  Ids,        (* request ids                                               *)
  Calls,      (* calls, each accepted at most once                         *)
  Outcomes,   (* how a call can end                                        *)
  Verdicts,   (* what a shutdown can report, "Ok" among them               *)
  Undecided   (* no outcome, no answer, no report yet                      *)

VARIABLES
  accepting,  (* calls are accepted                                        *)
  accepted,   (* every call accepted so far                                *)
  open,       (* ids in use, as pairs of an id and a call                  *)
  outcome,    (* the outcome decided for each call                         *)
  owed,       (* calls whose ticket waits for an answer                    *)
  answer,     (* the answer given to each call                             *)
  report      (* what shutdown has reported                                *)

serviceVars == <<accepting, accepted, open, outcome, owed, answer, report>>

Init ==
  /\ accepting = TRUE
  /\ accepted = {}
  /\ open = {}
  /\ outcome = [c \in Calls |-> Undecided]
  /\ owed = {}
  /\ answer = [c \in Calls |-> Undecided]
  /\ report = Undecided

Accept(id, c) ==
  /\ accepting
  /\ c \notin accepted
  /\ \A entry \in open : entry[1] # id
  /\ accepted' = accepted \cup {c}
  /\ open' = open \cup {<<id, c>>}
  /\ UNCHANGED <<accepting, outcome, owed, answer, report>>

Promise(id, c) ==
  /\ <<id, c>> \in open
  /\ outcome[c] = Undecided
  /\ owed' = owed \cup {c}
  /\ UNCHANGED <<accepting, accepted, open, outcome, answer, report>>

Decide(id, c, class) ==
  /\ <<id, c>> \in open
  /\ outcome[c] = Undecided
  /\ outcome' = [outcome EXCEPT ![c] = class]
  /\ UNCHANGED <<accepting, accepted, open, owed, answer, report>>

Free(id, c) ==
  /\ <<id, c>> \in open
  /\ outcome[c] # Undecided
  /\ open' = open \ {<<id, c>>}
  /\ UNCHANGED <<accepting, accepted, outcome, owed, answer, report>>

Answer(c) ==
  /\ c \in owed
  /\ outcome[c] # Undecided
  /\ \A entry \in open : entry[2] # c
  /\ answer[c] = Undecided
  /\ answer' = [answer EXCEPT ![c] = outcome[c]]
  /\ owed' = owed \ {c}
  /\ UNCHANGED <<accepting, accepted, open, outcome, report>>

Stop ==
  /\ accepting' = FALSE
  /\ UNCHANGED <<accepted, open, outcome, owed, answer, report>>

Report(verdict) ==
  /\ ~accepting
  /\ report = Undecided
  /\ verdict = "Ok" => owed = {} /\ \A entry \in open : outcome[entry[2]] # Undecided
  /\ report' = verdict
  /\ UNCHANGED <<accepting, accepted, open, outcome, owed, answer>>

Next ==
  \/ \E id \in Ids, c \in Calls :
       Accept(id, c) \/ Promise(id, c) \/ Free(id, c) \/ \E class \in Outcomes : Decide(id, c, class)
  \/ \E c \in Calls : Answer(c)
  \/ Stop
  \/ \E verdict \in Verdicts : Report(verdict)

Spec == Init /\ [][Next]_serviceVars
=============================================================================
