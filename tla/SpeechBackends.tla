-------------------------- MODULE SpeechBackends ---------------------------
(***************************************************************************)
(* The backends as the host meets them through the SpeechBackend trait,    *)
(* with the admission, cancellation and shutdown protocol that both        *)
(* built-in backends follow (read from the Parakeet backend).              *)
(*                                                                         *)
(* A backend keeps its active operations by request id: it refuses an id   *)
(* it still holds, and `cancel` finds an operation by id alone.  A worker  *)
(* sends its final response before its lease takes it out of the active    *)
(* map, so there is a moment when the answer is out and the id is still    *)
(* taken.                                                                  *)
(***************************************************************************)
CONSTANTS
  Backends,       (* backend ids                                           *)
  RequestIds,     (* request ids                                           *)
  Requests,       (* individual requests, whichever id they carry          *)
  FinalClasses    (* the classes of final response the workers send        *)

VARIABLES
  backend_phase,     (* BackendPhase, by backend                           *)
  backend_active,    (* by backend, pairs of a request id and a request    *)
  backend_cancelled, (* requests whose `cancelled` flag is set             *)
  backend_final      (* the final response sent for a request, or "None"   *)

backendVars == <<backend_phase, backend_active, backend_cancelled, backend_final>>

Init ==
  /\ backend_phase = [b \in Backends |-> "Running"]
  /\ backend_active = [b \in Backends |-> {}]
  /\ backend_cancelled = {}
  /\ backend_final = [r \in Requests |-> "None"]

UnderId(b, id) == {entry[2] : entry \in {e \in backend_active[b] : e[1] = id}}

ActiveRequests(b) == {entry[2] : entry \in backend_active[b]}

(* The admission check of spawn_operation.                                 *)
Admits(b, id) ==
  /\ backend_phase[b] = "Running"
  /\ UnderId(b, id) = {}

Admit(b, id, r) ==
  /\ Admits(b, id)
  /\ backend_active' = [backend_active EXCEPT ![b] = @ \cup {<<id, r>>}]
  /\ UNCHANGED <<backend_phase, backend_cancelled, backend_final>>

(* cancel_request: whatever operation is active under the id.              *)
Cancel(b, id) ==
  /\ backend_cancelled' = backend_cancelled \cup UnderId(b, id)
  /\ UNCHANGED <<backend_phase, backend_active, backend_final>>

(* A worker may finish before it looks at its cancelled flag again, and it *)
(* answers Cancelled, too, when the consumer of its events has gone.       *)
SendFinal(b, r, class) ==
  /\ r \in ActiveRequests(b)
  /\ backend_final[r] = "None"
  /\ backend_final' = [backend_final EXCEPT ![r] = class]
  /\ UNCHANGED <<backend_phase, backend_active, backend_cancelled>>

(* Drop of the BackendOperationLease, after the worker closure returned.   *)
Reap(b, id, r) ==
  /\ <<id, r>> \in backend_active[b]
  /\ backend_final[r] # "None"
  /\ backend_active' = [backend_active EXCEPT ![b] = @ \ {<<id, r>>}]
  /\ UNCHANGED <<backend_phase, backend_cancelled, backend_final>>

(* shutdown closes admission and cancels what is active in one step, ...   *)
BeginShutdown(b) ==
  /\ backend_phase[b] = "Running"
  /\ backend_phase' = [backend_phase EXCEPT ![b] = "Quiescing"]
  /\ backend_cancelled' = backend_cancelled \cup ActiveRequests(b)
  /\ UNCHANGED <<backend_active, backend_final>>

(* ... and is complete when every worker has been joined.                  *)
CompleteShutdown(b) ==
  /\ backend_phase[b] = "Quiescing"
  /\ backend_active[b] = {}
  /\ backend_phase' = [backend_phase EXCEPT ![b] = "Closed"]
  /\ UNCHANGED <<backend_active, backend_cancelled, backend_final>>

WorkerStep(b) ==
  \/ \E r \in Requests, class \in FinalClasses : SendFinal(b, r, class)
  \/ \E id \in RequestIds, r \in Requests : Reap(b, id, r)

Next ==
  \E b \in Backends :
    \/ \E id \in RequestIds, r \in Requests : Admit(b, id, r)
    \/ \E id \in RequestIds : Cancel(b, id)
    \/ WorkerStep(b)
    \/ BeginShutdown(b)
    \/ CompleteShutdown(b)

Spec == Init /\ [][Next]_backendVars

TypeOK ==
  /\ backend_phase \in [Backends -> {"Running", "Quiescing", "Closed"}]
  /\ backend_active \in [Backends -> SUBSET (RequestIds \X Requests)]
  /\ backend_cancelled \subseteq Requests
  /\ backend_final \in [Requests -> FinalClasses \cup {"None"}]
=============================================================================
