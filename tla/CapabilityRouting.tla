------------------------- MODULE CapabilityRouting --------------------------
(***************************************************************************)
(* Discovery and routing together: sources are registered, the probe asks  *)
(* them all at once and gives each its time, a request is planned on what  *)
(* they reported, the plan is pinned into the request, and the Apple       *)
(* backend picks a voice for the pinned request.  The system's voices may  *)
(* come and go all the while, so what was reported may be stale when it is *)
(* used.                                                                   *)
(*                                                                         *)
(* The host plans on a snapshot of its own instead: one report, successful *)
(* by construction, of the descriptors of its registered backends.  It     *)
(* does not go through the check that the probe's reports go through.      *)
(***************************************************************************)
EXTENDS AppleVoices, FiniteSets

CONSTANTS
  Sources,   (* the ids of the sources that may be registered              *)
  HostSource, (* "registered-speech-backends", the source the host names   *)
  Offers,    (* by source, and by HostSource, the backend lists it may     *)
             (* report                                                     *)
  Systems,   (* the states of the system's speech services                 *)
  Requests   (* the requests                                               *)

ASSUME RoutingAssumption == AppleSource \in Sources /\ HostSource \notin Sources

(* What the types of the descriptors say.  Nothing keeps a voice from      *)
(* having no text in its id, or the id of another.                         *)
VoicesDescribed(voices) ==
  /\ voices \in Seq(Range(voices))
  /\ \A voice \in Range(voices) : voice.id \in Nat /\ voice.quality \in 0..4

BackendDescribed(backend) ==
  /\ backend.id \in Nat /\ backend.kind \in BackendKinds
  /\ \A k \in DOMAIN backend.capabilities :
       backend.capabilities[k].id \in Nat /\ backend.capabilities[k].model_id \in OptionalIds
  /\ VoicesDescribed(backend.voices)

ASSUME IdAssumption ==
  {AppleTts, AppleStt, AppleTtsCapability, AppleSttCapability} \subseteq Nat

ASSUME OfferAssumption ==
  \A source \in (Sources \ {AppleSource}) \cup {HostSource} : \A backends \in Offers[source] :
    \A i \in DOMAIN backends : BackendDescribed(backends[i])

ASSUME SystemAssumption == \A system \in Systems : VoicesDescribed(system.voices)

ASSUME RequestAssumption == Requests \subseteq TranscriptionRequests \cup SynthesisRequests

VARIABLES
  registered, (* PlatformCapabilityProbe::source_ids                       *)
  probing,    (* whether probe(), or the host's snapshot(), has been called *)
  system,     (* the voices and the recognizer there are now               *)
  snapshot,   (* the reports that came back so far, by source              *)
  request,    (* the request that was planned                              *)
  plan,       (* its plan                                                  *)
  spoken      (* the voice it got, or the error                            *)

vars == <<registered, probing, system, snapshot, request, plan, spoken>>

NoRequest == [operation |-> "None"]
NoPlan == [result |-> "None"]
Silent == Unspoken("None")

Init ==
  /\ registered = {}
  /\ probing = FALSE
  /\ system \in Systems
  /\ snapshot = << >>
  /\ request = NoRequest
  /\ plan = NoPlan
  /\ spoken = Silent
-----------------------------------------------------------------------------
(* Discovery.                                                              *)

(* A second source of the same id is refused.                              *)
Register(source) ==
  /\ ~probing
  /\ source \notin registered
  /\ registered' = registered \cup {source}
  /\ UNCHANGED <<probing, system, snapshot, request, plan, spoken>>

StartProbe ==
  /\ ~probing
  /\ probing' = TRUE
  /\ UNCHANGED <<registered, system, snapshot, request, plan, spoken>>

OwnedKinds == {"RuntimeApi", "RealSmoke", "SystemInventory", "UserConfiguration"}

(* The report is taken as it comes, if its backends are valid.             *)
TrustingReportValid(source, backends) ==
  \A i \in DOMAIN backends : BackendValid(backends[i])

(* validate_report: the backends are valid, ids are unique in the report,  *)
(* and what claims to be observed was observed by this source.             *)
ReportValid(source, backends) ==
  LET places == UNION {{<<i, k>> : k \in DOMAIN backends[i].capabilities} :
                       i \in DOMAIN backends}
      capability(at) == backends[at[1]].capabilities[at[2]]
  IN  /\ \A i \in DOMAIN backends :
           /\ BackendValid(backends[i])
           /\ \A j \in DOMAIN backends \ {i} : backends[j].id # backends[i].id
      /\ \A at \in places :
           /\ \A other \in places \ {at} : capability(other).id # capability(at).id
           /\ \A evidence \in capability(at).evidence :
                evidence.kind \in OwnedKinds => evidence.source_id = source

(* source_report: what becomes of a probe that returned.                   *)
SourceReport(source, backends) ==
  IF ReportValid(source, backends) THEN [status |-> "Succeeded", backends |-> backends]
                                   ELSE [status |-> "Failed", backends |-> << >>]

Pending == registered \ DOMAIN snapshot

AddReport(source, report) ==
  /\ probing
  /\ source \in Pending
  /\ snapshot' = [s \in DOMAIN snapshot \cup {source} |->
                    IF s = source THEN report ELSE snapshot[s]]
  /\ UNCHANGED <<registered, probing, system, request, plan, spoken>>

(* Sources report in any order; the Apple one inspects the system, any     *)
(* other returns what its bridge reported.                                 *)
Report(source) ==
  \E backends \in IF source = AppleSource THEN {ProbeMacos(system)} ELSE Offers[source] :
    AddReport(source, SourceReport(source, backends))

(* The source answers with an error, panics, or overruns its time.  What   *)
(* it answers later is dropped with its task.  (The report of a panic has  *)
(* an id of its own; it is kept under its source's, and as empty.)         *)
ReportsNothing(source) ==
  \E status \in {"Failed", "TimedOut"} :
    AddReport(source, [status |-> status, backends |-> << >>])

(* The host asks the backends it has for their descriptors, and nobody     *)
(* looks at them before the router does.                                   *)
HostSnapshot ==
  /\ registered = {} /\ ~probing
  /\ probing' = TRUE
  /\ \E backends \in Offers[HostSource] :
       snapshot' = [s \in {HostSource} |-> [status |-> "Succeeded", backends |-> backends]]
  /\ UNCHANGED <<registered, system, request, plan, spoken>>

(* Voices are installed and removed, permissions granted and withdrawn.    *)
SystemChanges ==
  /\ system' \in Systems \ {system}
  /\ UNCHANGED <<registered, probing, snapshot, request, plan, spoken>>
-----------------------------------------------------------------------------
(* Routing.                                                                *)

Probed == probing /\ Pending = {}

(* The voice of the plan is left out.                                      *)
LoosePinned(req, selected) ==
  [req EXCEPT !.route = [kind |-> "ExactBackend", backend_id |-> selected.backend_id,
                         model_id |-> selected.model_id, voice_id |-> None]]

(* pin_route.                                                              *)
Pinned(req, selected) ==
  [req EXCEPT !.route = [kind |-> "ExactBackend", backend_id |-> selected.backend_id,
                         model_id |-> selected.model_id, voice_id |-> selected.voice_id]]

(* plan_transcription or plan_synthesis, on what the probe returned.        *)
PlanRoute ==
  /\ Probed
  /\ plan = NoPlan
  /\ \E req \in Requests :
       /\ plan' \in Plans(req, snapshot)
       /\ request' = req
  /\ UNCHANGED <<registered, probing, system, snapshot, spoken>>

(* The plan is pinned into the request, and the Apple backend serves it.   *)
Speak ==
  /\ plan.result = "Planned"
  /\ plan.selected.backend_id = AppleTts
  /\ spoken = Silent
  /\ spoken' \in AppleServes(Pinned(request, plan.selected), Range(system.voices))
  /\ UNCHANGED <<registered, probing, system, snapshot, request, plan>>

Next ==
  \/ \E source \in Sources : Register(source) \/ Report(source) \/ ReportsNothing(source)
  \/ StartProbe
  \/ HostSnapshot
  \/ SystemChanges
  \/ PlanRoute
  \/ Speak

Spec == Init /\ [][Next]_vars
-----------------------------------------------------------------------------
(* Properties.                                                             *)

(* Every backend of a snapshot with its source.                            *)
ReportedBy(source) ==
  IF snapshot[source].status = "Succeeded"
    THEN {snapshot[source].backends[i] : i \in DOMAIN snapshot[source].backends} ELSE {}

(* A route planned for a local-only request is proven local: the selected  *)
(* capability is one of a ready, unhosted backend, never uses the network, *)
(* and a runtime observation confirms it.  On the probe's snapshot it was  *)
(* made by the source that reported the backend; of the host's nothing     *)
(* checks who observed it.  The proof is put together by the source, the   *)
(* report's check, the capability's check and the router's gates.          *)
LocalOnlyIsProven ==
  plan.result = "Planned" /\ request.privacy = "LocalOnly" =>
    \E source \in DOMAIN snapshot : \E backend \in ReportedBy(source) :
      /\ backend.id = plan.selected.backend_id
      /\ backend.readiness = "Ready" /\ backend.kind # "Hosted"
      /\ \E k \in DOMAIN backend.capabilities :
           LET capability == backend.capabilities[k] IN
           /\ capability.id = plan.selected.capability_id
           /\ capability \in LocalOnlyCapabilities(snapshot)
           /\ \E evidence \in capability.evidence :
                /\ ProvesRuntime(evidence)
                /\ source # HostSource => evidence.source_id = source

(* One source cannot spoil the probe's snapshot for the others: reports    *)
(* that passed their own check clash only where two of them claim one id.  *)
SpoiledOnlyTogether ==
  plan.result = "SnapshotInvalid" /\ HostSource \notin DOMAIN snapshot =>
    \E s, t \in DOMAIN snapshot : \E a \in ReportedBy(s), b \in ReportedBy(t) :
      /\ s # t
      /\ \/ a.id = b.id
         \/ \E i \in DOMAIN a.capabilities, j \in DOMAIN b.capabilities :
              a.capabilities[i].id = b.capabilities[j].id

(* A plan is the best there is: every capability of the operation is       *)
(* either in the receipt, once, or of a kind the profile prefers no more   *)
(* than the selected one, whatever the voices; no other plan is possible;  *)
(* and the request with the plan pinned into it is planned the same way,   *)
(* so the host, a client who repeats a receipt and the backend agree on    *)
(* it.  Only the rank may differ, where another voice has the id of the    *)
(* one selected.  A model or voice whose id is blank is not refused when   *)
(* it is reported, and may be planned: then the pinned request is refused. *)
Unranked(selected) == [selected EXCEPT !.policy_rank = 0]

PlanIsBest ==
  plan.result \in {"Planned", "NoEligibleRoute"} =>
    LET planned == plan.result = "Planned"
        at == CapabilitiesOf(snapshot)
        refused(c) == {r \in plan.rejections : r.capability_id = CapabilityAt(snapshot, c).id}
        place(kind) == PolicyRank(request.profile, kind)
    IN /\ \A c \in at : Cardinality(refused(c)) <= 1
       /\ \A c \in at : refused(c) = {} =>
            planned /\ place(plan.selected.backend_kind) <= place(BackendAt(snapshot, c[1]).kind)
       /\ planned =>
            {p.selected : p \in Plans(request, snapshot)} = {plan.selected}
       /\ planned =>
            LET again == Plans(Pinned(request, plan.selected), snapshot) IN
            IF Empty \in {plan.selected.model_id, plan.selected.voice_id}
              THEN \A p \in again : p.result = "RequestInvalid"
              ELSE {Unranked(p.selected) : p \in again} = {Unranked(plan.selected)}

(* The voice a plan names is the one that speaks, or none does: the        *)
(* backend refuses only when the voice was removed since it was reported,  *)
(* when the request asks for a pitch or rate Apple has not, or when Apple  *)
(* itself fails, and never speaks with another.  It rests on Apple's own   *)
(* report: where that failed, nothing keeps a bridge from a backend of     *)
(* Apple's id.  A voice without text in its id cannot be asked for.        *)
NativeReported == AppleSource \in DOMAIN snapshot /\ snapshot[AppleSource].status = "Succeeded"

PlannedVoiceIsSpoken ==
  [][spoken' # spoken /\ NativeReported /\ plan.selected.voice_id \notin {None, Empty} =>
       \/ spoken' = Spoken(plan.selected.voice_id)
       \/ /\ spoken'.error = "apple_tts_voice_unavailable"
          /\ \A voice \in Range(system.voices) : voice.id # plan.selected.voice_id
       \/ spoken'.error \in {"apple_tts_pitch_unsupported", "apple_tts_rate_unsupported",
                             "apple_tts_api_failed"}]_vars

(* A voice that needs the network is never selected for a local-only       *)
(* request (docs/IMPLEMENTATION.md:127, "TTS voices requiring network are  *)
(* excluded").                                                             *)
NetworkVoicesAreExcluded ==
  plan.result = "Planned" /\ request.privacy = "LocalOnly" =>
    \A source \in DOMAIN snapshot : \A backend \in ReportedBy(source) :
      \A voice \in Range(backend.voices) :
        backend.id = plan.selected.backend_id /\ voice.id = plan.selected.voice_id =>
          voice.network # "Required"
=============================================================================
