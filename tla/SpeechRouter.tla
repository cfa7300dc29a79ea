---------------------------- MODULE SpeechRouter ----------------------------
(***************************************************************************)
(* The router: pure functions from a request and a snapshot of reported    *)
(* capabilities to a plan.  A snapshot is a function from source ids to    *)
(* reports, which is what the probe's reports are once sorted by source;   *)
(* a report's backends and a backend's capabilities and voices are         *)
(* sequences, for nothing keeps two voices from having one id.             *)
(*                                                                         *)
(* Hard gates come first, each capability is refused by the first gate it  *)
(* fails, and the least of those that pass is selected.  Plans(...) is the *)
(* set of the plans finalize may return; that there is exactly one is a    *)
(* property of the run.                                                    *)
(***************************************************************************)
EXTENDS SpeechCapabilities

(* Tuples of naturals of one length, compared as a chain of then_with.     *)
Before(a, b) == \E i \in DOMAIN a : a[i] < b[i] /\ \A j \in 1..i - 1 : a[j] = b[j]

Least(S, Key(_)) == {x \in S : \A y \in S : ~Before(Key(y), Key(x))}
-----------------------------------------------------------------------------
(* The snapshot: backends by source and place in its report.               *)

SuccessfulBackends(snapshot) ==
  UNION {{<<s, i>> : i \in DOMAIN snapshot[s].backends} :
         s \in {s \in DOMAIN snapshot : snapshot[s].status = "Succeeded"}}

BackendAt(snapshot, at) == snapshot[at[1]].backends[at[2]]

(* Capabilities by the place of their backend and their place in it.       *)
CapabilitiesOf(snapshot) ==
  UNION {{<<at, k>> : k \in DOMAIN BackendAt(snapshot, at).capabilities} :
         at \in SuccessfulBackends(snapshot)}

CapabilityAt(snapshot, at) == BackendAt(snapshot, at[1]).capabilities[at[2]]

SnapshotValid(snapshot) ==
  /\ \A at \in SuccessfulBackends(snapshot) :
       /\ BackendValid(BackendAt(snapshot, at))
       /\ \A other \in SuccessfulBackends(snapshot) \ {at} :
            BackendAt(snapshot, other).id # BackendAt(snapshot, at).id
  /\ \A at \in CapabilitiesOf(snapshot) : \A other \in CapabilitiesOf(snapshot) \ {at} :
       CapabilityAt(snapshot, other).id # CapabilityAt(snapshot, at).id
-----------------------------------------------------------------------------
(* Languages.                                                              *)

LanguageSupported(language, capability) ==
  \/ language = Blank
  \/ capability.languages = {}
  \/ \E tag \in capability.languages : Head(tag) = Head(language)

(* Two tags with a region each and the same base.                          *)
SameBase(tag, language) ==
  /\ Len(tag) > 1 /\ Len(language) > 1
  /\ Head(tag) = Head(language)

VoiceLanguageRank(voice, language) ==
  IF language = Blank \/ voice.language = language THEN 0
  ELSE IF SameBase(voice.language, language) THEN 1
  ELSE 2
-----------------------------------------------------------------------------
(* The gates.                                                              *)

AcceptedKind(input) ==
  IF input.kind \in {"Pcm", "Stream"} THEN "Pcm"
  ELSE input.format   (* of an asset it is the hint, or "None"             *)

TranscriptionGates(request, capability) ==
  LET lacks(feature) == feature \notin capability.features
      accepted == AcceptedKind(request.input)
  IN <<
    <<~LanguageSupported(request.language, capability), "LanguageUnsupported">>,
    <<accepted # "None" /\ accepted \notin capability.audio, "InputFormatUnsupported">>,
    <<request.input.kind = "Stream" /\ lacks("streaming"), "StreamingUnsupported">>,
    <<request.partial_results /\ lacks("partial_results"), "PartialResultsUnsupported">>,
    <<\/ request.timestamps = "Segment" /\ lacks("segment_timestamps")
      \/ request.timestamps = "Word" /\ lacks("word_timestamps"), "TimestampsUnsupported">>,
    <<request.diarization # "Disabled" /\ lacks("diarization"), "DiarizationUnsupported">>,
    <<request.translate /\ lacks("translation_to_english"), "TranslationUnsupported">>,
    <<request.hotwords /\ lacks("hotwords"), "HotwordsUnsupported">> >>

(* The voice named by the route, else the one named by the request.        *)
ExactVoice(request) ==
  IF request.route.kind = "ExactBackend" /\ request.route.voice_id # None
    THEN request.route.voice_id
  ELSE IF request.voice.kind = "Exact" THEN request.voice.id
  ELSE None

InstalledVoices(backend) == {voice \in Range(backend.voices) : voice.installed}

VoiceGates(request, backend) == <<
  <<request.voice.kind = "Profile", "NamedProfileUnresolved">>,
  <<request.voice.kind = "Exact" /\ request.voice.id # ExactVoice(request),
    "VoiceSelectorMismatch">>,
  <<ExactVoice(request) # None /\
    \A voice \in InstalledVoices(backend) : voice.id # ExactVoice(request),
    "VoiceSelectorMismatch">> >>

SynthesisGates(request, backend, capability) ==
  LET lacks(feature) == feature \notin capability.features IN <<
    <<~LanguageSupported(request.language, capability), "LanguageUnsupported">>,
    <<request.ssml /\ lacks("ssml"), "SsmlUnsupported">>,
    <<request.stream /\ lacks("streaming_audio"), "StreamingUnsupported">>,
    <<request.output \notin capability.audio, "OutputFormatUnsupported">>,
    <<\/ request.alignment = "Word" /\ lacks("word_alignment")
      \/ request.alignment = "Phoneme" /\ lacks("phoneme_alignment"), "AlignmentUnsupported">>
    >> \o VoiceGates(request, backend)

OperationGates(request, backend, capability) ==
  IF capability.operation # request.operation
    THEN <<<<TRUE, "OperationMismatch">>>>
    ELSE IF request.operation = "Transcription"
           THEN TranscriptionGates(request, capability)
           ELSE SynthesisGates(request, backend, capability)

(* The gates of evaluate_common, for both operations.                      *)
CommonGates(request, backend, capability) ==
  LET exact == request.route.kind = "ExactBackend" IN <<
    <<backend.readiness # "Ready", "BackendNotReady">>,
    <<capability.availability # "Available", "CapabilityUnavailable">>,
    <<request.privacy = "LocalOnly" /\ backend.kind = "Hosted", "PrivacyMismatch">>,
    <<request.privacy = "LocalOnly" /\ ~EligibleForLocalOnly(capability),
      "NetworkNotProvenLocal">>,
    <<request.privacy = "HostedOnly" /\ backend.kind # "Hosted", "PrivacyMismatch">>,
    <<exact /\ request.route.backend_id # backend.id, "BackendSelectorMismatch">>,
    <<exact /\ request.route.model_id \notin {None, capability.model_id},
      "ModelSelectorMismatch">>,
    <<request.route.kind = "Profile", "NamedProfileUnresolved">> >>

Admissible(request, backend, capability) ==
  /\ Passes(OperationGates(request, backend, capability))
  /\ Passes(CommonGates(request, backend, capability))
-----------------------------------------------------------------------------
(* The voice of a capability that passed.                                  *)

LanguageVoices(request, backend) ==
  {voice \in InstalledVoices(backend) : VoiceLanguageRank(voice, request.language) < 2}

VoiceKey(request, voice) ==
  <<VoiceLanguageRank(voice, request.language), 4 - voice.quality, voice.id>>

FirstOf(voices, chosen) ==
  voices[CHOOSE i \in DOMAIN voices :
           /\ voices[i] \in chosen
           /\ \A j \in DOMAIN voices : voices[j] \in chosen => i <= j]

(* Without a language the backend's own default is left to speak.  Of      *)
(* voices that are equally good the one that is listed first is selected.  *)
SelectVoice(request, backend) ==
  LET exact == {v \in InstalledVoices(backend) : v.id = ExactVoice(request)}
      key(voice) == VoiceKey(request, voice)
      choice == IF ExactVoice(request) # None THEN exact
                ELSE IF request.language = Blank THEN {}
                ELSE Least(LanguageVoices(request, backend), key)
  IN  IF request.operation = "Transcription" \/ choice = {} THEN NoVoice
      ELSE FirstOf(backend.voices, choice)
-----------------------------------------------------------------------------
(* Ranks.                                                                  *)

(* The kinds of backend from most to least preferred by a profile.         *)
Preference(profile) ==
  CASE profile \in {"PrivateBalanced", "QualityLocal"} ->
         <<"PlatformOnDevice", "EmbeddedModel", "ResidentMultimodalModel",
           "PlatformService", "Hosted">>
    [] profile = "NativePreferred" ->
         <<"PlatformOnDevice", "PlatformService", "EmbeddedModel",
           "ResidentMultimodalModel", "Hosted">>
    [] profile = "ConsistentLocal" ->
         <<"EmbeddedModel", "ResidentMultimodalModel", "PlatformOnDevice",
           "PlatformService", "Hosted">>
    [] profile = "HostedEnabled" ->
         <<"Hosted", "PlatformOnDevice", "EmbeddedModel",
           "ResidentMultimodalModel", "PlatformService">>

PolicyRank(profile, kind) ==
  (CHOOSE i \in 1..5 : Preference(profile)[i] = kind) - 1

(* A poor voice may cost a backend more than its kind.                     *)
FlatSelection(request, snapshot, at) ==
  LET backend == BackendAt(snapshot, at[1])
      capability == CapabilityAt(snapshot, at)
      voice == SelectVoice(request, backend)
  IN [backend_id |-> backend.id, model_id |-> capability.model_id, voice_id |-> voice.id,
      backend_kind |-> backend.kind, network |-> capability.network,
      capability_id |-> capability.id,
      policy_rank |-> PolicyRank(request.profile, backend.kind)
                      + (IF voice.id = None THEN 0 ELSE 4 - voice.quality)]

Selection(request, snapshot, at) ==
  LET backend == BackendAt(snapshot, at[1])
      capability == CapabilityAt(snapshot, at)
      voice == SelectVoice(request, backend)
  IN [backend_id |-> backend.id, model_id |-> capability.model_id, voice_id |-> voice.id,
      backend_kind |-> backend.kind, network |-> capability.network,
      capability_id |-> capability.id,
      policy_rank |-> 10 * PolicyRank(request.profile, backend.kind)
                      + (IF voice.id = None THEN 0 ELSE 4 - voice.quality)]
-----------------------------------------------------------------------------
(* Plans.                                                                  *)

Rejection(backend_id, capability_id, code) ==
  [backend_id |-> backend_id, capability_id |-> capability_id, code |-> code]

BackendRejections(request, backend) ==
  {Rejection(backend.id, None, code) : code \in
     {code \in {"BackendNotReady"} : backend.readiness # "Ready"} \cup
     {code \in {"OperationMismatch"} :
        \A k \in DOMAIN backend.capabilities :
          backend.capabilities[k].operation # request.operation} \cup
     {code \in {"BackendSelectorMismatch"} :
        request.route.kind = "ExactBackend" /\ request.route.backend_id # backend.id}}

CapabilityRejection(request, backend, capability) ==
  LET operation == OperationGates(request, backend, capability)
      common == CommonGates(request, backend, capability)
  IN  Rejection(backend.id, capability.id,
                IF Passes(operation) THEN Refusal(common) ELSE Refusal(operation))

AdmissibleAt(request, snapshot) ==
  {at \in CapabilitiesOf(snapshot) :
     Admissible(request, BackendAt(snapshot, at[1]), CapabilityAt(snapshot, at))}

Candidates(request, snapshot) ==
  {Selection(request, snapshot, at) : at \in AdmissibleAt(request, snapshot)}

Rejections(request, snapshot) ==
  (UNION {BackendRejections(request, BackendAt(snapshot, at)) :
          at \in SuccessfulBackends(snapshot)}) \cup
  {CapabilityRejection(request, BackendAt(snapshot, at[1]), CapabilityAt(snapshot, at)) :
     at \in CapabilitiesOf(snapshot) \ AdmissibleAt(request, snapshot)}

SelectionKey(s) == <<s.policy_rank, s.backend_id, s.capability_id>>

(* finalize: the least candidate, or every reason why there is none.       *)
Finalize(candidates, rejections) ==
  IF candidates = {}
    THEN {[result |-> "NoEligibleRoute", rejections |-> rejections]}
    ELSE {[result |-> "Planned", selected |-> s, rejections |-> rejections] :
            s \in Least(candidates, SelectionKey)}

(* plan_transcription and plan_synthesis.                                  *)
Plans(request, snapshot) ==
  IF ~Passes(RequestChecks(request))
    THEN {[result |-> "RequestInvalid", code |-> Refusal(RequestChecks(request))]}
  ELSE IF ~SnapshotValid(snapshot) THEN {[result |-> "SnapshotInvalid"]}
  ELSE Finalize(Candidates(request, snapshot), Rejections(request, snapshot))
=============================================================================
