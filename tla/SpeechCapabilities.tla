------------------------ MODULE SpeechCapabilities -------------------------
(***************************************************************************)
(* What the router and the backends are told: backends with their          *)
(* capabilities and voices, the evidence behind a capability, requests,    *)
(* and the checks of speech-native-types on each of them.                  *)
(*                                                                         *)
(* Identifiers are naturals whose order is that of their bytes.  Empty is  *)
(* one without text or, where only valid identifiers will do, one whose    *)
(* text is none; None is no identifier at all, where one is optional.  A   *)
(* language tag is <<base>> or <<base, region>>, in one case, and Blank    *)
(* when it is absent or empty.  A request carries its other defects: the   *)
(* codes of the checks that a text or number in it would fail.             *)
(***************************************************************************)
EXTENDS Integers, Sequences, Functions

None == -1
Empty == 0
OptionalIds == Nat \cup {None}

Blank == << >>
NoVoice == [id |-> None, language |-> Blank, quality |-> 0, network |-> "Never",
            installed |-> FALSE]
-----------------------------------------------------------------------------
(* A list of checks is a sequence of pairs: does it fail, and with what    *)
(* code.  The first that fails is the one reported.                        *)
Passes(checks) == \A i \in DOMAIN checks : ~checks[i][1]

Refusal(checks) ==
  LET failing == {i \in DOMAIN checks : checks[i][1]}
  IN  checks[CHOOSE i \in failing : \A j \in failing : i <= j][2]

(* These defects, in this order.                                           *)
Defects(request, codes) == [i \in DOMAIN codes |-> <<codes[i] \in request.defects, codes[i]>>]
-----------------------------------------------------------------------------
(* Evidence and capabilities.                                              *)

EvidenceKinds == {"Documentation", "BuildTarget", "RuntimeApi", "SystemInventory",
                  "RealSmoke", "UserConfiguration"}

ProvesRuntime(evidence) ==
  /\ evidence.outcome = "Confirmed"
  /\ evidence.kind \in {"RuntimeApi", "RealSmoke"}

EligibleForLocalOnly(capability) ==
  /\ capability.availability = "Available"
  /\ capability.network = "Never"
  /\ \E evidence \in capability.evidence : ProvesRuntime(evidence)

CapabilityValid(capability) ==
  /\ capability.id # Empty
  /\ capability.backend_id # Empty
  /\ Blank \notin capability.languages
  /\ \A evidence \in capability.evidence : evidence.source_id # Empty

BackendValid(backend) ==
  /\ backend.id # Empty
  /\ \A k \in DOMAIN backend.capabilities :
       /\ CapabilityValid(backend.capabilities[k])
       /\ backend.capabilities[k].backend_id = backend.id

(* The capabilities a snapshot offers to local-only requests.              *)
LocalOnlyCapabilities(snapshot) ==
  UNION {{b.capabilities[k] : k \in {k \in DOMAIN b.capabilities :
                                       EligibleForLocalOnly(b.capabilities[k])}} :
         b \in {b \in UNION {{snapshot[s].backends[i] : i \in DOMAIN snapshot[s].backends} :
                             s \in {s \in DOMAIN snapshot : snapshot[s].status = "Succeeded"}} :
                b.readiness = "Ready" /\ b.kind # "Hosted"}}
-----------------------------------------------------------------------------
(* Requests.                                                               *)

BackendKinds == {"PlatformOnDevice", "PlatformService", "EmbeddedModel",
                 "ResidentMultimodalModel", "Hosted"}

Profiles == {"PrivateBalanced", "NativePreferred", "ConsistentLocal", "QualityLocal",
             "HostedEnabled"}

Routes ==
  [kind : {"Auto", "Profile"}, backend_id : {None}, model_id : {None}, voice_id : {None}] \cup
  [kind : {"ExactBackend"}, backend_id : Nat, model_id : OptionalIds, voice_id : OptionalIds]

VoiceSelectors == [kind : {"Auto", "Profile"}, id : {None}] \cup [kind : {"Exact"}, id : Nat]

AudioFormats == {"Pcm", "Wav", "Flac", "Mp3", "M4a", "OggOpus", "WebmOpus"}

TranscriptionRequests ==
  [operation : {"Transcription"}, defects : SUBSET STRING, route : Routes,
   privacy : {"LocalOnly", "HostedAllowed", "HostedOnly"}, profile : Profiles,
   language : Seq(STRING),
   input : [kind : {"Encoded", "Pcm", "Asset", "Stream"}, format : {"None"} \cup AudioFormats],
   partial_results : BOOLEAN, timestamps : {"None", "Segment", "Word"},
   diarization : {"Disabled", "Auto", "Bounded", "BoundedToNobody"},
   translate : BOOLEAN, hotwords : BOOLEAN]

SynthesisRequests ==
  [operation : {"Synthesis"}, defects : SUBSET STRING, route : Routes,
   privacy : {"LocalOnly", "HostedAllowed", "HostedOnly"}, profile : Profiles,
   language : Seq(STRING), voice : VoiceSelectors,
   ssml : BOOLEAN, stream : BOOLEAN, output : {"Wav", "Pcm", "Mp3", "OggOpus"},
   alignment : {"None", "Word", "Phoneme"},
   pitch_in_range : BOOLEAN, rate_in_range : BOOLEAN]

ExactRouteChecks(route) == <<
  <<route.backend_id = Empty, "backend_id_empty">>,
  <<route.model_id = Empty, "model_id_empty">>,
  <<route.voice_id = Empty, "route_voice_id_empty">> >>

ContextChecks(request) ==
  Defects(request, <<"request_id_empty", "client_id_empty", "deadline_invalid">>) \o
  CASE request.route.kind = "ExactBackend" -> ExactRouteChecks(request.route)
    [] request.route.kind = "Profile" -> Defects(request, <<"route_profile_empty">>)
    [] OTHER -> << >>

PcmFormatChecks(request) ==
  Defects(request, <<"sample_rate_invalid", "channel_count_invalid">>)

AudioInputChecks(request) ==
  CASE request.input.kind = "Encoded" -> Defects(request, <<"audio_data_empty">>)
    [] request.input.kind = "Pcm" ->
         PcmFormatChecks(request) \o
         Defects(request, <<"audio_data_empty", "pcm_frame_incomplete">>)
    [] request.input.kind = "Asset" -> Defects(request, <<"audio_asset_id_empty">>)

TranscriptionChecks(request) ==
  ContextChecks(request) \o
  (IF request.input.kind = "Stream"
     THEN Defects(request, <<"audio_stream_id_empty">>) \o PcmFormatChecks(request)
     ELSE AudioInputChecks(request)) \o
  Defects(request, <<"language_tag_invalid", "hotword_empty">>) \o
  <<<<request.diarization = "BoundedToNobody", "diarization_speaker_limit_invalid">>>>

OutputChecks(request) ==
  CASE request.output = "Pcm" -> PcmFormatChecks(request)
    [] request.output \in {"Mp3", "OggOpus"} -> Defects(request, <<"audio_bitrate_invalid">>)
    [] OTHER -> << >>

SynthesisChecks(request) ==
  ContextChecks(request) \o
  Defects(request, <<"synthesis_input_empty", "language_tag_invalid", "speech_rate_invalid",
                     "speech_pitch_invalid", "speech_volume_invalid">>) \o
  (CASE request.voice.kind = "Exact" -> <<<<request.voice.id = Empty, "voice_id_empty">>>>
     [] request.voice.kind = "Profile" -> Defects(request, <<"voice_profile_empty">>)
     [] OTHER -> << >>) \o
  OutputChecks(request)

RequestChecks(request) ==
  IF request.operation = "Transcription" THEN TranscriptionChecks(request)
                                         ELSE SynthesisChecks(request)
=============================================================================
