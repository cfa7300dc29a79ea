---------------------------- MODULE AppleVoices ----------------------------
(***************************************************************************)
(* What the Apple adapter reads from the system and makes of it: the two   *)
(* backends its probe describes, and the voice a synthesis request gets    *)
(* when the backend serves it.  The voices the system lists are a sequence *)
(* of voice descriptors, all installed, with their qualities as map_voice  *)
(* translates them.                                                        *)
(***************************************************************************)
EXTENDS SpeechRouter

CONSTANTS
  AppleSource,        (* "apple-runtime"                                   *)
  AppleTts, AppleStt, (* the ids of the two backends                       *)
  AppleTtsCapability, AppleSttCapability

RuntimeEvidence ==
  [source_id |-> AppleSource, kind |-> "RuntimeApi", outcome |-> "Confirmed"]

Unavailable(id) ==
  [id |-> id, kind |-> "PlatformOnDevice", readiness |-> "Unavailable",
   capabilities |-> << >>, voices |-> << >>]

(* probe_synthesis.  A system without voices, or whose synthesizer or list *)
(* of voices fails, is unavailable.                                        *)
ProbeSynthesis(voices) ==
  IF voices = << >> THEN Unavailable(AppleTts) ELSE
  [id |-> AppleTts, kind |-> "PlatformOnDevice", readiness |-> "Ready", voices |-> voices,
   capabilities |-> <<
     [id |-> AppleTtsCapability, backend_id |-> AppleTts, model_id |-> None,
      operation |-> "Synthesis", features |-> {"ssml"}, audio |-> {"Wav", "DirectPlayback"},
      availability |-> "Available", network |-> "Never",
      languages |-> {voice.language : voice \in Range(voices)}, evidence |-> {RuntimeEvidence}]>>]

(* recognition_readiness: <<readiness, availability>>.                     *)
RecognitionReadiness(authorization, available) ==
  CASE authorization = "Authorized" ->
         IF available THEN <<"Ready", "Available">> ELSE <<"Unavailable", "Unavailable">>
    [] authorization = "NotDetermined" -> <<"PermissionRequired", "PermissionRequired">>
    [] authorization \in {"Denied", "Restricted"} -> <<"Unavailable", "Unavailable">>
    [] OTHER -> <<"Unknown", "Unknown">>

(* A recognizer is [locale, on_device, available]; no locale, no backend.  *)
ProbeRecognition(authorization, recognizer) ==
  IF recognizer.locale = Blank THEN Unavailable(AppleStt) ELSE
  LET ready == RecognitionReadiness(authorization,
                                    recognizer.on_device /\ recognizer.available)
  IN
  [id |-> AppleStt, kind |-> "PlatformOnDevice", readiness |-> ready[1], voices |-> << >>,
   capabilities |-> <<
     [id |-> AppleSttCapability, backend_id |-> AppleStt, model_id |-> None,
      operation |-> "Transcription", audio |-> {"Pcm"},
      features |-> {"streaming", "partial_results", "segment_timestamps", "word_timestamps",
                    "hotwords"},
      availability |-> ready[2], network |-> "Never",
      languages |-> IF recognizer.on_device THEN {recognizer.locale} ELSE {},
      evidence |-> {RuntimeEvidence}]>>]

ProbeMacos(system) ==
  <<ProbeSynthesis(system.voices), ProbeRecognition(system.authorization, system.recognizer)>>
-----------------------------------------------------------------------------
(* Serving a request.                                                      *)

(* The backend checks for itself what the router checked, and two things   *)
(* the router does not know: Apple's ranges of pitch and rate.             *)
AppleRequestChecks(request) ==
  SynthesisChecks(request) \o <<
    <<request.stream, "apple_tts_streaming_unsupported">>,
    <<request.output # "Wav", "apple_tts_output_unsupported">>,
    <<request.alignment # "None", "apple_tts_alignment_unsupported">>,
    <<request.route.kind = "ExactBackend" /\ request.route.backend_id # AppleTts,
      "apple_tts_backend_mismatch">>,
    <<~request.pitch_in_range, "apple_tts_pitch_unsupported">>,
    <<~request.rate_in_range, "apple_tts_rate_unsupported">> >>

Spoken(voice_id) == [voice_id |-> voice_id, error |-> "None"]
Unspoken(error) == [voice_id |-> None, error |-> error]

(* The voices the system may list for a language.                          *)
VoicesWithLanguage(voices, language) ==
  {listed \in SUBSET {voice \in voices :
                        voice.language # Blank /\ Head(voice.language) = Head(language)} :
     \A voice \in voices : voice.language = language => voice \in listed}

(* The lists of voices resolve_voice may get from the system, which may    *)
(* name any voice its default, or none.                                    *)
VoiceLists(request, voices) ==
  CASE ExactVoice(request) # None -> {{v \in voices : v.id = ExactVoice(request)}}
    [] ExactVoice(request) = None /\ request.language = Blank -> {{}} \cup {{v} : v \in voices}
    [] ExactVoice(request) = None /\ request.language # Blank ->
         VoicesWithLanguage(voices, request.language)

(* resolve_voice, on the set of the voices there are now: its possible     *)
(* results.                                                                *)
ResolveVoice(request, voices) ==
  LET key(voice) == VoiceKey(request, voice)
      first(listed) == IF listed = {} THEN {Unspoken("apple_tts_voice_unavailable")}
                                      ELSE {Spoken(v.id) : v \in Least(listed, key)}
  IN  CASE request.voice.kind = "Profile" -> {Unspoken("apple_tts_voice_profile_unresolved")}
        [] request.voice.kind = "Exact" /\ request.voice.id # ExactVoice(request) ->
             {Unspoken("apple_tts_voice_mismatch")}
        [] OTHER -> {Unspoken("apple_tts_api_failed")} \cup
                    UNION {first(listed) : listed \in VoiceLists(request, voices)}

(* The front of synthesize, up to the operation it spawns.                 *)
AppleServes(request, voices) ==
  IF Passes(AppleRequestChecks(request))
    THEN ResolveVoice(request, voices)
    ELSE {Unspoken(Refusal(AppleRequestChecks(request)))}
=============================================================================
