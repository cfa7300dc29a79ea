------------------------ MODULE MCCapabilityRouting -------------------------
(* A small instance of CapabilityRouting for TLC: the Apple source (1) and *)
(* a bridge (2), or the host's backends (3); backends 1 (hosted), 2 and 3  *)
(* (Apple's), 4 and 5.                                                     *)
EXTENDS CapabilityRouting

EnUs == <<"en", "US">>
EnGb == <<"en", "GB">>
En == <<"en">>
De == <<"de", "DE">>

BothSources == {1, 2}
HostBackends == 3
-----------------------------------------------------------------------------
(* Reports.                                                                *)

Voice(id, language, quality, network) ==
  [id |-> id, language |-> language, quality |-> quality, network |-> network,
   installed |-> TRUE]

Evidence(source, kind, outcome) == [source_id |-> source, kind |-> kind, outcome |-> outcome]

Stt(backend, id) ==
  [id |-> id, backend_id |-> backend, model_id |-> 7, operation |-> "Transcription",
   features |-> {"partial_results", "streaming"}, audio |-> {"Pcm", "Wav"},
   availability |-> "Available", network |-> "Never", languages |-> {En, De},
   evidence |-> {Evidence(2, "RealSmoke", "Confirmed")}]

Tts(backend, id) ==
  [id |-> id, backend_id |-> backend, model_id |-> None, operation |-> "Synthesis",
   features |-> {"streaming_audio", "word_alignment"}, audio |-> {"Wav", "Pcm"},
   availability |-> "Available", network |-> "Never", languages |-> {},
   evidence |-> {Evidence(2, "RuntimeApi", "Confirmed")}]

Backend(id, kind, capabilities, voices) ==
  [id |-> id, kind |-> kind, readiness |-> "Ready", capabilities |-> capabilities,
   voices |-> voices]

Hosted == Backend(1, "Hosted",
  <<[Stt(1, 11) EXCEPT !.network = "Required", !.features = @ \cup {"diarization"}],
    [Tts(1, 12) EXCEPT !.network = "Required"]>>, << >>)
Embedded == Backend(4, "EmbeddedModel", <<Stt(4, 13)>>, << >>)
Service == Backend(5, "PlatformService", <<Tts(5, 14), [Stt(5, 15) EXCEPT !.network = "Unknown"]>>,
  <<Voice(1, EnUs, 4, "Required"), Voice(2, EnUs, 3, "Never"), Voice(3, EnGb, 4, "Never")>>)

BridgeOffers ==
  { <<Hosted, Embedded>>, <<Service, Embedded>>, <<Hosted, Service>>,
    <<[Embedded EXCEPT !.readiness = "NotConfigured"], Service>>,
    \* evidence that does not prove a local route, and evidence of another's
    <<[Embedded EXCEPT !.capabilities = <<
        [Stt(4, 13) EXCEPT !.evidence = {Evidence(2, "RuntimeApi", "Rejected"),
                                         Evidence(9, "Documentation", "Confirmed")}]>>]>>,
    <<[Embedded EXCEPT !.capabilities = <<
        [Stt(4, 13) EXCEPT !.evidence = {Evidence(1, "RuntimeApi", "Confirmed")}]>>]>>,
    \* ids that are Apple's, or taken in the report itself
    <<Backend(2, "PlatformService", <<Tts(2, 14)>>, <<Voice(7, EnUs, 3, "Never")>>)>>,
    <<Backend(4, "EmbeddedModel", <<Stt(4, 22)>>, << >>)>>,
    <<Embedded, Embedded>>,
    <<Backend(4, "EmbeddedModel", <<Stt(4, 13), Stt(4, 13)>>, << >>)>>,
    \* a resident model that a profile prefers, unavailable and available
    <<Backend(4, "ResidentMultimodalModel", <<Tts(4, 13),
        [Tts(4, 12) EXCEPT !.availability = "Unavailable"]>>, <<Voice(4, De, 0, "Never")>>)>>,
    \* a model and a voice with blank ids, and voices that share one
    <<Backend(4, "PlatformOnDevice", <<[Stt(4, 13) EXCEPT !.model_id = Empty]>>, << >>),
      Backend(5, "PlatformOnDevice", <<Tts(5, 14)>>,
        <<Voice(3, EnGb, 1, "Never"), Voice(3, EnGb, 4, "Never"), Voice(Empty, EnUs, 4, "Never")>>)>> }

(* Backends of the host: evidence of whoever observed it, and capability   *)
(* ids that two backends share.                                            *)
HostOffers ==
  { <<Hosted, [Embedded EXCEPT !.capabilities = <<
        [Stt(4, 13) EXCEPT !.evidence = {Evidence(9, "RealSmoke", "Confirmed")}]>>], Service>>,
    <<Embedded, Backend(5, "PlatformService", <<Tts(5, 13)>>, << >>)>>,
    << >> }

Offer == [source \in {2, HostBackends} |-> IF source = 2 THEN BridgeOffers ELSE HostOffers]
-----------------------------------------------------------------------------
(* The system.                                                             *)

VoiceEnUs == Voice(1, EnUs, 2, "Never")
VoiceEnGb == Voice(2, EnGb, 4, "Never")
VoiceDe == Voice(3, De, 3, "Never")

System(voices, authorization) ==
  [voices |-> voices, authorization |-> authorization,
   recognizer |-> [locale |-> EnUs, on_device |-> TRUE, available |-> TRUE]]

SomeSystems ==
  { System(<<VoiceEnUs, VoiceEnGb, VoiceDe>>, "Authorized"),
    System(<<VoiceEnUs, VoiceDe>>, "NotDetermined"),
    System(<<VoiceEnGb, Voice(4, Blank, 2, "Never")>>, "Denied"),
    [System(<< >>, "Restricted") EXCEPT !.recognizer.locale = Blank] }
-----------------------------------------------------------------------------
(* Requests.                                                               *)

Auto == [kind |-> "Auto", backend_id |-> None, model_id |-> None, voice_id |-> None]
Exact(backend, model, voice) ==
  [kind |-> "ExactBackend", backend_id |-> backend, model_id |-> model, voice_id |-> voice]
Named == [Auto EXCEPT !.kind = "Profile"]

Transcribe ==
  [operation |-> "Transcription", defects |-> {}, route |-> Auto, privacy |-> "LocalOnly",
   profile |-> "PrivateBalanced", language |-> EnUs, input |-> [kind |-> "Pcm", format |-> "Pcm"],
   partial_results |-> FALSE, timestamps |-> "None", diarization |-> "Disabled",
   translate |-> FALSE, hotwords |-> FALSE]

Synthesize ==
  [operation |-> "Synthesis", defects |-> {}, route |-> Auto, privacy |-> "LocalOnly",
   profile |-> "PrivateBalanced", language |-> EnUs, voice |-> [kind |-> "Auto", id |-> None],
   ssml |-> FALSE, stream |-> FALSE, output |-> "Wav", alignment |-> "None",
   pitch_in_range |-> TRUE, rate_in_range |-> TRUE]

Transcriptions ==
  { Transcribe,
    [Transcribe EXCEPT !.profile = "ConsistentLocal", !.language = Blank],
    [Transcribe EXCEPT !.privacy = "HostedAllowed", !.profile = "HostedEnabled"],
    [Transcribe EXCEPT !.privacy = "HostedOnly", !.diarization = "Auto"],
    [Transcribe EXCEPT !.input = [kind |-> "Encoded", format |-> "Wav"]],
    [Transcribe EXCEPT !.input = [kind |-> "Asset", format |-> "None"], !.partial_results = TRUE],
    [Transcribe EXCEPT !.input = [kind |-> "Stream", format |-> "Pcm"], !.timestamps = "Word"],
    [Transcribe EXCEPT !.translate = TRUE], [Transcribe EXCEPT !.hotwords = TRUE],
    [Transcribe EXCEPT !.route = Exact(4, 7, None)],
    [Transcribe EXCEPT !.route = Exact(4, Empty, None)],
    [Transcribe EXCEPT !.route = Exact(3, 7, None), !.language = En],
    [Transcribe EXCEPT !.diarization = "BoundedToNobody"],
    [Transcribe EXCEPT !.defects = {"client_id_empty", "hotword_empty"}] }

Syntheses ==
  { Synthesize,
    [Synthesize EXCEPT !.language = Blank], [Synthesize EXCEPT !.language = En],
    [Synthesize EXCEPT !.language = EnGb, !.profile = "NativePreferred"],
    [Synthesize EXCEPT !.privacy = "HostedOnly", !.stream = TRUE],
    [Synthesize EXCEPT !.profile = "ConsistentLocal", !.language = De],
    [Synthesize EXCEPT !.voice = [kind |-> "Exact", id |-> 2]],
    [Synthesize EXCEPT !.voice = [kind |-> "Exact", id |-> 2], !.route = Exact(2, None, 1)],
    [Synthesize EXCEPT !.voice = [kind |-> "Exact", id |-> Empty]],
    [Synthesize EXCEPT !.voice = [kind |-> "Profile", id |-> None]],
    [Synthesize EXCEPT !.route = Exact(5, None, 3)], [Synthesize EXCEPT !.route = Named],
    [Synthesize EXCEPT !.ssml = TRUE, !.rate_in_range = FALSE],
    [Synthesize EXCEPT !.output = "Mp3"], [Synthesize EXCEPT !.alignment = "Word"],
    [Synthesize EXCEPT !.pitch_in_range = FALSE, !.language = De],
    [Synthesize EXCEPT !.defects = {"speech_rate_invalid"}] }

AllRequests == Transcriptions \cup Syntheses
=============================================================================
