--------------------------- MODULE PluginStreams ---------------------------
(***************************************************************************)
(* The live transcriptions of the Tauri plugin: every call of              *)
(* speech_transcribe_stream is a command that keeps the sink of its ticket *)
(* under its request id while it relays events, and other commands find    *)
(* the sink there to push audio or to finish.                              *)
(*                                                                         *)
(* A command is known by the nonce of the backend operation it started.    *)
(* The host between the two refuses an id longer than the backend does     *)
(* (SpeechHost); what it refuses in addition is not modelled, so there are *)
(* more behaviours here than the program has.                              *)
(***************************************************************************)
EXTENDS ParakeetBackend

VARIABLES
  command,   (* by nonce, where its command is                             *)
  inputs,    (* by id, the nonce whose sink is in the map, or Free         *)
  clearing   (* callers of shutdown_plugin that have cleared the map       *)

pluginVars == <<command, inputs, clearing>>
allPluginVars == <<vars, pluginVars>>

PluginInit ==
  /\ Init
  /\ command = [n \in Nonces |-> "None"]
  /\ inputs = [id \in RequestIds |-> Free]
  /\ clearing = {}
-----------------------------------------------------------------------------
(* The host's transcribe returned a ticket.                                *)
TranscribeStream(id) ==
  /\ SpawnOperation(id)
  /\ command' = [command EXCEPT ![next_nonce] = "Opened"]
  /\ UNCHANGED <<inputs, clearing>>

(* The sink of a stream is entered; complete audio has none.               *)
EnterSink(n) ==
  /\ command[n] = "Opened"
  /\ command' = [command EXCEPT ![n] = "Relays"]
  /\ inputs' \in {inputs, [inputs EXCEPT ![request_of[n]] = n]}
  /\ UNCHANGED <<vars, clearing>>

(* The channel to the client is closed: its error is returned at once.     *)
HastyStopsRelaying(n) ==
  /\ command[n] = "Relays"
  /\ \E next \in {"Removes", "Returned"} : command' = [command EXCEPT ![n] = next]
  /\ UNCHANGED <<vars, inputs, clearing>>

(* The terminal event was relayed, the events ended or the client's        *)
(* channel is closed, ...                                                  *)
StopsRelaying(n) ==
  /\ command[n] = "Relays"
  /\ command' = [command EXCEPT ![n] = "Removes"]
  /\ UNCHANGED <<vars, inputs, clearing>>

(* ... and what is under the id is removed, whosever it is.                *)
RemoveSink(n) ==
  /\ command[n] = "Removes"
  /\ inputs' = [inputs EXCEPT ![request_of[n]] = Free]
  /\ command' = [command EXCEPT ![n] = "Returns"]
  /\ UNCHANGED <<vars, clearing>>

(* The final response is returned ...                                      *)
ReturnFinal(n) ==
  /\ command[n] = "Returns"
  /\ final[n] # "None"
  /\ command' = [command EXCEPT ![n] = "Returned"]
  /\ UNCHANGED <<vars, inputs, clearing>>

(* ... or the error of the channel; the ticket dropped with it cancels.    *)
ReturnChannelError(n) ==
  /\ command[n] = "Returns"
  /\ command' = [command EXCEPT ![n] = "Returned"]
  /\ \/ active[request_of[n]] = n /\ Cancel(request_of[n])
     \/ active[request_of[n]] # n /\ UNCHANGED vars
  /\ UNCHANGED <<inputs, clearing>>

(* A stream that is finished needs no sink.                                *)
RemovingFinish(id) ==
  /\ inputs[id] # Free
  /\ inputs' = [inputs EXCEPT ![id] = Free]
  /\ UNCHANGED <<vars, command, clearing>>

(* speech_transcription_audio_finish: the sink is borrowed.                *)
FinishInput(id) ==
  /\ inputs[id] # Free
  /\ UNCHANGED <<vars, pluginVars>>

(* shutdown_plugin, at the exit of the application and when the plugin is  *)
(* dropped: the map is cleared, then the host is shut down.                *)
ClearInputs(c) ==
  /\ caller[c] = "Idle" /\ c \notin clearing
  /\ inputs' = [id \in RequestIds |-> Free]
  /\ clearing' = clearing \cup {c}
  /\ UNCHANGED <<vars, command>>

PluginShutdown(c) ==
  /\ c \in clearing
  /\ CallShutdown(c) \/ FollowShutdown(c)
  /\ clearing' = clearing \ {c}
  /\ UNCHANGED <<command, inputs>>

CommandStep(n) ==
  EnterSink(n) \/ StopsRelaying(n) \/ RemoveSink(n) \/ ReturnFinal(n) \/ ReturnChannelError(n)

PluginNext ==
  \/ \E id \in RequestIds :
       TranscribeStream(id) \/ FinishInput(id) \/ (Cancel(id) /\ UNCHANGED pluginVars)
  \/ \E n \in Nonces :
       CommandStep(n) \/ ((WorkerEnds(n) \/ WorkerLeaves(n)) /\ UNCHANGED pluginVars)
  \/ \E c \in Callers :
       \/ ClearInputs(c) \/ PluginShutdown(c)
       \/ (CallerProgress(c) \/ CallerAborts(c)) /\ UNCHANGED pluginVars
  \/ CoordinatorStep /\ UNCHANGED pluginVars

PluginSpec == PluginInit /\ [][PluginNext]_allPluginVars
FairPluginSpec == PluginSpec /\ Fairness
-----------------------------------------------------------------------------
(* Properties.                                                             *)

(* A sink that is in the map belongs to a command that still relays, under *)
(* that command's id: none is left behind, however a command ends.         *)
NoSinkOutlivesItsCommand ==
  \A id \in RequestIds : inputs[id] # Free =>
    /\ request_of[inputs[id]] = id
    /\ command[inputs[id]] \in {"Relays", "Removes"}

(* While its worker runs, a stream loses its sink to nothing but its own   *)
(* command, a shutdown of the plugin, or an older command of its id that   *)
(* is still there, which replaces or removes whatever it finds; never to a *)
(* push, a finish or a newer stream.                                       *)
SinkIsLostOnlyToOverlap ==
  [][\A id \in RequestIds :
       LET n == inputs[id] IN
       n # Free /\ worker[n] = "Working" /\ inputs'[id] # n =>
         \/ clearing \subseteq clearing' /\ clearing' # clearing
         \/ \E m \in 0..n : request_of[m] = id /\ command'[m] # command[m]]_allPluginVars
=============================================================================
