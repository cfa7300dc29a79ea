----------------------- MODULE ParakeetTranscription -----------------------
(***************************************************************************)
(* One transcription by the Parakeet backend: the worker thread, the       *)
(* client's audio sink (push and finish), the cancel by id, the bounded    *)
(* audio and event channels, the final response and the worker's lease.    *)
(*                                                                         *)
(* `cancelled`, `finished` and the sink's sender are set one after another *)
(* by cancel_operation, and each is read on its own by the worker and by   *)
(* push.  Audio is counted in frames at the model's rate (StreamResampling *)
(* models the other rates); the model itself may produce text or none, may *)
(* fail, and may panic.                                                    *)
(***************************************************************************)
EXTENDS Naturals, Sequences

CONSTANTS
  Pushers,         (* client tasks that share the sink                     *)
  MaxPushes,       (* bound: pushes begun, for checking                    *)
  FrameCounts,     (* frames a pushed chunk may have                       *)
  CompleteFrames,  (* frames a complete input may have                     *)
  MaxAudioFrames,  (* MAX_AUDIO_MS, in frames                              *)
  ModelFrames,     (* MODEL_CHUNK_SAMPLES                                  *)
  AudioCapacity,   (* capacity of the audio channel                        *)
  EventCapacity,   (* capacity of the event channel                        *)
  Inputs           (* which of "Complete" and "Stream" to consider         *)

ASSUME CapacityAssumption == EventCapacity \in Nat /\ EventCapacity >= 2
ASSUME ModelAssumption == ModelFrames \in Nat \ {0}
ASSUME AudioAssumption == AudioCapacity \in Nat /\ MaxPushes \in Nat
ASSUME InputAssumption ==
  /\ Inputs \subseteq {"Complete", "Stream"}
  /\ FrameCounts \subseteq Nat
  /\ CompleteFrames \subseteq Nat

VARIABLES
  input,         (* the request's kind of input                            *)
  stage,         (* where the worker is; "Absent" before admission         *)
  chunk,         (* the audio chunk in the worker's hands                  *)
  pending,       (* frames not yet given to the model                      *)
  heard,         (* ids of the chunks that were transcribed, in order      *)
  frames,        (* frames received: next_sample_offset                    *)
  result,        (* what transcribe_samples or transcribe_stream returned  *)
  cancelled,     (* the operation's cancelled flag                         *)
  finished,      (* StreamControl::finished                                *)
  sender_held,   (* StreamControl::sender is Some                          *)
  audio,         (* the audio channel                                      *)
  receiver_open, (* the worker still has the audio receiver                *)
  pusher,        (* by pusher, its stage and chunk                         *)
  pushes,        (* pushes begun                                           *)
  accepted,      (* history: ids of the chunks whose push returned Ok      *)
  events,        (* history: every event sent, in order                    *)
  unread,        (* events in the channel                                  *)
  consumer_open, (* the event receiver exists                              *)
  final,         (* the final response; "Lost" when its sender was dropped *)
  canceller,     (* progress of the cancel that holds the backend's lock   *)
  finisher,      (* progress of finish                                     *)
  late           (* history: model runs that ended after `cancelled`       *)

workerVars == <<stage, chunk, pending, heard, frames, result>>
sinkVars == <<pusher, pushes, accepted>>
eventVars == <<events, unread, consumer_open>>
controlVars == <<cancelled, finished, sender_held, canceller, finisher>>
vars == <<input, workerVars, controlVars, audio, receiver_open, sinkVars,
          eventVars, final, late>>

Terminals == {"Completed", "Cancelled", "Failed"}

NoChunk == [id |-> 0, sequence |-> 0, frames |-> 0, end_of_stream |-> FALSE]

(* A chunk may be empty only if it ends the stream.                        *)
ChunkSpace ==
  {c \in [id : 1..MaxPushes, sequence : 0..MaxPushes - 1, frames : FrameCounts,
          end_of_stream : BOOLEAN] :
     c.frames = 0 => c.end_of_stream}

Active == stage \notin {"Absent", "Done"}

Init ==
  /\ input \in Inputs
  /\ stage = "Absent"
  /\ chunk = NoChunk
  /\ pending = 0
  /\ heard = <<>>
  /\ frames = 0
  /\ result = "None"
  /\ cancelled = FALSE
  /\ finished = FALSE
  /\ sender_held = (input = "Stream")
  /\ audio = <<>>
  /\ receiver_open = (input = "Stream")
  /\ pusher = [p \in Pushers |-> [stage |-> "Idle", chunk |-> NoChunk]]
  /\ pushes = 0
  /\ accepted = {}
  /\ events = <<>>
  /\ unread = 0
  /\ consumer_open = TRUE
  /\ final = "None"
  /\ canceller = "Idle"
  /\ finisher = "Idle"
  /\ late = 0
-----------------------------------------------------------------------------
(* The events.                                                             *)

SendEvent(e) ==
  /\ events' = Append(events, e)
  /\ unread' = unread + 1
  /\ UNCHANGED consumer_open

Started == [type |-> "Started", sequence |-> 0]
Partial(n) == [type |-> "Partial", sequence |-> n]
Terminal(class) == [type |-> class, sequence |-> 0]

PartialCount == Len(SelectSeq(events, LAMBDA e : e.type = "Partial"))

(* Partials may fill the channel.                                          *)
FaultyHasRoomForPartial == EventCapacity - unread > 0

(* append_delta: a partial is sent only while more than one slot is free,  *)
(* which keeps a slot for the terminal event.  A request without partial   *)
(* results sends what a model that yields no text does.                    *)
HasRoomForPartial == EventCapacity - unread > 1

AppendDelta(text) ==
  IF text /\ consumer_open /\ HasRoomForPartial
    THEN SendEvent(Partial(PartialCount))
    ELSE UNCHANGED eventVars

ReadEvent ==
  /\ unread > 0
  /\ unread' = unread - 1
  /\ UNCHANGED <<input, workerVars, controlVars, audio, receiver_open, sinkVars,
                 events, consumer_open, final, late>>

DropConsumer ==
  /\ consumer_open
  /\ consumer_open' = FALSE
  /\ unread' = 0
  /\ UNCHANGED <<input, workerVars, controlVars, audio, receiver_open, sinkVars,
                 events, final, late>>
-----------------------------------------------------------------------------
(* The worker.                                                             *)

(* spawn_operation, which holds the backend's lock until the operation is  *)
(* in the active map, so that neither a cancel nor the lease's drop can    *)
(* come in between.                                                        *)
Admit ==
  /\ stage = "Absent"
  /\ stage' = "Begin"
  /\ UNCHANGED <<input, chunk, pending, heard, frames, result, controlVars,
                 audio, receiver_open, sinkVars, eventVars, final, late>>

BeginCancelled ==
  /\ stage = "Begin"
  /\ cancelled
  /\ stage' = "Terminal"
  /\ result' = "Cancelled"
  /\ UNCHANGED <<input, chunk, pending, heard, frames, controlVars, audio,
                 receiver_open, sinkVars, eventVars, final, late>>

BeginChecked ==
  /\ stage = "Begin"
  /\ ~cancelled
  /\ stage' = "Start"
  /\ UNCHANGED <<input, chunk, pending, heard, frames, result, controlVars,
                 audio, receiver_open, sinkVars, eventVars, final, late>>

(* Without a consumer there is no Started, and no terminal event either.   *)
StartUnheard ==
  /\ stage = "Start"
  /\ ~consumer_open
  /\ stage' = "Final"
  /\ result' = "Cancelled"
  /\ UNCHANGED <<input, chunk, pending, heard, frames, controlVars, audio,
                 receiver_open, sinkVars, eventVars, final, late>>

StartHeard ==
  /\ stage = "Start"
  /\ consumer_open
  /\ unread < EventCapacity
  /\ SendEvent(Started)
  /\ IF input = "Stream"
       THEN stage' = "Receive" /\ UNCHANGED <<pending, frames>>
       ELSE /\ stage' = "Loop"
            /\ pending' \in CompleteFrames
            /\ frames' = pending'
  /\ UNCHANGED <<input, chunk, heard, result, controlVars, audio, receiver_open,
                 sinkVars, final, late>>

(* The transcription returns; the stream's receiver goes with it.          *)
Return(r) ==
  /\ stage' = "Conclude"
  /\ result' = r
  /\ receiver_open' = FALSE
  /\ audio' = <<>>

(* decode_complete refuses the audio.                                      *)
DecodeFails ==
  /\ stage = "Loop"
  /\ input = "Complete"
  /\ PartialCount = 0
  /\ pending = frames
  /\ Return("Failed")
  /\ UNCHANGED <<input, chunk, pending, heard, frames, controlVars, sinkVars,
                 eventVars, final, late>>

Receive ==
  /\ stage = "Receive"
  /\ audio # <<>>
  /\ chunk' = Head(audio)
  /\ audio' = Tail(audio)
  /\ stage' = "Chunk"
  /\ UNCHANGED <<input, pending, heard, frames, result, controlVars,
                 receiver_open, sinkVars, eventVars, final, late>>

(* A push holds a clone of the sender from "Send" until it returns.        *)
Senders == {p \in Pushers : pusher[p].stage \in {"Send", "Recheck"}}

(* The stream ends when its sender is taken, with audio still queued.      *)
FaultyAudioEnded == ~sender_held

AudioEnded == audio = <<>> /\ ~sender_held /\ Senders = {}

ReceiveEnd ==
  /\ stage = "Receive"
  /\ AudioEnded
  /\ stage' = "Tail"
  /\ UNCHANGED <<input, chunk, pending, heard, frames, result, controlVars,
                 audio, receiver_open, sinkVars, eventVars, final, late>>

Contiguous == chunk.sequence = Len(heard)

ChunkRefused ==
  /\ stage = "Chunk"
  /\ \/ cancelled /\ Return("Cancelled")
     \/ ~cancelled /\ Return("Failed")   (* out of order, or not decodable *)
  /\ UNCHANGED <<input, chunk, pending, heard, frames, controlVars, sinkVars,
                 eventVars, final, late>>

ChunkTaken ==
  /\ stage = "Chunk"
  /\ ~cancelled
  /\ Contiguous
  /\ heard' = Append(heard, chunk.id)
  /\ frames' = frames + chunk.frames
  /\ pending' = pending + chunk.frames
  /\ stage' = "Loop"
  /\ UNCHANGED <<input, chunk, result, controlVars, audio, receiver_open,
                 sinkVars, eventVars, final, late>>

(* Complete audio is padded chunk by chunk; a stream waits for a full one. *)
ModelInputReady ==
  IF input = "Complete" THEN pending > 0 ELSE pending >= ModelFrames

LoopCancelled ==
  /\ stage = "Loop"
  /\ ModelInputReady
  /\ cancelled
  /\ Return("Cancelled")
  /\ UNCHANGED <<input, chunk, pending, heard, frames, controlVars, sinkVars,
                 eventVars, final, late>>

(* No look at the flag between model runs.                                 *)
FaultyLoopChecked ==
  /\ stage = "Loop"
  /\ ModelInputReady
  /\ stage' = "Infer"
  /\ UNCHANGED <<input, chunk, pending, heard, frames, result, controlVars,
                 audio, receiver_open, sinkVars, eventVars, final, late>>

LoopChecked ==
  /\ stage = "Loop"
  /\ ModelInputReady
  /\ ~cancelled
  /\ stage' = "Infer"
  /\ UNCHANGED <<input, chunk, pending, heard, frames, result, controlVars,
                 audio, receiver_open, sinkVars, eventVars, final, late>>

LoopEnds ==
  /\ stage = "Loop"
  /\ ~ModelInputReady
  /\ stage' = IF input = "Complete" \/ chunk.end_of_stream THEN "Tail" ELSE "Receive"
  /\ UNCHANGED <<input, chunk, pending, heard, frames, result, controlVars,
                 audio, receiver_open, sinkVars, eventVars, final, late>>

CountLate == late' = IF cancelled THEN late + 1 ELSE late

Infer ==
  /\ stage = "Infer"
  /\ \E text \in BOOLEAN : AppendDelta(text)
  /\ pending' = IF pending > ModelFrames THEN pending - ModelFrames ELSE 0
  /\ stage' = "Loop"
  /\ CountLate
  /\ UNCHANGED <<input, chunk, heard, frames, result, controlVars, audio,
                 receiver_open, sinkVars, final>>

(* The rest of a stream is padded and run without a look at the flag.      *)
InferTail ==
  /\ stage = "Tail"
  /\ pending > 0
  /\ \E text \in BOOLEAN : AppendDelta(text)
  /\ pending' = 0
  /\ CountLate
  /\ UNCHANGED <<input, stage, chunk, heard, frames, result, controlVars, audio,
                 receiver_open, sinkVars, final>>

InferFails ==
  /\ stage = "Infer" \/ (stage = "Tail" /\ pending > 0)
  /\ Return("Failed")
  /\ CountLate
  /\ UNCHANGED <<input, chunk, pending, heard, frames, controlVars, sinkVars,
                 eventVars, final>>

(* The closure unwinds: both senders are dropped, then the lease.          *)
InferPanics ==
  /\ stage = "Infer" \/ (stage = "Tail" /\ pending > 0)
  /\ stage' = "Reap"
  /\ final' = "Lost"
  /\ receiver_open' = FALSE
  /\ audio' = <<>>
  /\ CountLate
  /\ UNCHANGED <<input, chunk, pending, heard, frames, result, controlVars,
                 sinkVars, eventVars>>

BuildResponse ==
  /\ stage = "Tail"
  /\ pending = 0
  /\ Return(IF frames > MaxAudioFrames THEN "Failed" ELSE "Completed")
  /\ UNCHANGED <<input, chunk, pending, heard, frames, controlVars, sinkVars,
                 eventVars, final, late>>

(* The last look at the flag.                                              *)
Conclude ==
  /\ stage = "Conclude"
  /\ stage' = "Terminal"
  /\ result' = IF result = "Completed" /\ cancelled THEN "Cancelled" ELSE result
  /\ UNCHANGED <<input, chunk, pending, heard, frames, controlVars, audio,
                 receiver_open, sinkVars, eventVars, final, late>>

CanSendTerminal == consumer_open => unread < EventCapacity

SendTerminal ==
  /\ stage = "Terminal"
  /\ CanSendTerminal
  /\ IF consumer_open THEN SendEvent(Terminal(result)) ELSE UNCHANGED eventVars
  /\ stage' = "Final"
  /\ UNCHANGED <<input, chunk, pending, heard, frames, result, controlVars,
                 audio, receiver_open, sinkVars, final, late>>

(* The final response looks at the flag once more.                         *)
FaultySendFinal ==
  /\ stage = "Final"
  /\ final' = IF cancelled THEN "Cancelled" ELSE result
  /\ stage' = "Returned"
  /\ UNCHANGED <<input, chunk, pending, heard, frames, result, controlVars, audio, receiver_open,
                 sinkVars, eventVars, late>>

SendFinal ==
  /\ stage = "Final"
  /\ final' = result
  /\ stage' = "Returned"
  /\ UNCHANGED <<input, chunk, pending, heard, frames, result, controlVars,
                 audio, receiver_open, sinkVars, eventVars, late>>

(* run_transcription gives up a receiver the stream loop never took.       *)
DropReceiver ==
  /\ stage = "Returned"
  /\ receiver_open' = FALSE
  /\ audio' = <<>>
  /\ stage' = "Reap"
  /\ UNCHANGED <<input, chunk, pending, heard, frames, result, controlVars,
                 sinkVars, eventVars, final, late>>

(* The lease is dropped as soon as the terminal event is out.              *)
FaultyReap ==
  /\ stage \in {"Final", "Reap"}
  /\ canceller = "Idle"
  /\ stage' = "Done"
  /\ UNCHANGED <<input, chunk, pending, heard, frames, result, controlVars,
                 audio, receiver_open, sinkVars, eventVars, final, late>>

(* Drop of the lease, under the lock a cancel holds to its end.            *)
Reap ==
  /\ stage = "Reap"
  /\ canceller = "Idle"
  /\ stage' = "Done"
  /\ UNCHANGED <<input, chunk, pending, heard, frames, result, controlVars,
                 audio, receiver_open, sinkVars, eventVars, final, late>>
-----------------------------------------------------------------------------
(* cancel_request, through the backend or the ticket.  A second cancel     *)
(* would set again what is set.                                            *)

CancelMark ==
  /\ canceller = "Idle"
  /\ Active
  /\ ~cancelled
  /\ cancelled' = TRUE
  /\ canceller' = IF input = "Stream" THEN "Finish" ELSE "Idle"
  /\ UNCHANGED <<input, workerVars, finished, sender_held, finisher, audio,
                 receiver_open, sinkVars, eventVars, final, late>>

CancelFinishes ==
  /\ canceller = "Finish"
  /\ finished' = TRUE
  /\ canceller' = "Take"
  /\ UNCHANGED <<input, workerVars, cancelled, sender_held, finisher, audio,
                 receiver_open, sinkVars, eventVars, final, late>>

(* A cancel that only sets the flag, with the worker asleep on the stream. *)
FaultyCancelTakesSender ==
  /\ canceller = "Take"
  /\ canceller' = "Idle"
  /\ UNCHANGED <<input, workerVars, cancelled, finished, sender_held, finisher,
                 audio, receiver_open, sinkVars, eventVars, final, late>>

CancelTakesSender ==
  /\ canceller = "Take"
  /\ sender_held' = FALSE
  /\ canceller' = "Idle"
  /\ UNCHANGED <<input, workerVars, cancelled, finished, finisher, audio,
                 receiver_open, sinkVars, eventVars, final, late>>

(* finish of the sink.  A second one, or one after a cancel, returns Ok    *)
(* and does nothing.                                                       *)
Finish ==
  /\ input = "Stream"
  /\ stage # "Absent"
  /\ finisher = "Idle"
  /\ ~finished
  /\ finished' = TRUE
  /\ finisher' = "Take"
  /\ UNCHANGED <<input, workerVars, cancelled, sender_held, canceller, audio,
                 receiver_open, sinkVars, eventVars, final, late>>

FinishTakesSender ==
  /\ finisher = "Take"
  /\ sender_held' = FALSE
  /\ finisher' = "Done"
  /\ UNCHANGED <<input, workerVars, cancelled, finished, canceller, audio,
                 receiver_open, sinkVars, eventVars, final, late>>
-----------------------------------------------------------------------------
(* push of the sink.  An invalid chunk, or one of another format, is       *)
(* refused without effect.                                                 *)

SetPusher(p, s) == pusher' = [pusher EXCEPT ![p].stage = s]

PushReturns(p) ==
  pusher' = [pusher EXCEPT ![p] = [stage |-> "Idle", chunk |-> NoChunk]]

(* The first look at `finished`; a push that sees it set returns at once.  *)
PushBegin(p) ==
  /\ input = "Stream"
  /\ stage # "Absent"
  /\ pusher[p].stage = "Idle"
  /\ ~finished
  /\ pushes < MaxPushes
  /\ pushes' = pushes + 1
  /\ \E c \in ChunkSpace :
       /\ c.id = pushes'
       /\ pusher' = [pusher EXCEPT ![p] = [stage |-> "Clone", chunk |-> c]]
  /\ UNCHANGED <<input, workerVars, controlVars, audio, receiver_open, accepted,
                 eventVars, final, late>>

PushClones(p) ==
  /\ pusher[p].stage = "Clone"
  /\ IF sender_held THEN SetPusher(p, "Send") ELSE PushReturns(p)
  /\ UNCHANGED <<input, workerVars, controlVars, audio, receiver_open, pushes,
                 accepted, eventVars, final, late>>

PushSends(p) ==
  /\ pusher[p].stage = "Send"
  /\ receiver_open
  /\ Len(audio) < AudioCapacity
  /\ audio' = Append(audio, pusher[p].chunk)
  /\ SetPusher(p, "Recheck")
  /\ UNCHANGED <<input, workerVars, controlVars, receiver_open, pushes, accepted,
                 eventVars, final, late>>

PushFindsClosed(p) ==
  /\ pusher[p].stage = "Send"
  /\ ~receiver_open
  /\ PushReturns(p)
  /\ UNCHANGED <<input, workerVars, controlVars, audio, receiver_open, pushes,
                 accepted, eventVars, final, late>>

(* The second look: a chunk that was sent may still be reported refused.   *)
PushRechecks(p) ==
  /\ pusher[p].stage = "Recheck"
  /\ accepted' = IF finished THEN accepted ELSE accepted \cup {pusher[p].chunk.id}
  /\ PushReturns(p)
  /\ UNCHANGED <<input, workerVars, controlVars, audio, receiver_open, pushes,
                 eventVars, final, late>>

(* The client drops a push that waits for room.                            *)
PushAborts(p) ==
  /\ pusher[p].stage = "Send"
  /\ PushReturns(p)
  /\ UNCHANGED <<input, workerVars, controlVars, audio, receiver_open, pushes,
                 accepted, eventVars, final, late>>
-----------------------------------------------------------------------------
WorkerStep ==
  \/ BeginCancelled \/ BeginChecked \/ StartUnheard \/ StartHeard
  \/ DecodeFails \/ Receive \/ ReceiveEnd \/ ChunkRefused \/ ChunkTaken
  \/ LoopCancelled \/ LoopChecked \/ LoopEnds
  \/ Infer \/ InferTail \/ InferFails \/ InferPanics \/ BuildResponse
  \/ Conclude \/ SendTerminal \/ SendFinal \/ DropReceiver \/ Reap

CancelProgress == CancelFinishes \/ CancelTakesSender

PushProgress(p) ==
  PushClones(p) \/ PushSends(p) \/ PushFindsClosed(p) \/ PushRechecks(p)

Next ==
  \/ Admit
  \/ WorkerStep
  \/ CancelMark \/ CancelProgress
  \/ Finish \/ FinishTakesSender
  \/ ReadEvent \/ DropConsumer
  \/ \E p \in Pushers : PushBegin(p) \/ PushProgress(p) \/ PushAborts(p)

Spec == Init /\ [][Next]_vars

(* The worker thread runs, model runs end, a cancel and a finish run to    *)
(* their end, and the client polls the pushes it started.  Nobody has to   *)
(* read an event, push, finish or cancel.                                  *)
Fairness ==
  /\ WF_vars(WorkerStep)
  /\ WF_vars(CancelProgress)
  /\ WF_vars(FinishTakesSender)
  /\ \A p \in Pushers : WF_vars(PushProgress(p))

FairSpec == Spec /\ Fairness
-----------------------------------------------------------------------------
(* Properties.                                                             *)

(* Types of the variables of a transcription.                              *)
TypeOK ==
  /\ input \in Inputs
  /\ stage \in {"Absent", "Begin", "Start", "Receive", "Chunk", "Loop", "Infer",
                "Tail", "Conclude", "Terminal", "Final", "Returned", "Reap", "Done"}
  /\ chunk \in ChunkSpace \cup {NoChunk}
  /\ pending \in Nat /\ frames \in Nat /\ late \in Nat
  /\ heard \in Seq(1..MaxPushes)
  /\ result \in Terminals \cup {"None"}
  /\ {cancelled, finished, sender_held, receiver_open, consumer_open} \subseteq BOOLEAN
  /\ audio \in Seq(ChunkSpace) /\ Len(audio) <= AudioCapacity
  /\ \A p \in Pushers : pusher[p].stage \in {"Idle", "Clone", "Send", "Recheck"}
  /\ accepted \subseteq 1..pushes
  /\ unread \in 0..EventCapacity /\ unread <= Len(events)
  /\ final \in Terminals \cup {"None", "Lost"}
  /\ canceller \in {"Idle", "Finish", "Take"}
  /\ finisher \in {"Idle", "Take", "Done"}

(* A full event channel never keeps the worker from its terminal event,    *)
(* whether or not anybody reads: what the comment in append_delta claims.  *)
TerminalNeverBlocks == stage = "Terminal" => CanSendTerminal

(* The events tell the same story as the final response: Started comes     *)
(* first, a terminal event comes last and only once, it names the class of *)
(* the final response, and a consumer that stayed has it before the final  *)
(* response is out.  All of it across the stages of run_transcription.     *)
EventsAgreeWithFinal ==
  /\ \A i \in 1..Len(events) :
       /\ events[i].type = "Started" => i = 1
       /\ events[i].type = "Partial" => i > 1
       /\ events[i].type \in Terminals =>
            /\ i = Len(events)
            /\ final \in {"None", events[i].type}
  /\ final \in Terminals /\ consumer_open => events[Len(events)].type = final

(* A push that returned Ok was transcribed when the response is a complete *)
(* one, although the sink is finished and the sender taken while pushes    *)
(* are under way.  Only audio behind a chunk that says end_of_stream is    *)
(* left unheard.                                                           *)
AcceptedAudioIsHeard ==
  result = "Completed" /\ ~chunk.end_of_stream =>
    \A id \in accepted : \E i \in 1..Len(heard) : heard[i] = id

(* A cancel stops the model soon: at most the run under way and the padded *)
(* rest of the stream, which is not checked again, end after it.           *)
CancelStopsTheModel == late <= 2

(* A cancel set before the worker's last look at it is answered, and never *)
(* by a transcript, even if nobody reads events or ends the stream; and a  *)
(* stream that was finished is answered and gives its request id back.     *)
RequestsAreAnswered ==
  /\ cancelled /\ stage \notin {"Terminal", "Final", "Returned", "Reap", "Done"}
       ~> final \in {"Cancelled", "Failed", "Lost"}
  /\ finished ~> final # "None" /\ stage = "Done"

(* The transcription is one operation of a backend as the host knows it:   *)
(* admitted, perhaps cancelled, answered once, and given up after that.    *)
Backend == INSTANCE SpeechBackends WITH
  Backends <- {"parakeet"},
  RequestIds <- {"id"},
  Requests <- {"request"},
  FinalClasses <- Terminals \cup {"Lost"},
  backend_phase <- [b \in {"parakeet"} |-> "Running"],
  backend_active <- [b \in {"parakeet"} |-> IF Active THEN {<<"id", "request">>} ELSE {}],
  backend_cancelled <- IF cancelled THEN {"request"} ELSE {},
  backend_final <- [r \in {"request"} |-> final]

ImplementsBackend == Backend!Spec
=============================================================================
