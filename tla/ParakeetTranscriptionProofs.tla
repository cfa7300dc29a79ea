-------------------- MODULE ParakeetTranscriptionProofs --------------------
(***************************************************************************)
(* What one transcription keeps, whatever the capacities, the audio and    *)
(* the number of clients: the terminal event always finds room; a cancel   *)
(* stops the model; the events tell what the final response says; audio    *)
(* whose push returned Ok is in a complete transcript; and the host sees   *)
(* one operation of the backend protocol.                                  *)
(***************************************************************************)
EXTENDS ParakeetTranscription, SequenceTheorems, TLAPS

BeforeStarted == {"Absent", "Begin", "Start"}
AfterTerminal == {"Final", "Returned", "Reap", "Done"}

(* The strengthening: until the terminal event is sent one slot is free,   *)
(* because Started meets an empty channel of two slots and a partial is    *)
(* sent only when two are free.                                            *)
SlotReserved ==
  /\ unread \in Nat
  /\ stage \in BeforeStarted => unread = 0
  /\ stage \notin AfterTerminal => unread < EventCapacity

LEMMA InitReserves == Init => SlotReserved
  BY CapacityAssumption DEF Init, SlotReserved, BeforeStarted, AfterTerminal

(* A partial leaves a slot free, and does not touch an empty history.      *)
LEMMA AppendDeltaReserves ==
  ASSUME NEW text, unread \in Nat, unread < EventCapacity, AppendDelta(text)
  PROVE  unread' \in Nat /\ unread' < EventCapacity
<1>1. CASE text /\ consumer_open /\ HasRoomForPartial
  BY <1>1, CapacityAssumption DEF AppendDelta, HasRoomForPartial, SendEvent
<1>2. CASE ~(text /\ consumer_open /\ HasRoomForPartial)
  BY <1>2 DEF AppendDelta, eventVars
<1>3. QED  BY <1>1, <1>2

(* A step of the worker other than its sends leaves the channel alone, and *)
(* never goes back to a stage before Started.                              *)
LEMMA WorkerReserves == SlotReserved /\ WorkerStep => SlotReserved'
<1> SUFFICES ASSUME SlotReserved, WorkerStep PROVE SlotReserved'
  OBVIOUS
<1> USE DEF SlotReserved, BeforeStarted, AfterTerminal
<1>1. CASE BeginCancelled  BY <1>1 DEF BeginCancelled, eventVars
<1>2. CASE BeginChecked    BY <1>2 DEF BeginChecked, eventVars
<1>3. CASE StartUnheard    BY <1>3 DEF StartUnheard, eventVars
<1>4. CASE StartHeard
  <2>1. unread' = 1
    BY <1>4 DEF StartHeard, SendEvent
  <2>2. stage' \in {"Receive", "Loop"}
    BY <1>4 DEF StartHeard
  <2>3. QED  BY <2>1, <2>2, CapacityAssumption
<1>5. CASE DecodeFails     BY <1>5 DEF DecodeFails, Return, eventVars
<1>6. CASE Receive         BY <1>6 DEF Receive, eventVars
<1>7. CASE ReceiveEnd      BY <1>7 DEF ReceiveEnd, eventVars
<1>8. CASE ChunkRefused    BY <1>8 DEF ChunkRefused, Return, eventVars
<1>9. CASE ChunkTaken      BY <1>9 DEF ChunkTaken, eventVars
<1>10. CASE LoopCancelled  BY <1>10 DEF LoopCancelled, Return, eventVars
<1>11. CASE LoopChecked    BY <1>11 DEF LoopChecked, eventVars
<1>12. CASE LoopEnds
  <2>1. stage = "Loop" /\ stage' \in {"Tail", "Receive"}
    BY <1>12 DEF LoopEnds
  <2>2. unread' = unread
    BY <1>12 DEF LoopEnds, eventVars
  <2>3. QED  BY <2>1, <2>2
<1>13. CASE Infer
  <2>1. stage = "Infer" /\ stage' = "Loop"
    BY <1>13 DEF Infer
  <2>2. PICK text \in BOOLEAN : AppendDelta(text)
    BY <1>13 DEF Infer
  <2>3. QED  BY <2>1, <2>2, AppendDeltaReserves
<1>14. CASE InferTail
  <2>1. stage = "Tail" /\ stage' = stage
    BY <1>14 DEF InferTail
  <2>2. PICK text \in BOOLEAN : AppendDelta(text)
    BY <1>14 DEF InferTail
  <2>3. QED  BY <2>1, <2>2, AppendDeltaReserves
<1>15. CASE InferFails     BY <1>15 DEF InferFails, Return, eventVars
<1>16. CASE InferPanics    BY <1>16 DEF InferPanics, eventVars
<1>17. CASE BuildResponse  BY <1>17 DEF BuildResponse, Return, eventVars
<1>18. CASE Conclude       BY <1>18 DEF Conclude, eventVars
<1>19. CASE SendTerminal
  <2>1. stage' = "Final"
    BY <1>19 DEF SendTerminal
  <2>2. unread' \in {unread, unread + 1}
    BY <1>19 DEF SendTerminal, SendEvent, eventVars
  <2>3. QED  BY <2>1, <2>2
<1>20. CASE SendFinal      BY <1>20 DEF SendFinal, eventVars
<1>21. CASE DropReceiver   BY <1>21 DEF DropReceiver, eventVars
<1>22. CASE Reap           BY <1>22 DEF Reap, eventVars
<1>23. QED
  BY <1>1, <1>2, <1>3, <1>4, <1>5, <1>6, <1>7, <1>8, <1>9, <1>10, <1>11, <1>12,
     <1>13, <1>14, <1>15, <1>16, <1>17, <1>18, <1>19, <1>20, <1>21, <1>22
     DEF WorkerStep

(* The client, a cancel and the consumer only ever make room.              *)
LEMMA NextReserves == SlotReserved /\ [Next]_vars => SlotReserved'
<1> SUFFICES ASSUME SlotReserved, [Next]_vars PROVE SlotReserved'
  OBVIOUS
<1> USE DEF SlotReserved, BeforeStarted, AfterTerminal
<1>1. CASE Admit           BY <1>1 DEF Admit, eventVars
<1>2. CASE WorkerStep      BY <1>2, WorkerReserves
<1>3. CASE CancelMark      BY <1>3 DEF CancelMark, workerVars, eventVars
<1>4. CASE CancelProgress
  BY <1>4 DEF CancelProgress, CancelFinishes, CancelTakesSender, workerVars, eventVars
<1>5. CASE Finish \/ FinishTakesSender
  BY <1>5 DEF Finish, FinishTakesSender, workerVars, eventVars
<1>6. CASE ReadEvent       BY <1>6, CapacityAssumption DEF ReadEvent, workerVars
<1>7. CASE DropConsumer    BY <1>7, CapacityAssumption DEF DropConsumer, workerVars
<1>8. CASE \E p \in Pushers : PushBegin(p) \/ PushProgress(p) \/ PushAborts(p)
  <2>1. PICK p \in Pushers : PushBegin(p) \/ PushProgress(p) \/ PushAborts(p)
    BY <1>8
  <2>2. UNCHANGED <<workerVars, eventVars>>
    BY <2>1 DEF PushBegin, PushProgress, PushAborts, PushClones, PushSends,
                PushFindsClosed, PushRechecks
  <2>3. QED  BY <2>2 DEF workerVars, eventVars
<1>9. CASE UNCHANGED vars  BY <1>9 DEF vars, workerVars, eventVars
<1>10. QED
  BY <1>1, <1>2, <1>3, <1>4, <1>5, <1>6, <1>7, <1>8, <1>9 DEF Next

(* The worker is never blocked behind unread partials with its terminal    *)
(* event: append_delta keeps a slot for it.                                *)
THEOREM TerminalAlwaysFits == Spec => []TerminalNeverBlocks
<1>1. SlotReserved => TerminalNeverBlocks
  BY DEF SlotReserved, TerminalNeverBlocks, CanSendTerminal, AfterTerminal
<1>2. QED  BY InitReserves, NextReserves, <1>1, PTL DEF Spec
-----------------------------------------------------------------------------
(* How many model runs can still end after a cancel, by stage: none has    *)
(* when a run is under way that was checked, at most that one in the loop, *)
(* and the unchecked rest of the stream makes two.                         *)
LateByStage ==
  /\ late \in Nat
  /\ ~cancelled => late = 0
  /\ stage = "Infer" => late = 0
  /\ stage \in {"Absent", "Begin", "Start", "Receive", "Chunk", "Loop"} => late <= 1
  /\ stage = "Tail" /\ pending > 0 => late <= 1
  /\ late <= 2

LEMMA WorkerStopsSoon == LateByStage /\ WorkerStep => LateByStage'
<1> SUFFICES ASSUME LateByStage, WorkerStep PROVE LateByStage'
  OBVIOUS
<1> USE DEF LateByStage
<1>1. CASE BeginCancelled \/ BeginChecked \/ StartUnheard \/ StartHeard
  BY <1>1 DEF BeginCancelled, BeginChecked, StartUnheard, StartHeard, controlVars
<1>2. CASE DecodeFails \/ ChunkRefused \/ LoopCancelled \/ BuildResponse
  BY <1>2 DEF DecodeFails, ChunkRefused, LoopCancelled, BuildResponse, Return, controlVars
<1>3. CASE Receive \/ ReceiveEnd
  BY <1>3 DEF Receive, ReceiveEnd, controlVars
<1>4. CASE ChunkTaken
  BY <1>4 DEF ChunkTaken, controlVars
<1>5. CASE LoopChecked \/ LoopEnds
  BY <1>5 DEF LoopChecked, LoopEnds, controlVars
<1>6. CASE Infer
  BY <1>6 DEF Infer, CountLate, controlVars
<1>7. CASE InferTail
  BY <1>7 DEF InferTail, CountLate, controlVars
<1>8. CASE InferFails \/ InferPanics
  <2>1. late <= 1
    BY <1>8 DEF InferFails, InferPanics
  <2>2. stage' \in {"Conclude", "Reap"} /\ cancelled' = cancelled
    BY <1>8 DEF InferFails, InferPanics, Return, controlVars
  <2>3. late' = IF cancelled THEN late + 1 ELSE late
    BY <1>8 DEF InferFails, InferPanics, CountLate
  <2>4. QED  BY <2>1, <2>2, <2>3
<1>9. CASE Conclude \/ SendTerminal \/ SendFinal \/ DropReceiver \/ Reap
  BY <1>9 DEF Conclude, SendTerminal, SendFinal, DropReceiver, Reap, controlVars
<1>10. QED
  BY <1>1, <1>2, <1>3, <1>4, <1>5, <1>6, <1>7, <1>8, <1>9 DEF WorkerStep

LEMMA NextStopsSoon == LateByStage /\ [Next]_vars => LateByStage'
<1> SUFFICES ASSUME LateByStage, [Next]_vars PROVE LateByStage'
  OBVIOUS
<1> USE DEF LateByStage
<1>1. CASE Admit
  <2>1. stage = "Absent" /\ stage' = "Begin" /\ UNCHANGED <<late, cancelled, pending>>
    BY <1>1 DEF Admit, controlVars
  <2>2. QED  BY <2>1
<1>2. CASE WorkerStep      BY <1>2, WorkerStopsSoon
<1>3. CASE CancelMark      BY <1>3 DEF CancelMark, workerVars
<1>4. CASE CancelProgress \/ Finish \/ FinishTakesSender
  BY <1>4 DEF CancelProgress, CancelFinishes, CancelTakesSender, Finish,
              FinishTakesSender, workerVars
<1>5. CASE ReadEvent \/ DropConsumer
  BY <1>5 DEF ReadEvent, DropConsumer, workerVars, controlVars
<1>6. CASE \E p \in Pushers : PushBegin(p) \/ PushProgress(p) \/ PushAborts(p)
  <2>1. PICK p \in Pushers : PushBegin(p) \/ PushProgress(p) \/ PushAborts(p)
    BY <1>6
  <2>2. UNCHANGED <<workerVars, controlVars, late>>
    BY <2>1 DEF PushBegin, PushProgress, PushAborts, PushClones, PushSends,
                PushFindsClosed, PushRechecks
  <2>3. QED  BY <2>2 DEF workerVars, controlVars
<1>7. CASE UNCHANGED vars  BY <1>7 DEF vars, workerVars, controlVars
<1>8. QED
  BY <1>1, <1>2, <1>3, <1>4, <1>5, <1>6, <1>7 DEF Next

(* However long the audio and however late the cancel: two more model runs *)
(* at most, the one under way and the rest of the stream.                  *)
THEOREM CancelledModelStops == Spec => []CancelStopsTheModel
<1>1. Init => LateByStage
  BY DEF Init, LateByStage
<1>2. LateByStage => CancelStopsTheModel
  BY DEF LateByStage, CancelStopsTheModel
<1>3. QED  BY <1>1, <1>2, NextStopsSoon, PTL DEF Spec
-----------------------------------------------------------------------------
(* The answer, the events and the audio, stage by stage.                   *)

Transcribing == {"Receive", "Chunk", "Loop", "Infer", "Tail"}
Answered == {"Returned", "Reap", "Done"}

(* The result is there from the end of the transcription on, and the final *)
(* response says it; a model that panicked leaves neither.                 *)
AnswerFollowsStage ==
  /\ stage \in BeforeStarted \cup Transcribing => result = "None"
  /\ stage \in {"Conclude", "Terminal", "Final", "Returned"} => result \in Terminals
  /\ stage \notin Answered => final = "None"
  /\ stage \in Answered =>
       \/ result \in Terminals /\ final = result
       \/ result = "None" /\ final = "Lost"

IsSeq(s) == s \in Seq({s[i] : i \in DOMAIN s})

(* Started opens the events unless the operation was cancelled before it,  *)
(* and the terminal event closes them unless nobody listens or the model   *)
(* panicked.                                                               *)
EventsFollowStage ==
  /\ IsSeq(events)
  /\ stage \in BeforeStarted => events = <<>>
  /\ stage \in Transcribing => events # <<>>
  /\ \A i \in 1..Len(events) :
       /\ events[i].type = "Started" => i = 1
       /\ events[i].type = "Partial" => i > 1
       /\ events[i].type \in Terminals =>
            i = Len(events) /\ events[i].type = result /\ stage \in AfterTerminal
  /\ stage \in AfterTerminal /\ consumer_open /\ final # "Lost" =>
       events # <<>> /\ events[Len(events)].type = result

(* What TypeOK leaves open about the chunks on their way.                  *)
ChunksTyped ==
  /\ pushes \in 0..MaxPushes
  /\ pusher \in [Pushers -> [stage : {"Idle", "Clone", "Send", "Recheck"},
                             chunk : ChunkSpace \cup {NoChunk}]]
  /\ \A p \in Pushers : pusher[p].stage # "Idle" =>
       pusher[p].chunk \in ChunkSpace /\ pusher[p].chunk.id \in 1..pushes
  /\ stage = "Chunk" => chunk \in ChunkSpace

Sent == accepted \cup {pusher[p].chunk.id : p \in {q \in Pushers : pusher[q].stage = "Recheck"}}
IsHeard(id) == \E i \in 1..Len(heard) : heard[i] = id
IsQueued(id) == \E i \in 1..Len(audio) : audio[i].id = id

(* Until the transcription ends, audio that was sent is heard, in the      *)
(* worker's hands or in the channel.  The worker stops for want of audio   *)
(* only when the channel is empty and no push can fill it any more, and    *)
(* that stays so.                                                          *)
AudioIsKept ==
  /\ result = "Completed" => stage \notin Transcribing \cup BeforeStarted
  /\ (stage \in BeforeStarted \cup Transcribing \/ (result = "Completed" /\ ~chunk.end_of_stream)) =>
       \A id \in Sent : IsHeard(id) \/ IsQueued(id) \/ (stage = "Chunk" /\ id = chunk.id)
  /\ (stage = "Tail" \/ result = "Completed") /\ ~chunk.end_of_stream => AudioEnded
  /\ input = "Complete" => AudioEnded /\ \A p \in Pushers : pusher[p].stage = "Idle"

(* Who moves what.  Beside the worker, only admission moves the stage, and *)
(* nobody touches what the worker alone owns.                              *)
LEMMA OthersLeaveWorker ==
  ASSUME [Next]_vars, ~WorkerStep, ~Admit
  PROVE  UNCHANGED <<workerVars, final, late, events, input, receiver_open>>
<1> USE DEF workerVars, eventVars
<1>1. CASE CancelMark \/ CancelProgress
  BY <1>1 DEF CancelMark, CancelProgress, CancelFinishes, CancelTakesSender
<1>2. CASE Finish \/ FinishTakesSender
  BY <1>2 DEF Finish, FinishTakesSender
<1>3. CASE ReadEvent \/ DropConsumer
  BY <1>3 DEF ReadEvent, DropConsumer
<1>4. ASSUME NEW p \in Pushers, PushBegin(p) \/ PushProgress(p) \/ PushAborts(p)
      PROVE  UNCHANGED <<workerVars, final, late, events, input, receiver_open>>
  BY <1>4 DEF PushBegin, PushProgress, PushAborts, PushClones, PushSends, PushFindsClosed,
     PushRechecks
<1>5. CASE UNCHANGED vars
  BY <1>5 DEF vars
<1> QED BY <1>1, <1>2, <1>3, <1>4, <1>5 DEF Next

LEMMA WorkerAnswers == AnswerFollowsStage /\ WorkerStep => AnswerFollowsStage'
<1> SUFFICES ASSUME AnswerFollowsStage, WorkerStep PROVE AnswerFollowsStage'
  OBVIOUS
<1> USE DEF AnswerFollowsStage, BeforeStarted, Transcribing, Answered, Terminals
<1>1. CASE BeginCancelled \/ BeginChecked \/ StartUnheard \/ StartHeard
  BY <1>1 DEF BeginCancelled, BeginChecked, StartUnheard, StartHeard
<1>2. CASE DecodeFails \/ ChunkRefused \/ LoopCancelled \/ BuildResponse
  BY <1>2 DEF DecodeFails, ChunkRefused, LoopCancelled, BuildResponse, Return
<1>3. CASE Receive \/ ReceiveEnd \/ ChunkTaken
  BY <1>3 DEF Receive, ReceiveEnd, ChunkTaken
<1>4. CASE LoopChecked \/ LoopEnds
  BY <1>4 DEF LoopChecked, LoopEnds
<1>5. CASE Infer \/ InferTail
  BY <1>5 DEF Infer, InferTail
<1>6. CASE InferFails
  BY <1>6 DEF InferFails, Return
<1>7. CASE InferPanics
  BY <1>7 DEF InferPanics
<1>8. CASE Conclude
  BY <1>8 DEF Conclude
<1>9. CASE SendTerminal \/ SendFinal
  BY <1>9 DEF SendTerminal, SendFinal
<1>10. CASE DropReceiver \/ Reap
  BY <1>10 DEF DropReceiver, Reap
<1> QED
  BY <1>1, <1>2, <1>3, <1>4, <1>5, <1>6, <1>7, <1>8, <1>9, <1>10 DEF WorkerStep

LEMMA NextAnswers == AnswerFollowsStage /\ [Next]_vars => AnswerFollowsStage'
<1> SUFFICES ASSUME AnswerFollowsStage, [Next]_vars PROVE AnswerFollowsStage'
  OBVIOUS
<1>1. CASE Admit
  BY <1>1 DEF Admit, AnswerFollowsStage, BeforeStarted, Transcribing, Answered
<1>2. CASE WorkerStep
  BY <1>2, WorkerAnswers
<1>3. CASE ~Admit /\ ~WorkerStep
  BY <1>3, OthersLeaveWorker DEF workerVars, AnswerFollowsStage
<1> QED BY <1>1, <1>2, <1>3

LEMMA AlwaysAnswers == Spec => []AnswerFollowsStage
<1>1. Init => AnswerFollowsStage
  BY DEF Init, AnswerFollowsStage, BeforeStarted, Transcribing, Answered
<1> QED BY <1>1, NextAnswers, PTL DEF Spec
-----------------------------------------------------------------------------
(* The events.                                                             *)

LEMMA AppendIsSeq ==
  ASSUME NEW s, IsSeq(s), NEW e
  PROVE  /\ IsSeq(Append(s, e))
         /\ Len(s) \in Nat
         /\ Len(Append(s, e)) = Len(s) + 1
         /\ \A i \in 1..Len(s) : Append(s, e)[i] = s[i]
         /\ Append(s, e)[Len(s) + 1] = e
<1> DEFINE S == {s[i] : i \in DOMAIN s} \cup {e}
           t == Append(s, e)
<1>1. s \in Seq(S) /\ Len(s) \in Nat
  BY DEF IsSeq
<1>2. t \in Seq(S) /\ Len(t) = Len(s) + 1
  BY <1>1
<1>3. \A i \in 1..Len(t) : t[i] = IF i = Len(s) + 1 THEN e ELSE s[i]
  BY <1>1, <1>2
<1>4. t \in Seq({t[i] : i \in DOMAIN t})
  <2> HIDE DEF t
  <2>1. Len(t) \in Nat /\ DOMAIN t = 1..Len(t)
    BY <1>2
  <2>2. t \in [1..Len(t) -> {t[i] : i \in DOMAIN t}]
    BY <1>2, <2>1
  <2> QED BY <2>1, <2>2, SeqDef
<1> QED BY <1>1, <1>2, <1>3, <1>4 DEF IsSeq

(* One more event after the first, and no event at all.                    *)
LEMMA PartialTells ==
  ASSUME EventsFollowStage, NEW text, AppendDelta(text), stage \in Transcribing,
         stage' \in Transcribing
  PROVE  EventsFollowStage'
<1> USE DEF BeforeStarted, AfterTerminal, Transcribing, Terminals
<1>1. CASE UNCHANGED eventVars
  BY <1>1 DEF EventsFollowStage, eventVars, IsSeq
<1>2. CASE ~UNCHANGED eventVars
  <2> DEFINE e == Partial(PartialCount)
  <2>1. events' = Append(events, e) /\ e.type = "Partial"
    BY <1>2 DEF AppendDelta, SendEvent, Partial
  <2> HIDE DEF e
  <2>2. IsSeq(events) /\ events # <<>> /\ Len(events) \in Nat
    BY AppendIsSeq DEF EventsFollowStage
  <2>3. Len(events) > 0
    BY <2>2 DEF IsSeq
  <2>4. /\ IsSeq(events)' /\ Len(events') = Len(events) + 1
        /\ \A i \in 1..Len(events) : events'[i] = events[i]
        /\ events'[Len(events) + 1] = e
    BY <2>1, <2>2, AppendIsSeq DEF IsSeq
  <2>5. events' # <<>>
    BY <2>3, <2>4
  <2>6. ASSUME NEW i \in 1..Len(events')
        PROVE  /\ events'[i].type = "Started" => i = 1
               /\ events'[i].type = "Partial" => i > 1
               /\ events'[i].type \notin Terminals
    <3>1. CASE i \in 1..Len(events)
      BY <2>4, <3>1 DEF EventsFollowStage
    <3>2. CASE i = Len(events) + 1
      BY <2>1, <2>3, <2>4, <3>2
    <3> QED BY <2>2, <2>4, <3>1, <3>2
  <2> QED BY <2>4, <2>5, <2>6 DEF EventsFollowStage
<1> QED BY <1>1, <1>2

(* A step that sends nothing and goes on from where the events belong.     *)
LEMMA SilentTells ==
  ASSUME EventsFollowStage, events' = events, consumer_open' \in {consumer_open, FALSE},
         stage' \in BeforeStarted => stage \in BeforeStarted,
         stage' \in Transcribing => stage \in Transcribing,
         stage \in AfterTerminal => stage' \in AfterTerminal /\ result' = result,
         stage' \in AfterTerminal /\ consumer_open /\ final' # "Lost" =>
           stage \in AfterTerminal /\ final # "Lost"
  PROVE  EventsFollowStage'
<1>1. IsSeq(events)'
  BY DEF EventsFollowStage, IsSeq
<1>2. ASSUME NEW i \in 1..Len(events')
      PROVE  /\ events'[i].type = "Started" => i = 1
             /\ events'[i].type = "Partial" => i > 1
             /\ events'[i].type \in Terminals =>
                  i = Len(events') /\ events'[i].type = result' /\ stage' \in AfterTerminal
  BY DEF EventsFollowStage
<1>3. stage' \in AfterTerminal /\ consumer_open' /\ final' # "Lost" =>
        events' # <<>> /\ events'[Len(events')].type = result'
  BY DEF EventsFollowStage
<1> QED BY <1>1, <1>2, <1>3 DEF EventsFollowStage

LEMMA FirstEventTells == ASSUME EventsFollowStage, StartHeard PROVE EventsFollowStage'
<1>1. events' = Append(events, Started) /\ events = <<>> /\ stage' \in {"Receive", "Loop"}
  BY DEF StartHeard, SendEvent, EventsFollowStage, BeforeStarted
<1>2. IsSeq(events) /\ Len(events) = 0
  BY <1>1 DEF EventsFollowStage
<1>3. IsSeq(events)' /\ Len(events') = 1 /\ events'[1] = Started
  BY <1>1, <1>2, AppendIsSeq DEF IsSeq
<1>4. events' # <<>>
  BY <1>3
<1>5. \A i \in 1..Len(events') : i = 1 /\ events'[i].type = "Started"
  BY <1>3 DEF Started
<1> QED
  BY <1>1, <1>3, <1>4, <1>5 DEF EventsFollowStage, BeforeStarted, AfterTerminal, Transcribing,
     Terminals

LEMMA TerminalTells ==
  ASSUME AnswerFollowsStage, EventsFollowStage, SendTerminal
  PROVE  EventsFollowStage'
<1>1. /\ stage = "Terminal" /\ stage' = "Final" /\ result' = result /\ final' = final
      /\ result \in Terminals /\ final = "None"
  BY DEF SendTerminal, AnswerFollowsStage, Answered
<1>2. CASE consumer_open
  <2> DEFINE e == Terminal(result)
  <2>1. events' = Append(events, e) /\ e.type = result
    BY <1>2 DEF SendTerminal, SendEvent, Terminal
  <2> HIDE DEF e
  <2>2. IsSeq(events) /\ Len(events) \in Nat
    BY AppendIsSeq DEF EventsFollowStage
  <2>3. /\ IsSeq(events)' /\ Len(events') = Len(events) + 1
        /\ \A i \in 1..Len(events) : events'[i] = events[i]
        /\ events'[Len(events) + 1] = e
    BY <2>1, <2>2, AppendIsSeq DEF IsSeq
  <2>4. events' # <<>>
    BY <2>2, <2>3
  <2>5. ASSUME NEW i \in 1..Len(events')
        PROVE  /\ events'[i].type = "Started" => i = 1
               /\ events'[i].type = "Partial" => i > 1
               /\ events'[i].type \in Terminals => i = Len(events') /\ events'[i].type = result'
    <3>1. CASE i \in 1..Len(events)
      BY <1>1, <2>3, <3>1 DEF EventsFollowStage, AfterTerminal
    <3>2. CASE i = Len(events) + 1
      BY <1>1, <2>1, <2>3, <3>2 DEF Terminals
    <3> QED BY <2>2, <2>3, <3>1, <3>2
  <2>6. events'[Len(events')].type = result'
    BY <1>1, <2>1, <2>3
  <2> QED
    BY <1>1, <2>3, <2>4, <2>5, <2>6 DEF EventsFollowStage, BeforeStarted, AfterTerminal,
       Transcribing
<1>3. CASE ~consumer_open
  <2>1. events' = events /\ consumer_open' = consumer_open
    BY <1>3 DEF SendTerminal, eventVars
  <2> QED
    BY <1>1, <1>3, <2>1, SilentTells DEF BeforeStarted, AfterTerminal, Transcribing
<1> QED BY <1>2, <1>3

LEMMA WorkerTells ==
  ASSUME AnswerFollowsStage, EventsFollowStage, WorkerStep
  PROVE  EventsFollowStage'
<1> USE DEF BeforeStarted, AfterTerminal, Transcribing
<1>1. CASE BeginCancelled \/ BeginChecked \/ StartUnheard
  BY <1>1, SilentTells DEF BeginCancelled, BeginChecked, StartUnheard, eventVars
<1>2. CASE StartHeard
  BY <1>2, FirstEventTells
<1>3. CASE DecodeFails \/ ChunkRefused \/ LoopCancelled \/ InferFails \/ BuildResponse
  <2>1. stage \in {"Chunk", "Loop", "Infer", "Tail"} /\ stage' = "Conclude" /\ UNCHANGED eventVars
    BY <1>3 DEF DecodeFails, ChunkRefused, LoopCancelled, InferFails, BuildResponse, Return
  <2> QED BY <2>1, SilentTells DEF eventVars
<1>4. CASE Receive \/ ReceiveEnd \/ ChunkTaken \/ LoopChecked \/ LoopEnds
  <2>1. stage \in Transcribing /\ stage' \in Transcribing /\ UNCHANGED eventVars
    BY <1>4 DEF Receive, ReceiveEnd, ChunkTaken, LoopChecked, LoopEnds
  <2> QED BY <2>1, SilentTells DEF eventVars
<1>5. CASE Infer \/ InferTail
  <2>1. stage \in Transcribing /\ stage' \in Transcribing
    BY <1>5 DEF Infer, InferTail
  <2>2. PICK text \in BOOLEAN : AppendDelta(text)
    BY <1>5 DEF Infer, InferTail
  <2> QED BY <2>1, <2>2, PartialTells
<1>6. CASE InferPanics
  <2>1. stage \in Transcribing /\ stage' = "Reap" /\ final' = "Lost" /\ UNCHANGED eventVars
    BY <1>6 DEF InferPanics
  <2> QED BY <2>1, SilentTells DEF eventVars
<1>7. CASE Conclude
  BY <1>7, SilentTells DEF Conclude, eventVars
<1>8. CASE SendTerminal
  BY <1>8, TerminalTells
<1>9. CASE SendFinal
  BY <1>9, SilentTells DEF SendFinal, eventVars, AnswerFollowsStage, Answered
<1>10. CASE DropReceiver \/ Reap
  BY <1>10, SilentTells DEF DropReceiver, Reap, eventVars
<1> QED
  BY <1>1, <1>2, <1>3, <1>4, <1>5, <1>6, <1>7, <1>8, <1>9, <1>10 DEF WorkerStep

LEMMA NextTells == AnswerFollowsStage /\ EventsFollowStage /\ [Next]_vars => EventsFollowStage'
<1> SUFFICES ASSUME AnswerFollowsStage, EventsFollowStage, [Next]_vars PROVE EventsFollowStage'
  OBVIOUS
<1>1. CASE Admit
  BY <1>1, SilentTells DEF Admit, eventVars, BeforeStarted, AfterTerminal, Transcribing
<1>2. CASE WorkerStep
  BY <1>2, WorkerTells
<1>3. CASE ~Admit /\ ~WorkerStep
  <2>1. consumer_open' \in {consumer_open, FALSE}
    <3>1. CASE CancelMark \/ CancelProgress \/ Finish \/ FinishTakesSender
      BY <3>1 DEF CancelMark, CancelProgress, CancelFinishes, CancelTakesSender, Finish,
         FinishTakesSender, eventVars
    <3>2. CASE ReadEvent \/ DropConsumer \/ UNCHANGED vars
      BY <3>2 DEF ReadEvent, DropConsumer, vars, eventVars
    <3>3. ASSUME NEW p \in Pushers, PushBegin(p) \/ PushProgress(p) \/ PushAborts(p)
          PROVE  UNCHANGED eventVars
      BY <3>3 DEF PushBegin, PushProgress, PushAborts, PushClones, PushSends, PushFindsClosed,
         PushRechecks
    <3> QED BY <1>3, <3>1, <3>2, <3>3 DEF Next, eventVars
  <2>2. UNCHANGED <<stage, result, final, events>>
    BY <1>3, OthersLeaveWorker DEF workerVars
  <2> QED BY <2>1, <2>2, SilentTells
<1> QED BY <1>1, <1>2, <1>3

(* The events a client sees tell the story of its final response: Started  *)
(* first, one terminal event last, of the response's class, and there      *)
(* before the response for a consumer that stayed (run_transcription).     *)
THEOREM EventsTellTheAnswer == Spec => []EventsAgreeWithFinal
<1>1. Init => EventsFollowStage
  BY DEF Init, EventsFollowStage, IsSeq, BeforeStarted, AfterTerminal, Transcribing
<1>2. ASSUME AnswerFollowsStage, EventsFollowStage PROVE EventsAgreeWithFinal
  <2>1. ASSUME NEW i \in 1..Len(events), events[i].type \in Terminals
        PROVE  i = Len(events) /\ final \in {"None", events[i].type}
    <3>1. i = Len(events) /\ events[i].type = result
      BY <1>2, <2>1 DEF EventsFollowStage
    <3>2. result # "None"
      BY <2>1, <3>1 DEF Terminals
    <3> QED BY <1>2, <3>1, <3>2 DEF AnswerFollowsStage
  <2>2. ASSUME final \in Terminals, consumer_open PROVE events[Len(events)].type = final
    <3>1. stage \in Answered /\ final = result
      BY <1>2, <2>2 DEF AnswerFollowsStage, Terminals
    <3> QED BY <1>2, <2>2, <3>1 DEF EventsFollowStage, Answered, AfterTerminal, Terminals
  <2> QED BY <1>2, <2>1, <2>2 DEF EventsFollowStage, EventsAgreeWithFinal
<1> QED BY <1>1, <1>2, NextTells, AlwaysAnswers, PTL DEF Spec
-----------------------------------------------------------------------------
(* Types.                                                                  *)

Typed == TypeOK /\ ChunksTyped

LEMMA DeltaTyped ==
  ASSUME TypeOK, IsSeq(events), unread' \in 0..EventCapacity, NEW text, AppendDelta(text)
  PROVE  consumer_open' = consumer_open /\ unread' <= Len(events')
<1>1. Len(events) \in Nat
  BY AppendIsSeq
<1>2. ASSUME NEW e, events' = Append(events, e) PROVE Len(events') = Len(events) + 1
  BY <1>2, AppendIsSeq
<1> QED
  BY <1>1, <1>2, CapacityAssumption DEF AppendDelta, SendEvent, eventVars, TypeOK

(* The worker leaves the pushes alone.                                     *)
LEMMA SinkTyped ==
  ASSUME ChunksTyped, UNCHANGED sinkVars, stage' = "Chunk" => chunk' \in ChunkSpace
  PROVE  ChunksTyped'
BY DEF ChunksTyped, sinkVars

LEMMA WorkerTypes ==
  ASSUME Typed, EventsFollowStage, AnswerFollowsStage, SlotReserved, SlotReserved', WorkerStep
  PROVE  Typed'
<1> USE DEF Typed
<1> USE CapacityAssumption, ModelAssumption, AudioAssumption, InputAssumption
<1>1. IsSeq(events) /\ Len(events) \in Nat
  BY AppendIsSeq DEF EventsFollowStage
<1>2. ASSUME NEW e, SendEvent(e), unread' \in 0..EventCapacity
      PROVE  consumer_open' = consumer_open /\ unread' <= Len(events')
  BY <1>1, <1>2, AppendIsSeq DEF SendEvent, TypeOK
<1>3. \A c \in ChunkSpace : c.frames \in Nat /\ c.id \in 1..MaxPushes
  BY DEF ChunkSpace
<1>4. CASE BeginCancelled \/ BeginChecked \/ StartUnheard
  BY <1>4 DEF BeginCancelled, BeginChecked, StartUnheard, controlVars, sinkVars, eventVars,
     TypeOK, ChunksTyped, Terminals
<1>5. CASE StartHeard
  <2>1. unread' \in 0..EventCapacity
    BY <1>5 DEF StartHeard, SendEvent, TypeOK
  <2>2. consumer_open' = consumer_open /\ unread' <= Len(events')
    BY <1>2, <1>5, <2>1 DEF StartHeard
  <2>3. pending' \in Nat /\ frames' \in Nat
    BY <1>5 DEF StartHeard, TypeOK
  <2> QED
    BY <1>5, <2>1, <2>2, <2>3 DEF StartHeard, controlVars, sinkVars, TypeOK, ChunksTyped
<1>6. CASE DecodeFails \/ ChunkRefused \/ LoopCancelled \/ BuildResponse \/ InferFails
  <2>1. /\ stage' = "Conclude" /\ result' \in Terminals /\ receiver_open' = FALSE /\ audio' = <<>>
        /\ UNCHANGED <<input, chunk, pending, heard, frames, controlVars, sinkVars, eventVars, final>>
    BY <1>6 DEF DecodeFails, ChunkRefused, LoopCancelled, BuildResponse, InferFails, Return,
       Terminals
  <2>2. late' \in Nat
    BY <1>6 DEF DecodeFails, ChunkRefused, LoopCancelled, BuildResponse, InferFails, CountLate,
       TypeOK
  <2>3. ChunksTyped'
    BY <2>1, SinkTyped
  <2>4. /\ audio' \in Seq(ChunkSpace) /\ Len(audio') <= AudioCapacity
        /\ result' \in Terminals \cup {"None"}
    BY <2>1
  <2>5. {cancelled, finished, sender_held, receiver_open, consumer_open}' \subseteq BOOLEAN
    BY <2>1 DEF TypeOK, controlVars, eventVars
  <2>6. \A p \in Pushers : pusher'[p].stage \in {"Idle", "Clone", "Send", "Recheck"}
    BY <2>1 DEF TypeOK, sinkVars
  <2> QED BY <2>1, <2>2, <2>3, <2>4, <2>5, <2>6 DEF controlVars, sinkVars, eventVars, TypeOK
<1>7. CASE Receive
  <2>1. chunk' \in ChunkSpace /\ audio' \in Seq(ChunkSpace) /\ Len(audio') <= AudioCapacity
    BY <1>7 DEF Receive, TypeOK
  <2> QED BY <1>7, <2>1 DEF Receive, controlVars, sinkVars, eventVars, TypeOK, ChunksTyped
<1>8. CASE ReceiveEnd \/ LoopChecked \/ LoopEnds
  BY <1>8 DEF ReceiveEnd, LoopChecked, LoopEnds, controlVars, sinkVars, eventVars, TypeOK,
     ChunksTyped
<1>9. CASE ChunkTaken
  <2>1. chunk \in ChunkSpace /\ chunk.frames \in Nat /\ chunk.id \in 1..MaxPushes
    BY <1>3, <1>9 DEF ChunkTaken, ChunksTyped
  <2>2. heard' \in Seq(1..MaxPushes) /\ pending' \in Nat /\ frames' \in Nat
    BY <1>9, <2>1 DEF ChunkTaken, TypeOK
  <2> QED BY <1>9, <2>2 DEF ChunkTaken, controlVars, sinkVars, eventVars, TypeOK, ChunksTyped
<1>10. CASE Infer \/ InferTail
  <2>1. unread' \in 0..EventCapacity
    BY <1>10 DEF Infer, InferTail, SlotReserved, AfterTerminal
  <2>2. consumer_open' = consumer_open /\ unread' <= Len(events')
    BY <1>1, <1>10, <2>1, DeltaTyped DEF Infer, InferTail
  <2>3. pending' \in Nat /\ late' \in Nat
    BY <1>10 DEF Infer, InferTail, CountLate, TypeOK
  <2>4. stage' \in {"Loop", "Tail"}
    BY <1>10 DEF Infer, InferTail
  <2> QED
    BY <1>10, <2>1, <2>2, <2>3, <2>4 DEF Infer, InferTail, controlVars, sinkVars, TypeOK, ChunksTyped
<1>11. CASE InferPanics
  <2>1. late' \in Nat
    BY <1>11 DEF InferPanics, CountLate, TypeOK
  <2>2. ChunksTyped'
    BY <1>11, SinkTyped DEF InferPanics
  <2>3. audio' = <<>> /\ audio' \in Seq(ChunkSpace) /\ Len(audio') <= AudioCapacity
    BY <1>11 DEF InferPanics
  <2>4. {cancelled, finished, sender_held, receiver_open, consumer_open}' \subseteq BOOLEAN
    BY <1>11 DEF InferPanics, TypeOK, controlVars, eventVars
  <2> QED
    BY <1>11, <2>1, <2>2, <2>3, <2>4 DEF InferPanics, controlVars, sinkVars, eventVars, TypeOK
<1>12. CASE Conclude \/ SendFinal \/ DropReceiver \/ Reap
  <2>1. ChunksTyped'
    BY <1>12, SinkTyped DEF Conclude, SendFinal, DropReceiver, Reap
  <2>2. CASE Conclude \/ Reap
    BY <2>1, <2>2 DEF Conclude, Reap, controlVars, sinkVars, eventVars, TypeOK, Terminals
  <2>3. CASE SendFinal
    BY <2>1, <2>3 DEF SendFinal, controlVars, sinkVars, eventVars, TypeOK
  <2>4. CASE DropReceiver
    <3>1. audio' \in Seq(ChunkSpace) /\ Len(audio') <= AudioCapacity /\ receiver_open' = FALSE
      BY <2>4 DEF DropReceiver
    <3> QED BY <2>1, <2>4, <3>1 DEF DropReceiver, controlVars, sinkVars, eventVars, TypeOK
  <2> QED BY <1>12, <2>2, <2>3, <2>4
<1>13. CASE SendTerminal
  <2>1. unread' \in 0..EventCapacity
    BY <1>13 DEF SendTerminal, CanSendTerminal, SendEvent, eventVars, TypeOK
  <2>2. consumer_open' = consumer_open /\ unread' <= Len(events')
    BY <1>2, <1>13, <2>1 DEF SendTerminal, eventVars, TypeOK
  <2> QED BY <1>13, <2>1, <2>2 DEF SendTerminal, controlVars, sinkVars, TypeOK, ChunksTyped
<1> QED
  BY <1>4, <1>5, <1>6, <1>7, <1>8, <1>9, <1>10, <1>11, <1>12, <1>13 DEF WorkerStep

LEMMA PushTypes ==
  ASSUME Typed, NEW p \in Pushers, PushBegin(p) \/ PushProgress(p) \/ PushAborts(p)
  PROVE  Typed'
<1> USE DEF Typed
<1> USE AudioAssumption
<1> DEFINE stages == {"Idle", "Clone", "Send", "Recheck"}
           chunks == ChunkSpace \cup {NoChunk}
<1>1. UNCHANGED <<input, workerVars, controlVars, receiver_open, eventVars, final, late>>
  BY DEF PushBegin, PushProgress, PushAborts, PushClones, PushSends, PushFindsClosed, PushRechecks
<1>2. /\ pushes' \in {pushes, pushes + 1} /\ pushes' \in 0..MaxPushes
      /\ audio' \in Seq(ChunkSpace) /\ Len(audio') <= AudioCapacity
      /\ accepted' \subseteq accepted \cup 1..pushes
  <2>1. CASE PushBegin(p)
    BY <2>1 DEF PushBegin, TypeOK, ChunksTyped
  <2>2. CASE PushSends(p)
    <3>1. pusher[p].chunk \in ChunkSpace /\ audio \in Seq(ChunkSpace)
      BY <2>2 DEF PushSends, TypeOK, ChunksTyped
    <3> QED BY <2>2, <3>1 DEF PushSends, ChunksTyped
  <2>3. CASE PushRechecks(p)
    BY <2>3 DEF PushRechecks, TypeOK, ChunksTyped
  <2>4. CASE PushClones(p) \/ PushFindsClosed(p) \/ PushAborts(p)
    BY <2>4 DEF PushClones, PushFindsClosed, PushAborts, TypeOK, ChunksTyped
  <2> QED BY <2>1, <2>2, <2>3, <2>4 DEF PushProgress
<1>3. \E s \in stages, c \in chunks :
        /\ pusher' = [pusher EXCEPT ![p] = [stage |-> s, chunk |-> c]]
        /\ s # "Idle" => c \in ChunkSpace /\ c.id \in 1..pushes'
  <2>1. CASE PushReturns(p)
    BY <2>1 DEF PushReturns
  <2>2. CASE PushBegin(p)
    <3>1. PICK c \in ChunkSpace :
            c.id = pushes' /\ pusher' = [pusher EXCEPT ![p] = [stage |-> "Clone", chunk |-> c]]
      BY <2>2 DEF PushBegin
    <3>2. pushes' = pushes + 1 /\ pushes \in Nat
      BY <2>2 DEF PushBegin, ChunksTyped
    <3>3. c \in chunks /\ "Clone" \in stages /\ c.id \in 1..pushes'
      BY <3>1, <3>2
    <3> QED BY <3>1, <3>3
  <2>3. ASSUME NEW s \in {"Send", "Recheck"}, SetPusher(p, s), pusher[p].stage # "Idle"
        PROVE  /\ pusher' = [pusher EXCEPT ![p] = [stage |-> s, chunk |-> pusher[p].chunk]]
               /\ pusher[p].chunk \in ChunkSpace /\ pusher[p].chunk.id \in 1..pushes'
    <3>1. pusher[p] \in [stage : stages, chunk : chunks]
      BY DEF ChunksTyped
    <3>2. [pusher[p] EXCEPT !.stage = s] = [stage |-> s, chunk |-> pusher[p].chunk]
      BY <3>1
    <3>3. pusher[p].chunk \in ChunkSpace /\ pusher[p].chunk.id \in 1..pushes
      BY <2>3 DEF ChunksTyped
    <3>4. pusher[p].chunk.id \in 1..pushes'
      BY <1>2, <3>3 DEF ChunksTyped
    <3> QED BY <2>3, <3>2, <3>3, <3>4 DEF SetPusher
  <2> QED
    BY <2>1, <2>2, <2>3 DEF PushProgress, PushAborts, PushClones, PushSends, PushFindsClosed,
       PushRechecks
<1>4. ChunksTyped'
  BY <1>1, <1>2, <1>3 DEF ChunksTyped, workerVars
<1>5. TypeOK'
  BY <1>1, <1>2, <1>4 DEF TypeOK, ChunksTyped, workerVars, controlVars, eventVars
<1> QED BY <1>4, <1>5

LEMMA NextTypes ==
  Typed /\ EventsFollowStage /\ AnswerFollowsStage /\ SlotReserved /\ [Next]_vars => Typed'
<1> SUFFICES ASSUME Typed, EventsFollowStage, AnswerFollowsStage, SlotReserved, [Next]_vars
             PROVE  Typed'
  OBVIOUS
<1>1. CASE Admit
  BY <1>1 DEF Admit, Typed, TypeOK, ChunksTyped, controlVars, sinkVars, eventVars
<1>2. CASE WorkerStep
  BY <1>2, NextReserves, WorkerTypes
<1>3. CASE CancelMark \/ CancelProgress \/ Finish \/ FinishTakesSender
  BY <1>3 DEF CancelMark, CancelProgress, CancelFinishes, CancelTakesSender, Finish,
     FinishTakesSender, Typed, TypeOK, ChunksTyped, workerVars, sinkVars, eventVars
<1>4. CASE ReadEvent \/ DropConsumer
  <2>1. unread' \in 0..EventCapacity /\ unread' <= Len(events') /\ consumer_open' \in BOOLEAN
    <3>1. Len(events) \in Nat
      BY AppendIsSeq DEF EventsFollowStage
    <3>2. unread \in 0..EventCapacity /\ unread <= Len(events) /\ consumer_open \in BOOLEAN
      BY DEF Typed, TypeOK
    <3>3. CASE ReadEvent
      <4>1. unread > 0 /\ unread' = unread - 1 /\ UNCHANGED <<events, consumer_open>>
        BY <3>3 DEF ReadEvent
      <4> QED BY <3>1, <3>2, <4>1, CapacityAssumption
    <3>4. CASE DropConsumer
      <4>1. unread' = 0 /\ consumer_open' = FALSE /\ events' = events
        BY <3>4 DEF DropConsumer
      <4>2. 0 \in 0..EventCapacity /\ 0 <= Len(events)
        BY <3>1, CapacityAssumption
      <4>3. unread' \in 0..EventCapacity /\ unread' <= Len(events')
        BY <4>1, <4>2
      <4> QED BY <4>1, <4>3
    <3> QED BY <1>4, <3>3, <3>4
  <2> QED
    BY <1>4, <2>1 DEF ReadEvent, DropConsumer, Typed, TypeOK, ChunksTyped, workerVars,
       controlVars, sinkVars
<1>5. ASSUME NEW p \in Pushers, PushBegin(p) \/ PushProgress(p) \/ PushAborts(p) PROVE Typed'
  BY <1>5, PushTypes
<1>6. CASE UNCHANGED vars
  BY <1>6 DEF vars, Typed, TypeOK, ChunksTyped, workerVars, controlVars, sinkVars, eventVars
<1> QED BY <1>1, <1>2, <1>3, <1>4, <1>5, <1>6 DEF Next

LEMMA InitTells == Init => EventsFollowStage
BY DEF Init, EventsFollowStage, IsSeq, BeforeStarted, AfterTerminal, Transcribing

LEMMA AlwaysTells == Spec => []EventsFollowStage
BY InitTells, NextTells, AlwaysAnswers, PTL DEF Spec

LEMMA AlwaysTyped == Spec => []Typed
<1>1. ASSUME Init PROVE Typed
  <2>1. ChunksTyped
    BY <1>1, AudioAssumption DEF Init, ChunksTyped
  <2>2. \A p \in Pushers : pusher[p].stage = "Idle"
    BY <1>1 DEF Init
  <2>3. unread \in 0..EventCapacity /\ unread <= Len(events) /\ Len(audio) <= AudioCapacity
    BY <1>1, CapacityAssumption, AudioAssumption DEF Init
  <2>4. heard \in Seq(1..MaxPushes) /\ audio \in Seq(ChunkSpace)
    BY <1>1 DEF Init
  <2> QED BY <1>1, <2>1, <2>2, <2>3, <2>4 DEF Init, Typed, TypeOK
<1>2. Spec => []SlotReserved
  BY InitReserves, NextReserves, PTL DEF Spec
<1> QED BY <1>1, <1>2, NextTypes, AlwaysTells, AlwaysAnswers, PTL DEF Spec

(* Every variable keeps the shape of the state it stands for, whatever the *)
(* capacities, and the channels never hold more than those.                *)
THEOREM TypeCorrect == Spec => []TypeOK
BY AlwaysTyped, PTL DEF Typed
-----------------------------------------------------------------------------
(* The audio.                                                              *)

LEMMA HeardGrows ==
  ASSUME NEW S, heard \in Seq(S), NEW x \in S, heard' = Append(heard, x), NEW id
  PROVE  IsHeard(id)' <=> IsHeard(id) \/ id = x
<1>1. /\ Len(heard) \in Nat /\ Len(heard') = Len(heard) + 1
      /\ \A i \in 1..Len(heard) : heard'[i] = heard[i]
      /\ heard'[Len(heard) + 1] = x
  OBVIOUS
<1>2. \A i \in 1..Len(heard') : i \in 1..Len(heard) \/ i = Len(heard) + 1
  BY <1>1
<1>3. \A i \in 1..Len(heard) : i \in 1..Len(heard')
  BY <1>1
<1>4. Len(heard) + 1 \in 1..Len(heard')
  BY <1>1
<1> QED BY <1>1, <1>2, <1>3, <1>4 DEF IsHeard

LEMMA QueueShrinks ==
  ASSUME NEW S, audio \in Seq(S), audio # <<>>, audio' = Tail(audio), NEW id, IsQueued(id)
  PROVE  IsQueued(id)' \/ id = Head(audio).id
<1>1. PICK i \in 1..Len(audio) : audio[i].id = id
  BY DEF IsQueued
<1>2. CASE i = 1
  BY <1>1, <1>2
<1>3. CASE i # 1
  <2>1. i - 1 \in 1..Len(audio') /\ audio'[i - 1] = audio[i]
    BY <1>3
  <2> QED BY <1>1, <2>1 DEF IsQueued
<1> QED BY <1>2, <1>3

LEMMA QueueGrows ==
  ASSUME NEW S, audio \in Seq(S), NEW c \in S, audio' = Append(audio, c), NEW id,
         IsQueued(id) \/ id = c.id
  PROVE  IsQueued(id)'
<1>1. /\ Len(audio) \in Nat /\ Len(audio') = Len(audio) + 1
      /\ \A i \in 1..Len(audio) : audio'[i] = audio[i]
      /\ audio'[Len(audio) + 1] = c
  OBVIOUS
<1>2. CASE IsQueued(id)
  BY <1>1, <1>2 DEF IsQueued
<1>3. CASE id = c.id
  <2>1. Len(audio) + 1 \in 1..Len(audio')
    BY <1>1
  <2> QED BY <1>1, <1>3, <2>1 DEF IsQueued
<1> QED BY <1>2, <1>3

(* A worker's step that moves no audio and does not lose its chunk, ...    *)
LEMMA NoAudioMoves ==
  ASSUME AudioIsKept, UNCHANGED <<input, chunk, heard, audio, sender_held, pusher, accepted>>,
         stage # "Chunk",
         stage' \in BeforeStarted \cup Transcribing => stage \in BeforeStarted \cup Transcribing,
         result' = "Completed" => result = "Completed",
         stage' \in BeforeStarted \cup Transcribing => result' # "Completed",
         stage' = "Tail" => stage = "Tail" \/ chunk.end_of_stream \/ AudioEnded
  PROVE  AudioIsKept'
BY DEF AudioIsKept, Sent, IsHeard, IsQueued, AudioEnded, Senders

(* ... and one that gives the transcription up.                            *)
LEMMA GivenUp ==
  ASSUME AudioIsKept, UNCHANGED <<input, sender_held, pusher>>, audio' = <<>>,
         stage' \notin BeforeStarted \cup Transcribing, result' # "Completed"
  PROVE  AudioIsKept'
BY DEF AudioIsKept, AudioEnded, Senders, Transcribing

LEMMA NothingQueued ==
  ASSUME AudioEnded, NEW id
  PROVE  ~IsQueued(id)
BY DEF AudioEnded, IsQueued

(* The worker leaves with a transcript: all that was sent has been heard.  *)
LEMMA AllHeard ==
  ASSUME AudioIsKept, stage = "Tail" \/ result = "Completed", ~chunk.end_of_stream,
         NEW id \in Sent
  PROVE  IsHeard(id)
<1>1. AudioEnded
  BY DEF AudioIsKept
<1>2. stage # "Chunk"
  BY DEF AudioIsKept, Transcribing
<1>3. stage \in Transcribing \/ result = "Completed"
  BY DEF Transcribing
<1> QED BY <1>1, <1>2, <1>3, NothingQueued DEF AudioIsKept

LEMMA Transcribed ==
  ASSUME AudioIsKept, UNCHANGED <<input, chunk, heard, sender_held, pusher, accepted>>,
         audio' = <<>>, stage = "Tail" \/ result = "Completed",
         stage' \notin BeforeStarted \cup Transcribing
  PROVE  AudioIsKept'
<1>1. Sent' = Sent /\ \A id \in Sent : IsHeard(id)' = IsHeard(id)
  BY DEF Sent, IsHeard
<1>2. ~chunk.end_of_stream => \A id \in Sent' : IsHeard(id)'
  BY <1>1, AllHeard
<1>3. AudioEnded => AudioEnded'
  BY DEF AudioEnded, Senders
<1> QED BY <1>2, <1>3 DEF AudioIsKept, Transcribing

LEMMA WorkerKeepsAudio ==
  ASSUME Typed, AnswerFollowsStage, AudioIsKept, WorkerStep
  PROVE  AudioIsKept'
<1> USE DEF BeforeStarted, Transcribing, controlVars, sinkVars
<1>1. CASE BeginCancelled \/ BeginChecked \/ StartUnheard
  BY <1>1, NoAudioMoves DEF BeginCancelled, BeginChecked, StartUnheard, AnswerFollowsStage
<1>2. CASE StartHeard
  BY <1>2, NoAudioMoves DEF StartHeard, AnswerFollowsStage
<1>3. CASE DecodeFails \/ ChunkRefused \/ LoopCancelled \/ InferFails \/ InferPanics
  <2>1. result' # "Completed"
    BY <1>3 DEF DecodeFails, ChunkRefused, LoopCancelled, InferFails, InferPanics, Return,
       AnswerFollowsStage
  <2> QED
    BY <1>3, <2>1, GivenUp DEF DecodeFails, ChunkRefused, LoopCancelled, InferFails, InferPanics,
       Return
<1>4. CASE Receive
  <2>1. /\ stage = "Receive" /\ stage' = "Chunk" /\ result' = result /\ result = "None"
        /\ audio # <<>> /\ audio' = Tail(audio) /\ chunk' = Head(audio)
        /\ UNCHANGED <<input, heard, sender_held, pusher, accepted>>
    BY <1>4 DEF Receive, AnswerFollowsStage
  <2>2. ASSUME NEW id \in Sent'
        PROVE  IsHeard(id)' \/ IsQueued(id)' \/ id = chunk'.id
    <3>1. id \in Sent
      BY <2>1, <2>2 DEF Sent
    <3>2. IsHeard(id) \/ IsQueued(id)
      BY <2>1, <3>1 DEF AudioIsKept
    <3>3. IsHeard(id) => IsHeard(id)'
      BY <2>1 DEF IsHeard
    <3> QED BY <2>1, <3>2, <3>3, QueueShrinks DEF Typed, TypeOK
  <2>3. input # "Complete"
    BY <2>1 DEF AudioIsKept, AudioEnded
  <2> QED BY <2>1, <2>2, <2>3 DEF AudioIsKept
<1>5. CASE ReceiveEnd \/ LoopChecked \/ Infer \/ InferTail
  BY <1>5, NoAudioMoves DEF ReceiveEnd, LoopChecked, Infer, InferTail, AnswerFollowsStage
<1>6. CASE ChunkTaken
  <2>1. /\ stage = "Chunk" /\ stage' = "Loop" /\ result' = result /\ result = "None"
        /\ heard' = Append(heard, chunk.id)
        /\ UNCHANGED <<input, chunk, audio, sender_held, pusher, accepted>>
    BY <1>6 DEF ChunkTaken, AnswerFollowsStage
  <2>2. chunk.id \in 1..MaxPushes /\ heard \in Seq(1..MaxPushes)
    BY <2>1 DEF Typed, TypeOK, ChunksTyped, ChunkSpace
  <2>3. ASSUME NEW id \in Sent' PROVE IsHeard(id)' \/ IsQueued(id)'
    <3>1. id \in Sent
      BY <2>1, <2>3 DEF Sent
    <3>2. IsHeard(id) \/ IsQueued(id) \/ id = chunk.id
      BY <2>1, <3>1 DEF AudioIsKept
    <3>3. IsQueued(id) => IsQueued(id)'
      BY <2>1 DEF IsQueued
    <3> QED BY <2>1, <2>2, <3>2, <3>3, HeardGrows
  <2>4. AudioEnded => AudioEnded'
    BY <2>1 DEF AudioEnded, Senders
  <2> QED BY <2>1, <2>3, <2>4 DEF AudioIsKept
<1>7. CASE LoopEnds
  <2>1. stage = "Loop" /\ stage' \in {"Tail", "Receive"} /\ result' = result /\ result = "None"
    BY <1>7 DEF LoopEnds, AnswerFollowsStage
  <2>2. stage' = "Tail" => chunk.end_of_stream \/ AudioEnded
    BY <1>7 DEF LoopEnds, AudioIsKept, Typed, TypeOK
  <2> QED BY <1>7, <2>1, <2>2, NoAudioMoves DEF LoopEnds
<1>8. CASE BuildResponse
  BY <1>8, Transcribed DEF BuildResponse, Return
<1>9. CASE Conclude
  BY <1>9, NoAudioMoves DEF Conclude
<1>10. CASE SendTerminal \/ SendFinal \/ Reap
  BY <1>10, NoAudioMoves DEF SendTerminal, SendFinal, Reap
<1>11. CASE DropReceiver
  <2>1. CASE result = "Completed"
    BY <1>11, <2>1, Transcribed DEF DropReceiver
  <2>2. CASE result # "Completed"
    BY <1>11, <2>2, GivenUp DEF DropReceiver
  <2> QED BY <2>1, <2>2
<1> QED
  BY <1>1, <1>2, <1>3, <1>4, <1>5, <1>6, <1>7, <1>8, <1>9, <1>10, <1>11 DEF WorkerStep

(* A push that returns, or has yet to send, takes nothing away, and no     *)
(* push can send once the sender is gone and its last clone with it.       *)
LEMMA PushKeepsAudio ==
  ASSUME Typed, AudioIsKept, NEW p \in Pushers, PushBegin(p) \/ PushProgress(p) \/ PushAborts(p)
  PROVE  AudioIsKept'
<1>1. UNCHANGED <<stage, result, chunk, heard, input, sender_held>>
  BY DEF PushBegin, PushProgress, PushAborts, PushClones, PushSends, PushFindsClosed,
     PushRechecks, workerVars, controlVars
<1>2. input = "Stream"
  <2>1. CASE PushBegin(p)
    BY <2>1 DEF PushBegin
  <2>2. CASE pusher[p].stage # "Idle"
    BY <2>2, InputAssumption DEF AudioIsKept, Typed, TypeOK
  <2> QED
    BY <2>1, <2>2 DEF PushProgress, PushAborts, PushClones, PushSends, PushFindsClosed,
       PushRechecks
<1>3. \A q \in Pushers : q # p => pusher'[q] = pusher[q]
  BY DEF PushBegin, PushProgress, PushAborts, PushClones, PushSends, PushFindsClosed,
     PushRechecks, SetPusher, PushReturns, Typed, ChunksTyped
<1>4. CASE PushSends(p)
  <2>1. /\ p \in Senders /\ audio' = Append(audio, pusher[p].chunk) /\ accepted' = accepted
        /\ pusher'[p].chunk = pusher[p].chunk /\ pusher[p].chunk \in ChunkSpace
    BY <1>4 DEF PushSends, SetPusher, Senders, Typed, ChunksTyped
  <2>2. ~AudioEnded
    BY <2>1 DEF AudioEnded
  <2>3. ASSUME NEW id \in Sent', stage \in BeforeStarted \cup Transcribing
        PROVE  IsHeard(id)' \/ IsQueued(id)' \/ (stage' = "Chunk" /\ id = chunk'.id)
    <3>1. id \in Sent \/ id = pusher[p].chunk.id
      BY <1>3, <2>1, <2>3 DEF Sent
    <3>2. IsHeard(id) => IsHeard(id)'
      BY <1>1 DEF IsHeard
    <3>3. IsQueued(id) \/ id = pusher[p].chunk.id => IsQueued(id)'
      BY <2>1, QueueGrows DEF Typed, TypeOK
    <3> QED BY <1>1, <2>3, <3>1, <3>2, <3>3 DEF AudioIsKept
  <2> QED BY <1>1, <1>2, <2>2, <2>3 DEF AudioIsKept
<1>5. CASE ~PushSends(p)
  <2>1. audio' = audio
    BY <1>5 DEF PushBegin, PushProgress, PushAborts, PushClones, PushFindsClosed, PushRechecks
  <2>2. Sent' \subseteq Sent
    <3>1. CASE PushRechecks(p)
      <4>1. p \in {q \in Pushers : pusher[q].stage = "Recheck"} /\ pusher'[p].stage = "Idle"
        BY <3>1 DEF PushRechecks, PushReturns, Typed, ChunksTyped
      <4>2. accepted' \subseteq accepted \cup {pusher[p].chunk.id}
        BY <3>1 DEF PushRechecks
      <4> QED BY <1>3, <4>1, <4>2 DEF Sent
    <3>2. CASE ~PushRechecks(p)
      <4>1. pusher'[p].stage # "Recheck" /\ accepted' = accepted
        BY <1>5, <3>2 DEF PushBegin, PushProgress, PushAborts, PushClones, PushFindsClosed,
           SetPusher, PushReturns, Typed, ChunksTyped
      <4> QED BY <1>3, <4>1 DEF Sent
    <3> QED BY <3>1, <3>2
  <2>3. ~sender_held /\ Senders = {} => Senders' = {}
    <3>1. p \notin Senders /\ ~sender_held => pusher'[p].stage \notin {"Send", "Recheck"}
      BY <1>5 DEF PushBegin, PushProgress, PushAborts, PushClones, PushFindsClosed,
         PushRechecks, SetPusher, PushReturns, Senders, Typed, ChunksTyped
    <3> QED BY <1>3, <3>1 DEF Senders
  <2>4. AudioEnded => AudioEnded'
    BY <1>1, <2>1, <2>3 DEF AudioEnded
  <2>5. \A id \in Sent : /\ IsHeard(id) => IsHeard(id)'
                         /\ IsQueued(id) => IsQueued(id)'
    BY <1>1, <2>1 DEF IsHeard, IsQueued
  <2> QED BY <1>1, <1>2, <2>2, <2>4, <2>5 DEF AudioIsKept
<1> QED BY <1>4, <1>5

LEMMA NextKeepsAudio ==
  Typed /\ AnswerFollowsStage /\ AudioIsKept /\ [Next]_vars => AudioIsKept'
<1> SUFFICES ASSUME Typed, AnswerFollowsStage, AudioIsKept, [Next]_vars PROVE AudioIsKept'
  OBVIOUS
<1>1. CASE Admit
  BY <1>1, NoAudioMoves DEF Admit, controlVars, sinkVars, AnswerFollowsStage, BeforeStarted,
     Transcribing
<1>2. CASE WorkerStep
  BY <1>2, WorkerKeepsAudio
<1>3. ASSUME UNCHANGED <<workerVars, input, audio, pusher, accepted>>,
             sender_held' \in {sender_held, FALSE}
      PROVE  AudioIsKept'
  <2>1. UNCHANGED <<stage, chunk, heard, result, input, audio, pusher, accepted>>
    BY <1>3 DEF workerVars
  <2>2. Sent' = Sent
    BY <2>1 DEF Sent
  <2>3. \A id \in Sent : /\ IsHeard(id)' <=> IsHeard(id)
                         /\ IsQueued(id)' <=> IsQueued(id)
    BY <2>1 DEF IsHeard, IsQueued
  <2>4. AudioEnded => AudioEnded'
    BY <1>3, <2>1 DEF AudioEnded, Senders
  <2> QED BY <2>1, <2>2, <2>3, <2>4 DEF AudioIsKept
<1>4. CASE CancelMark \/ CancelProgress \/ Finish \/ FinishTakesSender
  BY <1>3, <1>4 DEF CancelMark, CancelProgress, CancelFinishes, CancelTakesSender, Finish,
     FinishTakesSender, sinkVars
<1>5. CASE ReadEvent \/ DropConsumer \/ UNCHANGED vars
  BY <1>3, <1>5 DEF ReadEvent, DropConsumer, vars, sinkVars, controlVars
<1>6. ASSUME NEW p \in Pushers, PushBegin(p) \/ PushProgress(p) \/ PushAborts(p)
      PROVE  AudioIsKept'
  BY <1>6, PushKeepsAudio
<1> QED BY <1>1, <1>2, <1>4, <1>5, <1>6 DEF Next

(* A push that answered Ok is in a complete transcript, whoever takes the  *)
(* sender and however many pushes are under way as the stream is finished; *)
(* only audio behind a chunk that says end_of_stream stays unheard (push,  *)
(* finish, transcribe_stream).                                             *)
THEOREM AcceptedIsHeard == Spec => []AcceptedAudioIsHeard
<1>1. ASSUME Init PROVE AudioIsKept
  <2>1. stage = "Absent" /\ result = "None" /\ chunk.end_of_stream = FALSE
    BY <1>1 DEF Init, NoChunk
  <2>2. \A p \in Pushers : pusher[p].stage = "Idle"
    BY <1>1 DEF Init
  <2>3. Sent = {}
    BY <1>1, <2>2 DEF Init, Sent
  <2>4. input = "Complete" => AudioEnded
    BY <1>1, <2>2 DEF Init, AudioEnded, Senders
  <2> QED BY <2>1, <2>2, <2>3, <2>4 DEF AudioIsKept, BeforeStarted, Transcribing
<1>2. ASSUME AudioIsKept PROVE AcceptedAudioIsHeard
  <2>1. \A id \in accepted : id \in Sent
    BY DEF Sent
  <2> QED BY <1>2, <2>1, AllHeard DEF AcceptedAudioIsHeard, IsHeard
<1> QED BY <1>1, <1>2, NextKeepsAudio, AlwaysAnswers, AlwaysTyped, PTL DEF Spec
-----------------------------------------------------------------------------
(* The refinement of SpeechBackends.  The backend's active set is the one  *)
(* operation from its admission to the drop of its lease.                  *)
P == "parakeet"
Operation == <<"id", "request">>

LEMMA WhatIsActive ==
  /\ Backend!UnderId(P, "id") = IF Active THEN {"request"} ELSE {}
  /\ Backend!ActiveRequests(P) = IF Active THEN {"request"} ELSE {}
<1> DEFINE Entries == IF Active THEN {Operation} ELSE {}
<1>1. /\ Backend!UnderId(P, "id") = {entry[2] : entry \in {e \in Entries : e[1] = "id"}}
      /\ Backend!ActiveRequests(P) = {entry[2] : entry \in Entries}
  BY DEF Backend!UnderId, Backend!ActiveRequests, P, Operation
<1>2. {e \in Entries : e[1] = "id"} = Entries
  BY DEF Operation
<1>3. {entry[2] : entry \in Entries} = IF Active THEN {"request"} ELSE {}
  <2>1. CASE Active
    <3>1. {entry[2] : entry \in Entries} = {entry[2] : entry \in {Operation}}
      BY <2>1
    <3> QED BY <2>1, <3>1 DEF Operation
  <2>2. CASE ~Active
    BY <2>2
  <2> QED BY <2>1, <2>2
<1> QED BY <1>1, <1>2, <1>3

LEMMA UnseenStep ==
  ASSUME Active' = Active, UNCHANGED <<cancelled, final>>
  PROVE  UNCHANGED Backend!backendVars
BY DEF Backend!backendVars

LEMMA AdmitAdmits ==
  ASSUME Admit PROVE Backend!Admit(P, "id", "request")
<1>1. ~Active /\ Active' /\ UNCHANGED <<cancelled, final>>
  BY DEF Admit, Active, controlVars
<1>2. Backend!Admits(P, "id")
  BY <1>1, WhatIsActive DEF Backend!Admits, P
<1> QED BY <1>1, <1>2 DEF Backend!Admit, P

LEMMA MarkCancels ==
  ASSUME CancelMark PROVE Backend!Cancel(P, "id")
<1>1. /\ Active /\ Active' /\ ~cancelled /\ cancelled' /\ final' = final
  BY DEF CancelMark, Active, workerVars
<1>2. Backend!UnderId(P, "id") = {"request"}
  BY <1>1, WhatIsActive
<1> QED BY <1>1, <1>2 DEF Backend!Cancel

LEMMA AnswerSendsFinal ==
  ASSUME Typed, AnswerFollowsStage, SendFinal \/ InferPanics
  PROVE  \E class \in Terminals \cup {"Lost"} : Backend!SendFinal(P, "request", class)
<1>1. Active /\ Active' /\ cancelled' = cancelled
  BY DEF SendFinal, InferPanics, Active, controlVars
<1>2. final = "None" /\ final' \in Terminals \cup {"Lost"}
  BY DEF SendFinal, InferPanics, AnswerFollowsStage, Answered, Transcribing
<1>3. "request" \in Backend!ActiveRequests(P)
  BY <1>1, WhatIsActive
<1> QED BY <1>1, <1>2, <1>3 DEF Backend!SendFinal

LEMMA ReapReaps ==
  ASSUME AnswerFollowsStage, Reap PROVE Backend!Reap(P, "id", "request")
<1>1. /\ Active /\ ~Active' /\ final # "None" /\ UNCHANGED <<cancelled, final>>
  BY DEF Reap, Active, AnswerFollowsStage, Answered, Terminals, controlVars
<1> QED BY <1>1 DEF Backend!Reap, P

(* What the worker does between its admission, its answer and the drop of  *)
(* its lease is not seen from outside.                                     *)
LEMMA OtherWorkIsUnseen ==
  ASSUME WorkerStep, ~(SendFinal \/ InferPanics), ~Reap
  PROVE  UNCHANGED Backend!backendVars
<1>1. Active /\ Active'
  BY DEF Active, WorkerStep, BeginCancelled, BeginChecked, StartUnheard, StartHeard,
     DecodeFails, Receive, ReceiveEnd, ChunkRefused, ChunkTaken, LoopCancelled, LoopChecked,
     LoopEnds, Infer, InferTail, InferFails, BuildResponse, Conclude, SendTerminal,
     DropReceiver, Return
<1>2. UNCHANGED <<cancelled, final>>
  BY DEF WorkerStep, BeginCancelled, BeginChecked, StartUnheard, StartHeard,
     DecodeFails, Receive, ReceiveEnd, ChunkRefused, ChunkTaken, LoopCancelled, LoopChecked,
     LoopEnds, Infer, InferTail, InferFails, BuildResponse, Conclude, SendTerminal,
     DropReceiver, controlVars
<1> QED BY <1>1, <1>2, UnseenStep

LEMMA SinkIsUnseen ==
  ASSUME \/ CancelProgress \/ Finish \/ FinishTakesSender \/ ReadEvent \/ DropConsumer
         \/ \E p \in Pushers : PushBegin(p) \/ PushProgress(p) \/ PushAborts(p)
         \/ UNCHANGED vars
  PROVE  UNCHANGED Backend!backendVars
<1>1. UNCHANGED <<stage, cancelled, final>>
  BY DEF CancelProgress, CancelFinishes, CancelTakesSender, Finish, FinishTakesSender,
     ReadEvent, DropConsumer, PushBegin, PushProgress, PushClones, PushSends,
     PushFindsClosed, PushRechecks, PushAborts, vars, workerVars, controlVars
<1> QED BY <1>1, UnseenStep DEF Active

(* Whatever the client, the canceller and the model do, the host sees one  *)
(* operation of the backend protocol it composes with: admitted once,      *)
(* answered once while it is active, and given up after its answer.        *)
THEOREM TranscriptionKeepsProtocol == Spec => ImplementsBackend
<1>1. Init => Backend!Init
  BY DEF Init, Active, Backend!Init
<1>2. Typed /\ AnswerFollowsStage /\ [Next]_vars => [Backend!Next]_Backend!backendVars
  <2> SUFFICES ASSUME Typed, AnswerFollowsStage, [Next]_vars
               PROVE  Backend!Next \/ UNCHANGED Backend!backendVars
    OBVIOUS
  <2> USE DEF Backend!Next, Backend!WorkerStep, P
  <2>1. CASE Admit
    BY <2>1, AdmitAdmits
  <2>2. CASE CancelMark
    BY <2>2, MarkCancels
  <2>3. CASE SendFinal \/ InferPanics
    BY <2>3, AnswerSendsFinal
  <2>4. CASE Reap
    BY <2>4, ReapReaps
  <2>5. CASE WorkerStep /\ ~(SendFinal \/ InferPanics) /\ ~Reap
    BY <2>5, OtherWorkIsUnseen
  <2>6. CASE \/ CancelProgress \/ Finish \/ FinishTakesSender \/ ReadEvent \/ DropConsumer
             \/ \E p \in Pushers : PushBegin(p) \/ PushProgress(p) \/ PushAborts(p)
             \/ UNCHANGED vars
    BY <2>6, SinkIsUnseen
  <2> QED BY <2>1, <2>2, <2>3, <2>4, <2>5, <2>6 DEF Next
<1> QED BY <1>1, <1>2, AlwaysAnswers, AlwaysTyped, PTL DEF Spec, ImplementsBackend, Backend!Spec
=============================================================================
