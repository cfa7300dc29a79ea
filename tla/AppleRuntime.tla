---------------------------- MODULE AppleRuntime ----------------------------
(***************************************************************************)
(* The Apple synthesis backend at work next to the Apple probes.  Around   *)
(* its workers the backend is ParakeetBackend's protocol, line for line;   *)
(* what is its own is the one lock of the process, APPLE_RUNTIME_LOCK,     *)
(* around what the native library is asked to do:                          *)
(*                                                                         *)
(*   - a worker's synthesis, on a thread of the blocking pool;             *)
(*   - the inventory of a probe, on such a thread, too, which goes on      *)
(*     after the probe has timed out;                                      *)
(*   - the choice of a voice when a synthesis is called, on a thread of    *)
(*     the executor, which polls nothing else while it waits.              *)
(***************************************************************************)
EXTENDS ParakeetBackend, WavEncoding

CONSTANTS
  Calls,          (* calls of synthesize; each is made once                *)
  RequestOf,      (* by call, its request id                               *)
  Probes,         (* probes of the Apple source; each is made once         *)
  Executors,      (* threads of the executor                               *)
  Utterances      (* the sequences of buffers a native synthesis delivers  *)

ASSUME ExecutorAssumption == Executors \in Nat \ {0}
ASSUME CallAssumption == RequestOf \in [Calls -> RequestIds]
ASSUME UtteranceAssumption == Utterances \subseteq Seq(Buffers)

VARIABLES
  runtime,        (* who holds APPLE_RUNTIME_LOCK, or Unheld               *)
  call,           (* by call, where it is                                  *)
  inventory,      (* by probe, where its blocking task is                  *)
  inquiry,        (* by probe, what its caller has                         *)
  stage,          (* by nonce, where its worker is in run_synthesis        *)
  buffers         (* of the synthesis that holds the lock                  *)

appleVars == <<runtime, call, inventory, inquiry, stage, buffers>>
allAppleVars == <<vars, appleVars>>

Unheld == << >>

AppleInit ==
  /\ Init
  /\ runtime = Unheld
  /\ call = [c \in Calls |-> "Idle"]
  /\ inventory = [p \in Probes |-> "Idle"]
  /\ inquiry = [p \in Probes |-> "Idle"]
  /\ stage = [n \in Nonces |-> "Start"]
  /\ buffers = << >>

(* A call waits for the lock without giving its thread back.               *)
CanPoll == Cardinality({c \in Calls : call[c] \in {"Wants", "Resolving", "Resolved"}}) < Executors

(* A panic poisons the lock; whoever takes it next takes no notice.        *)
LockRuntime(holder) == runtime = Unheld /\ runtime' = holder

UnlockRuntime == runtime' = Unheld
-----------------------------------------------------------------------------
(* Calls of synthesize.                                                    *)

(* validate_request may refuse the call at once.                           *)
CallSynthesize(c) ==
  /\ CanPoll
  /\ call[c] = "Idle"
  /\ \E next \in {"Wants", "Refused"} : call' = [call EXCEPT ![c] = next]
  /\ UNCHANGED <<vars, runtime, inventory, inquiry, stage, buffers>>

BeginResolve(c) ==
  /\ call[c] = "Wants"
  /\ LockRuntime(<<"call", c>>)
  /\ call' = [call EXCEPT ![c] = "Resolving"]
  /\ UNCHANGED <<vars, inventory, inquiry, stage, buffers>>

(* resolve_voice finds a voice or an error.                                *)
EndResolve(c) ==
  /\ call[c] = "Resolving"
  /\ UnlockRuntime
  /\ \E next \in {"Resolved", "Refused"} : call' = [call EXCEPT ![c] = next]
  /\ UNCHANGED <<vars, inventory, inquiry, stage, buffers>>

(* Only then are the phase and the active map looked at.                   *)
CallAdmitted(c) ==
  /\ call[c] = "Resolved"
  /\ SpawnOperation(RequestOf[c])
  /\ call' = [call EXCEPT ![c] = "Admitted"]
  /\ UNCHANGED <<runtime, inventory, inquiry, stage, buffers>>

CallRefused(c) ==
  /\ call[c] = "Resolved"
  /\ ~Admits(RequestOf[c])
  /\ call' = [call EXCEPT ![c] = "Refused"]
  /\ UNCHANGED <<vars, runtime, inventory, inquiry, stage, buffers>>

CallProceeds(c) == BeginResolve(c) \/ EndResolve(c) \/ CallAdmitted(c) \/ CallRefused(c)
-----------------------------------------------------------------------------
(* run_synthesis.                                                          *)

(* The cancelled flag is looked at before anything is done; then Started   *)
(* is sent, or nobody listens and the answer is Cancelled, too.            *)
BeginSynthesis(n) ==
  /\ worker[n] = "Working" /\ stage[n] = "Start"
  /\ \E listens \in BOOLEAN :
       stage' = [stage EXCEPT ![n] =
                   IF n \notin cancelled /\ listens THEN "Wants" ELSE "Cancelled"]
  /\ UNCHANGED <<vars, runtime, call, inventory, inquiry, buffers>>

(* The native synthesis is made under the lock; ...                        *)
BeginNative(n) ==
  /\ stage[n] = "Wants"
  /\ LockRuntime(<<"worker", n>>)
  /\ stage' = [stage EXCEPT ![n] = "Native"]
  /\ UNCHANGED <<vars, call, inventory, inquiry, buffers>>

(* ... its callback keeps every buffer but the marker of the end, ...      *)
NativeDelivers(n) ==
  /\ stage[n] = "Native"
  /\ \E utterance \in Utterances :
       buffers' = FlattenSeq([i \in DOMAIN utterance |->
                    IF utterance[i].last THEN << >> ELSE <<utterance[i]>>])
  /\ stage' = [stage EXCEPT ![n] = "Encode"]
  /\ UNCHANGED <<vars, runtime, call, inventory, inquiry>>

NativeFails(n) ==
  /\ stage[n] = "Native"
  /\ UnlockRuntime
  /\ stage' = [stage EXCEPT ![n] = "NoAudio"]
  /\ UNCHANGED <<vars, call, inventory, inquiry, buffers>>

(* ... and the audio is encoded before the lock is left.                   *)
Encode(n) ==
  /\ stage[n] = "Encode"
  /\ UnlockRuntime
  /\ stage' = [stage EXCEPT ![n] = IF WavRefusal(buffers) = "None" THEN "Audio" ELSE "NoAudio"]
  /\ buffers' = << >>
  /\ UNCHANGED <<vars, call, inventory, inquiry>>

(* The flag is looked at again: a cancel during the native call counts.    *)
Decide(n) ==
  /\ stage[n] \in {"Audio", "NoAudio"}
  /\ stage' = [stage EXCEPT ![n] =
                 IF n \in cancelled THEN "Cancelled"
                 ELSE IF @ = "Audio" THEN "Completed" ELSE "Failed"]
  /\ UNCHANGED <<vars, runtime, call, inventory, inquiry, buffers>>

(* The terminal event, if somebody listens, and the final response.        *)
Answer(n) ==
  /\ stage[n] \in {"Completed", "Failed", "Cancelled"}
  /\ WorkerEnds(n) /\ worker'[n] = "Returned"
  /\ stage' = [stage EXCEPT ![n] = "Done"]
  /\ UNCHANGED <<runtime, call, inventory, inquiry, buffers>>

(* The lock is kept by a thread that is no more.                           *)
PoisoningPanic(n) ==
  /\ stage[n] = "Native"
  /\ WorkerEnds(n) /\ worker'[n] = "Panicked"
  /\ stage' = [stage EXCEPT ![n] = "Done"]
  /\ UNCHANGED <<runtime, call, inventory, inquiry, buffers>>

(* The wrapper of the native library panics under the lock.                *)
NativePanics(n) ==
  /\ stage[n] = "Native"
  /\ UnlockRuntime
  /\ WorkerEnds(n) /\ worker'[n] = "Panicked"
  /\ stage' = [stage EXCEPT ![n] = "Done"]
  /\ UNCHANGED <<call, inventory, inquiry, buffers>>

Synthesizes(n) ==
  \/ BeginSynthesis(n) \/ BeginNative(n) \/ NativeDelivers(n) \/ NativeFails(n)
  \/ NativePanics(n) \/ Encode(n) \/ Decide(n) \/ Answer(n)
-----------------------------------------------------------------------------
(* Probes.                                                                 *)

StartInquiry(p) ==
  /\ CanPoll
  /\ inquiry[p] = "Idle"
  /\ inquiry' = [inquiry EXCEPT ![p] = "Waiting"]
  /\ inventory' = [inventory EXCEPT ![p] = "Wants"]
  /\ UNCHANGED <<vars, runtime, call, stage, buffers>>

(* The inventory is taken without the lock.                                *)
UnlockedInspect(p) ==
  /\ inventory[p] = "Wants"
  /\ inventory' = [inventory EXCEPT ![p] = "Inspects"]
  /\ UNCHANGED <<vars, runtime, call, inquiry, stage, buffers>>

(* The blocking task, whether anyone waits for it or not; it may panic.    *)
BeginInspect(p) ==
  /\ inventory[p] = "Wants"
  /\ LockRuntime(<<"probe", p>>)
  /\ inventory' = [inventory EXCEPT ![p] = "Inspects"]
  /\ UNCHANGED <<vars, call, inquiry, stage, buffers>>

EndInspect(p) ==
  /\ inventory[p] = "Inspects"
  /\ UnlockRuntime
  /\ inventory' = [inventory EXCEPT ![p] = "Ended"]
  /\ UNCHANGED <<vars, call, inquiry, stage, buffers>>

(* What the task returned, or that it panicked, is reported.               *)
InquiryAnswered(p) ==
  /\ CanPoll
  /\ inquiry[p] = "Waiting" /\ inventory[p] = "Ended"
  /\ inquiry' = [inquiry EXCEPT ![p] = "Answered"]
  /\ UNCHANGED <<vars, runtime, call, inventory, stage, buffers>>

(* The timeout drops the handle of the task, not the task.                 *)
InquiryTimesOut(p) ==
  /\ CanPoll
  /\ inquiry[p] = "Waiting"
  /\ inquiry' = [inquiry EXCEPT ![p] = "TimedOut"]
  /\ UNCHANGED <<vars, runtime, call, inventory, stage, buffers>>

Inspects(p) == BeginInspect(p) \/ EndInspect(p) \/ InquiryAnswered(p)
-----------------------------------------------------------------------------
(* The protocol around the workers.                                        *)

AppleCancel(id) == Cancel(id) /\ UNCHANGED appleVars

AppleLeaseDrops(n) == LeaseDrops(n) /\ UNCHANGED appleVars

AppleReaps(n) == CanPoll /\ Join(n) /\ UNCHANGED appleVars

AppleCallShutdown(s) ==
  CanPoll /\ (CallShutdown(s) \/ FollowShutdown(s)) /\ UNCHANGED appleVars

AppleAwaitShutdown(s) == CanPoll /\ CallerProgress(s) /\ UNCHANGED appleVars

AppleShutdownDropped(s) == CallerAborts(s) /\ UNCHANGED appleVars

AppleCoordinates == CanPoll /\ CoordinatorStep /\ UNCHANGED appleVars

AppleNext ==
  \/ \E c \in Calls : CallSynthesize(c) \/ CallProceeds(c)
  \/ \E id \in RequestIds : AppleCancel(id)
  \/ \E n \in Nonces : Synthesizes(n) \/ AppleLeaseDrops(n) \/ AppleReaps(n)
  \/ \E p \in Probes : StartInquiry(p) \/ Inspects(p) \/ InquiryTimesOut(p)
  \/ \E s \in Callers :
       AppleCallShutdown(s) \/ AppleAwaitShutdown(s) \/ AppleShutdownDropped(s)
  \/ AppleCoordinates

AppleSpec == AppleInit /\ [][AppleNext]_allAppleVars

(* Threads run, futures are polled while a thread is free, and a native    *)
(* call returns.  The lock is not fair; the calls, probes and workers are  *)
(* finitely many, so that each still gets it.                              *)
AppleFairness ==
  /\ \A c \in Calls : WF_allAppleVars(CallProceeds(c))
  /\ \A n \in Nonces :
       /\ WF_allAppleVars(Synthesizes(n)) /\ WF_allAppleVars(AppleLeaseDrops(n))
       /\ WF_allAppleVars(AppleReaps(n))
  /\ \A p \in Probes : WF_allAppleVars(Inspects(p))
  /\ \A s \in Callers : WF_allAppleVars(AppleAwaitShutdown(s))
  /\ WF_allAppleVars(AppleCoordinates)

FairAppleSpec == AppleSpec /\ AppleFairness
-----------------------------------------------------------------------------
(* Properties.                                                             *)

(* Types of the variables added here.                                      *)
AppleTypeOK ==
  /\ runtime \in {Unheld} \cup ({"worker"} \X Nonces) \cup ({"probe"} \X Probes)
                   \cup ({"call"} \X Calls)
  /\ call \in [Calls -> {"Idle", "Wants", "Resolving", "Resolved", "Admitted", "Refused"}]
  /\ inventory \in [Probes -> {"Idle", "Wants", "Inspects", "Ended"}]
  /\ inquiry \in [Probes -> {"Idle", "Waiting", "Answered", "TimedOut"}]
  /\ stage \in [Nonces -> {"Start", "Wants", "Native", "Encode", "Audio", "NoAudio",
                           "Completed", "Failed", "Cancelled", "Done"}]

(* Those who are inside the native library, by what they do.               *)
InNative ==
  {<<"worker", n>> : n \in {m \in Nonces : stage[m] \in {"Native", "Encode"}}}
    \cup {<<"probe", p>> : p \in {q \in Probes : inventory[q] = "Inspects"}}
    \cup {<<"call", c>> : c \in {d \in Calls : call[d] = "Resolving"}}

(* Of all the synthesis workers, the calls that look for a voice and the   *)
(* probes, those that were given up by their callers included, one at a    *)
(* time is in AVSpeech.  (The constants of the speech rate, which          *)
(* validate_request reads there, are read without the lock.)               *)
NativeCallsDoNotOverlap == \A x, y \in InNative : x = y

(* Whatever buffers a synthesis delivers, the payload that is answered     *)
(* holds every sample once and in its place, and its header is true.       *)
EncodedAudioIsWhole ==
  buffers # << >> /\ WavRefusal(buffers) = "None" => IsWhole(Wav(buffers), buffers)

(* Once a shutdown of the backend has been answered no worker is in the   *)
(* native library or on its way to it, nor gets there again.               *)
ClosedMeansQuiet ==
  shutdown_result # "None" =>
    \A n \in Nonces : worker[n] # "None" => stage[n] = "Done"

(* The lock is always left: every worker ends, every call of synthesize    *)
(* returns though it blocks its thread, every probe is answered or timed   *)
(* out and its task ends, and every caller of shutdown that stays returns. *)
(* There are finitely many of them, so the system comes to rest whenever   *)
(* no new one arrives.                                                     *)
NobodyWaitsForever ==
  []<>(/\ \A n \in Nonces : worker[n] # "Working"
       /\ \A c \in Calls : call[c] \in {"Idle", "Admitted", "Refused"}
       /\ \A p \in Probes : inventory[p] \in {"Idle", "Ended"} /\ inquiry[p] # "Waiting"
       /\ \A s \in Callers : caller[s] \in {"Idle", "Returned"})
=============================================================================
