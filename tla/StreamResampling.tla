-------------------------- MODULE StreamResampling -------------------------
(***************************************************************************)
(* The StreamingNormalizer of the Parakeet backend, which resamples a      *)
(* stream chunk by chunk, and the cutting of its output into model chunks, *)
(* against resample_complete, which resamples a whole buffer.              *)
(*                                                                         *)
(* A sample is its index in the mono stream.  An output sample is the      *)
(* point it interpolates: its two neighbours and the fraction between      *)
(* them.  Positions are in units of 1/out of a sample, so that a step of   *)
(* in/out samples is `in` units; the code's f64 positions are taken to be  *)
(* exact.                                                                  *)
(***************************************************************************)
EXTENDS Integers, Sequences

CONSTANTS
  Rates,         (* pairs of an input rate and the target rate             *)
  MaxChunk,      (* bound: samples in a chunk                              *)
  MaxSamples,    (* bound: samples in the stream                           *)
  ModelFrames    (* MODEL_CHUNK_SAMPLES                                    *)

ASSUME RateAssumption == Rates \subseteq (Nat \ {0}) \X (Nat \ {0})
ASSUME ModelAssumption == ModelFrames \in Nat \ {0}
ASSUME BoundAssumption == MaxChunk \in Nat /\ MaxSamples \in Nat

VARIABLES
  rate,       (* the stream's input rate and the target rate               *)
  received,   (* samples pushed so far                                     *)
  source,     (* StreamingNormalizer::source                               *)
  position,   (* StreamingNormalizer::position                             *)
  output,     (* all that push and finish returned, in order               *)
  pending,    (* samples of it that wait for a full model chunk            *)
  given,      (* samples of it that the model was given                    *)
  finished    (* the stream has ended                                      *)

vars == <<rate, received, source, position, output, pending, given, finished>>

In == rate[1]
Out == rate[2]

Init ==
  /\ rate \in Rates
  /\ received = 0
  /\ source = <<>>
  /\ position = 0
  /\ output = <<>>
  /\ pending = 0
  /\ given = 0
  /\ finished = FALSE
-----------------------------------------------------------------------------
Lesser(a, b) == IF a < b THEN a ELSE b

(* interpolate: between a sample and the next, or the last one twice.      *)
Interpolate(input, pos) ==
  LET left == pos \div Out
      right == Lesser(left + 1, Len(input) - 1)
  IN  [left |-> input[left + 1], right |-> input[right + 1], fraction |-> pos % Out]

(* How many positions from `pos` in steps of `In` lie before `limit`.      *)
StepsBefore(pos, limit) ==
  IF pos >= limit THEN 0 ELSE (limit - pos + In - 1) \div In

Points(input, pos, limit) ==
  [k \in 1..StepsBefore(pos, limit) |-> Interpolate(input, pos + (k - 1) * In)]

(* The sample that the loop's last position needs is not waited for.       *)
FaultyPushLimit(input) == Len(input) * Out

(* push emits while position + 1 < len, ...                                *)
PushLimit(input) == (Len(input) - 1) * Out

(* ... and finish while position < len.                                    *)
FinishLimit(input) == Len(input) * Out

(* The samples of an untouched stream, in order.                           *)
NewSamples(n) == [i \in 1..n |-> received + i - 1]

(* resample_complete of all that was received.                             *)
Whole == [i \in 1..received |-> i - 1]
Complete ==
  IF In = Out
    THEN [i \in 1..received |-> Interpolate(Whole, (i - 1) * In)]
    ELSE [k \in 1..(received * Out) \div In |-> Interpolate(Whole, (k - 1) * In)]

(* At the model's own rate samples are passed on as they are.              *)
PassOn(input) ==
  [i \in 1..Len(input) |-> [left |-> input[i], right |-> input[i], fraction |-> 0]]

(* consume_model_chunks: full chunks only, each in one run of the model.   *)
Consume(n) ==
  /\ pending' = n % ModelFrames
  /\ given' = given + (n - (n % ModelFrames))

(* The position, counted from the first sample that is kept.               *)
Rebase(pos, consumed) == pos - consumed * Out

(* One chunk through push and consume_model_chunks.  What is drained is    *)
(* capped at what is there; what is taken off the position is not.         *)
Push(n) ==
  LET input == source \o NewSamples(n)
      points == Points(input, position, PushLimit(input))
      next == position + Len(points) * In
      consumed == next \div Out
  IN  /\ ~finished
      /\ received + n <= MaxSamples
      /\ received' = received + n
      /\ output' = output \o (IF In = Out THEN PassOn(input) ELSE points)
      /\ source' = IF In = Out THEN <<>>
                   ELSE SubSeq(input, Lesser(consumed, Len(input)) + 1, Len(input))
      /\ position' = IF In = Out THEN 0 ELSE Rebase(next, consumed)
      /\ Consume(pending + Len(output') - Len(output))
      /\ UNCHANGED <<rate, finished>>

(* The rest is padded, or cut, to one model chunk.                         *)
GiveRest(n) == given' = given + Lesser(n, ModelFrames) /\ pending' = 0

(* The end of the stream: finish, then the last run of the model.          *)
Finish ==
  /\ ~finished
  /\ finished' = TRUE
  /\ output' = output \o
       (IF source = <<>> THEN <<>>
        ELSE IF In = Out THEN PassOn(source)
        ELSE Points(source, position, FinishLimit(source)))
  /\ source' = <<>>
  /\ GiveRest(pending + Len(output') - Len(output))
  /\ UNCHANGED <<rate, received, position>>

Next == Finish \/ \E n \in 1..MaxChunk : Push(n)

Spec == Init /\ [][Next]_vars
-----------------------------------------------------------------------------
(* Properties.                                                             *)

(* Types; a position is less than a step beyond what is kept.              *)
TypeOK ==
  /\ rate \in Rates
  /\ received \in 0..MaxSamples
  /\ source \in Seq(0..MaxSamples - 1)
  /\ position \in 0..(2 * In)
  /\ pending \in 0..ModelFrames - 1
  /\ given \in 0..Len(output)
  /\ finished \in BOOLEAN

(* A point between samples, whichever way the right neighbour is written   *)
(* when the fraction is nothing.                                           *)
Value(point) ==
  IF point.fraction = 0 \/ point.left = point.right
    THEN <<point.left, point.left, 0>>
    ELSE <<point.left, point.right, point.fraction>>

(* The output does not depend on how the client cut its audio: at any time *)
(* it is the start of what the whole stream resamples to.  At the end all  *)
(* of that is there, and at most one sample more, by which finish rounds   *)
(* the tail up where resample_complete rounds it down; and the model was   *)
(* given it all but for what finish produced beyond the first sample of    *)
(* its last, cut chunk, which is nothing above the model's rate.           *)
StreamedMatchesComplete ==
  /\ \A k \in 1..Len(output) : k <= Len(Complete) => Value(output[k]) = Value(Complete[k])
  /\ finished => /\ Len(output) - Len(Complete) \in {0, 1}
                 /\ Len(output) - given <= (Out - 1) \div In
=============================================================================
