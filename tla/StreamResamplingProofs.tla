----------------------- MODULE StreamResamplingProofs -----------------------
(***************************************************************************)
(* For every pair of rates whose step is at most two samples, every model  *)
(* chunk and every way to cut a stream of any length: the stream resamples *)
(* to what the whole buffer does (StreamedMatchesComplete).                *)
(*                                                                         *)
(* Aligned is the reason.  After every chunk at most one sample is kept,   *)
(* and the position in it is the place of the next output in the whole     *)
(* stream.  That is where a step of more than two samples fails: a push    *)
(* may then end beyond the samples there are (DrainIsWhole).               *)
(***************************************************************************)
EXTENDS StreamResampling, TLAPS

(* No step is longer than two samples.                                     *)
AtMostTwice == \A pair \in Rates : pair[1] <= 2 * pair[2]

OutputPoint == [left : Int, right : Int, fraction : Int]

(* Output k, counted from 0, at In # Out: between a sample and the next.   *)
Between(k) ==
  [left |-> (k * In) \div Out, right |-> (k * In) \div Out + 1, fraction |-> (k * In) % Out]

(* Output k at the model's own rate.                                       *)
Exactly(k) == [left |-> k, right |-> k, fraction |-> 0]

Shaped ==
  /\ rate \in (Nat \ {0}) \X (Nat \ {0})
  /\ In <= 2 * Out
  /\ received \in Nat /\ position \in Nat
  /\ source \in Seq(Int) /\ output \in Seq(OutputPoint)

(* What push keeps: at most the last sample, and in it the place where the *)
(* next output is.                                                         *)
PositionIsGlobal ==
  /\ Len(source) \in {0, 1} /\ Len(source) <= received
  /\ Len(source) = 1 => source[1] = received - 1
  /\ position < Out /\ (source = <<>> => position < In)
  /\ Len(output) * In = (received - Len(source)) * Out + position

(* What push gave out lies between two samples that there are.             *)
OutputIsSettled ==
  \A k \in 1..Len(output) :
    output[k] = Between(k - 1) /\ Between(k - 1).left + 1 < received

PassedOn ==
  /\ source = <<>> /\ position = 0
  /\ Len(output) = received
  /\ \A k \in 1..Len(output) : output[k] = Exactly(k - 1)

ModelIsFed ==
  /\ pending \in 0..ModelFrames - 1 /\ given \in Nat
  /\ given + pending = Len(output)

Aligned ==
  /\ Shaped
  /\ ~finished =>
       /\ ModelIsFed
       /\ In # Out => PositionIsGlobal /\ OutputIsSettled
       /\ In = Out => PassedOn
-----------------------------------------------------------------------------
(* Arithmetic.                                                             *)

LEMMA QuotientOf ==
  ASSUME NEW x \in Int, NEW q \in Int, NEW b \in Nat \ {0}, NEW r \in Nat, r < b, x = b * q + r
  PROVE  x \div b = q /\ x % b = r
OBVIOUS

LEMMA Division ==
  ASSUME NEW x \in Nat, NEW b \in Nat \ {0}
  PROVE  /\ x \div b \in Nat /\ x % b \in Nat /\ x % b < b
         /\ x = b * (x \div b) + (x % b)
OBVIOUS

LEMMA ProductsCommute ==
  ASSUME NEW i \in Int, NEW j \in Int
  PROVE  i * j = j * i /\ i * j \in Int
OBVIOUS

LEMMA ProductsGrow ==
  ASSUME NEW i \in Nat, NEW j \in Int, i <= j, NEW b \in Nat
  PROVE  i * b \in Nat /\ i * b <= j * b
OBVIOUS

(* r beyond step l of those after step b, in steps of o.                   *)
LEMMA StepsAddUp ==
  ASSUME NEW b \in Nat, NEW l \in Nat, NEW o \in Nat, NEW r \in Nat
  PROVE  b * o + (o * l + r) = o * (b + l) + r
<1>1. o * (b + l) = o * b + o * l /\ o * b = b * o
  OBVIOUS
<1>2. o * b \in Nat /\ o * l \in Nat
  OBVIOUS
<1> QED BY <1>1, <1>2

LEMMA QuotientBelow ==
  ASSUME NEW x \in Nat, NEW b \in Nat \ {0}, NEW c \in Int, x < c * b
  PROVE  x \div b < c
<1>1. x \div b \in Nat /\ b * (x \div b) <= x
  BY Division
<1> DEFINE q == x \div b
<1>2. q \in Nat /\ q * b <= x
  BY <1>1
<1> HIDE DEF q
<1>3. q < c
  <2> SUFFICES ASSUME c <= q PROVE FALSE
    BY <1>2
  <2>1. c * b <= q * b
    BY <1>2
  <2> QED BY <1>2, <2>1
<1> QED BY <1>3 DEF q

LEMMA StepsBeforeLimit ==
  ASSUME Shaped, NEW pos \in Nat, NEW limit \in Int
  PROVE  /\ StepsBefore(pos, limit) \in Nat
         /\ pos >= limit => StepsBefore(pos, limit) = 0
         /\ pos < limit =>
              /\ StepsBefore(pos, limit) >= 1
              /\ pos + (StepsBefore(pos, limit) - 1) * In < limit
         /\ pos + StepsBefore(pos, limit) * In >= limit
<1>1. CASE pos >= limit
  BY <1>1 DEF Shaped, StepsBefore, In
<1>2. CASE pos < limit
  <2> DEFINE x == limit - pos + In - 1
             s == x \div In
  <2>1. In \in Nat \ {0} /\ x \in Nat
    BY <1>2 DEF Shaped, In
  <2>2. s \in Nat /\ x % In \in Nat /\ x % In < In /\ x = In * s + (x % In)
    BY <2>1, Division
  <2>3. StepsBefore(pos, limit) = s
    BY <1>2 DEF StepsBefore
  <2>4. In * s <= x /\ x < In * s + In
    BY <2>1, <2>2
  <2>5. s >= 1
    <3> SUFFICES ASSUME s = 0 PROVE FALSE
      BY <2>2
    <3> QED BY <2>1, <2>4, <1>2
  <2>6. (s - 1) * In = In * s - In /\ s * In = In * s
    BY <2>1, <2>2
  <2> HIDE DEF x, s
  <2> QED BY <1>2, <2>1, <2>2, <2>3, <2>4, <2>5, <2>6 DEF x
<1> QED BY <1>1, <1>2 DEF Shaped
-----------------------------------------------------------------------------
(* Interpolation.                                                          *)

(* The samples from sample `base` on.                                      *)
StartsAt(input, base) ==
  /\ base \in Nat /\ input \in Seq(Int)
  /\ \A i \in 1..Len(input) : input[i] = base + i - 1

(* Output k of the whole stream, when of the stream there are `end`        *)
(* samples: its neighbours are those it has in the end, but that the last  *)
(* sample has no right one.                                                *)
IsOutput(point, k, end) ==
  /\ point \in OutputPoint
  /\ point.left = Between(k).left /\ point.left < end
  /\ point.right = Lesser(point.left + 1, end - 1)
  /\ point.fraction = Between(k).fraction

LEMMA InterpolatedTail ==
  ASSUME Shaped, NEW base, NEW input, StartsAt(input, base),
         NEW pos \in Nat, pos < Len(input) * Out,
         NEW k \in Nat, k * In = base * Out + pos
  PROVE  IsOutput(Interpolate(input, pos), k, base + Len(input))
<1> DEFINE left == pos \div Out
           right == Lesser(left + 1, Len(input) - 1)
<1>1. /\ Out \in Nat \ {0} /\ In \in Nat \ {0}
      /\ Len(input) \in Nat /\ base \in Nat
      /\ \A i \in 1..Len(input) : input[i] = base + i - 1
  BY DEF Shaped, In, Out, StartsAt
<1>2. /\ left \in Nat /\ pos % Out \in Nat /\ pos % Out < Out
      /\ pos = Out * left + (pos % Out)
  BY <1>1, Division
<1>3. left < Len(input)
  <2> DEFINE len == Len(input)
             r == pos % Out
             q == left
  <2>1. q \in Nat /\ r \in Nat /\ len \in Nat /\ Out * q + r < len * Out
    BY <1>1, <1>2
  <2> HIDE DEF q, r, len
  <2>2. q < len
    <3> SUFFICES ASSUME len <= q PROVE FALSE
      BY <2>1
    <3>1. len * Out <= q * Out
      BY <1>1, <2>1, ProductsGrow
    <3> QED BY <1>1, <2>1, <3>1
  <2> QED BY <2>2 DEF q, len
<1>4. right \in 0..Len(input) - 1 /\ base + right = Lesser(base + left + 1, base + Len(input) - 1)
  BY <1>1, <1>2, <1>3 DEF Lesser
<1>5. k * In = Out * (base + left) + (pos % Out)
  <2> DEFINE r == pos % Out
             o == Out
             l == left
  <2>1. o \in Nat /\ l \in Nat /\ r \in Nat /\ base \in Nat
    BY <1>1, <1>2
  <2>2. k * In = base * o + (o * l + r)
    <3>1. pos = o * l + r
      BY <1>2
    <3> HIDE DEF l, r, o
    <3> QED BY <3>1 DEF o
  <2> HIDE DEF r, o, l
  <2>3. base * o + (o * l + r) = o * (base + l) + r
    BY <2>1, StepsAddUp
  <2> QED BY <2>2, <2>3 DEF r, o, l
<1>6. (k * In) \div Out = base + left /\ (k * In) % Out = pos % Out
  <2> DEFINE x == k * In
             r == pos % Out
             q == base + left
  <2>1. x \in Int /\ q \in Int /\ r \in Nat /\ r < Out /\ x = Out * q + r
    BY <1>1, <1>2, <1>5
  <2> HIDE DEF x, r, q
  <2>2. x \div Out = q /\ x % Out = r
    BY <1>1, <2>1, QuotientOf
  <2> QED BY <2>2 DEF x, r, q
<1>0. Interpolate(input, pos) =
        [left |-> input[left + 1], right |-> input[right + 1], fraction |-> pos % Out]
  BY DEF Interpolate
<1>9. (k * In) \div Out = base + left /\ left \in Nat
  BY <1>2, <1>6
<1> HIDE DEF left, right
<1>7. input[left + 1] = base + left /\ input[right + 1] = base + right
  BY <1>1, <1>9, <1>3, <1>4
<1>8. Interpolate(input, pos) = [left |-> base + left, right |-> base + right, fraction |-> pos % Out]
  BY <1>0, <1>7
<1> QED BY <1>1, <1>2, <1>3, <1>4, <1>6, <1>8, <1>9 DEF OutputPoint, Between, IsOutput

LEMMA Concatenation ==
  ASSUME NEW S, NEW s \in Seq(S), NEW t \in Seq(S)
  PROVE  /\ s \o t \in Seq(S) /\ Len(s \o t) = Len(s) + Len(t)
         /\ \A i \in 1..Len(s) : (s \o t)[i] = s[i]
         /\ \A i \in Len(s) + 1..Len(s) + Len(t) : (s \o t)[i] = t[i - Len(s)]
OBVIOUS

(* The samples at hand when a chunk has come are the end of the stream.    *)
LEMMA InputIsTail ==
  ASSUME Shaped, NEW base, NEW n \in Nat, base + Len(source) = received, StartsAt(source, base)
  PROVE  /\ StartsAt(source \o NewSamples(n), base)
         /\ Len(source \o NewSamples(n)) = Len(source) + n
<1>0. base \in Nat /\ (\A i \in 1..Len(source) : source[i] = base + i - 1)
  BY DEF StartsAt
<1>1. NewSamples(n) \in Seq(Int) /\ Len(NewSamples(n)) = n
  BY DEF NewSamples, Shaped
<1>2. \A i \in 1..n : NewSamples(n)[i] = received + i - 1
  BY DEF NewSamples
<1>3. source \in Seq(Int) /\ Len(source) \in Nat /\ received \in Nat
  BY DEF Shaped
<1> DEFINE new == NewSamples(n)
<1>4. new \in Seq(Int) /\ Len(new) = n /\ (\A i \in 1..n : new[i] = received + i - 1)
  BY <1>1, <1>2
<1> HIDE DEF new
<1>5. source \o new \in Seq(Int) /\ Len(source \o new) = Len(source) + n
  BY <1>3, <1>4, Concatenation
<1>6. ASSUME NEW i \in 1..Len(source) + n PROVE (source \o new)[i] = base + i - 1
  <2>1. CASE i <= Len(source)
    <3>1. (source \o new)[i] = source[i]
      BY <1>3, <1>4, <2>1, Concatenation
    <3> QED BY <1>0, <1>3, <2>1, <3>1
  <2>2. CASE i > Len(source)
    <3>1. (source \o new)[i] = new[i - Len(source)]
      BY <1>3, <1>4, <2>2, Concatenation
    <3>2. i - Len(source) \in 1..n
      BY <1>3, <2>2
    <3>3. new[i - Len(source)] = received + (i - Len(source)) - 1
      BY <1>4, <3>2
    <3>4. received + (i - Len(source)) - 1 = base + i - 1
      BY <1>0, <1>3
    <3> QED BY <3>1, <3>3, <3>4
  <2>3. i <= Len(source) \/ i > Len(source)
    BY <1>3
  <2> QED BY <2>1, <2>2, <2>3
<1> QED BY <1>0, <1>5, <1>6 DEF new, StartsAt

(* Points gives the next outputs of the whole stream, those before limit.  *)
LEMMA PointsFollow ==
  ASSUME Shaped, NEW base, NEW input, StartsAt(input, base),
         NEW pos \in Nat, NEW limit \in Int, limit <= Len(input) * Out,
         NEW m \in Nat, m * In = base * Out + pos
  PROVE  /\ Points(input, pos, limit) \in Seq(OutputPoint)
         /\ Len(Points(input, pos, limit)) = StepsBefore(pos, limit)
         /\ \A j \in 1..StepsBefore(pos, limit) :
              /\ pos + (j - 1) * In < limit
              /\ (m + j - 1) * In = base * Out + (pos + (j - 1) * In)
              /\ IsOutput(Points(input, pos, limit)[j], m + j - 1, base + Len(input))
<1> DEFINE points == Points(input, pos, limit)
           steps == StepsBefore(pos, limit)
<1>1. Out \in Nat \ {0} /\ In \in Nat \ {0} /\ Len(input) \in Nat /\ base \in Nat
  BY DEF Shaped, In, Out, StartsAt
<1>2. steps \in Nat /\ (steps >= 1 => pos < limit /\ pos + (steps - 1) * In < limit)
  <2>1. pos >= limit => steps = 0
    BY StepsBeforeLimit
  <2>2. steps \in Nat
    BY StepsBeforeLimit
  <2>3. pos < limit => pos + (steps - 1) * In < limit
    BY StepsBeforeLimit
  <2> QED BY <2>1, <2>2, <2>3
<1>0. points = [j \in 1..steps |-> Interpolate(input, pos + (j - 1) * In)]
  BY DEF Points
<1> HIDE DEF points, steps
<1>3. ASSUME NEW j \in 1..steps
      PROVE  /\ pos + (j - 1) * In \in Nat /\ pos + (j - 1) * In < limit
             /\ (m + j - 1) * In = base * Out + (pos + (j - 1) * In)
  <2>1. pos < limit /\ pos + (steps - 1) * In < limit
    BY <1>2
  <2>2. (j - 1) * In \in Nat /\ (j - 1) * In <= (steps - 1) * In
    BY <1>1, <1>2, ProductsGrow
  <2>3. (m + j - 1) * In = m * In + (j - 1) * In
    BY <1>1
  <2> DEFINE ahead == (j - 1) * In
             last == (steps - 1) * In
             start == base * Out
             count == m * In
  <2>4. start \in Nat /\ last \in Int /\ ahead \in Nat /\ count = start + pos
    BY <1>1, <1>2, <2>2
  <2>5. /\ ahead <= last /\ pos + last < limit
        /\ (m + j - 1) * In = count + ahead
    BY <2>1, <2>2, <2>3
  <2> HIDE DEF ahead, last, start, count
  <2>6. pos + ahead \in Nat /\ pos + ahead < limit /\ (m + j - 1) * In = start + (pos + ahead)
    BY <2>4, <2>5
  <2> QED BY <2>6 DEF ahead, start
<1>4. ASSUME NEW j \in 1..steps
      PROVE  IsOutput(points[j], m + j - 1, base + Len(input))
  <2> DEFINE at == pos + (j - 1) * In
             k == m + j - 1
  <2>1. at \in Nat /\ at < Len(input) * Out /\ k \in Nat /\ k * In = base * Out + at
    BY <1>1, <1>2, <1>3
  <2>2. points[j] = Interpolate(input, at)
    BY <1>0
  <2> HIDE DEF at, k
  <2>3. IsOutput(Interpolate(input, at), k, base + Len(input))
    BY <2>1, InterpolatedTail
  <2> QED BY <2>2, <2>3 DEF k
<1>5. points \in Seq(OutputPoint) /\ Len(points) = steps
  <2>1. points = [j \in 1..steps |-> points[j]]
    BY <1>0
  <2>2. points \in [1..steps -> OutputPoint]
    BY <1>4, <2>1 DEF IsOutput
  <2> QED BY <1>2, <2>2
<1>6. \A j \in 1..steps :
        /\ pos + (j - 1) * In < limit
        /\ (m + j - 1) * In = base * Out + (pos + (j - 1) * In)
        /\ IsOutput(points[j], m + j - 1, base + Len(input))
  BY <1>3, <1>4
<1> QED BY <1>5, <1>6 DEF points, steps
-----------------------------------------------------------------------------
(* The whole stream.                                                       *)

LEMMA SameOutput ==
  ASSUME NEW p, NEW q, NEW k, NEW end, IsOutput(p, k, end), IsOutput(q, k, end)
  PROVE  p = q
BY DEF IsOutput, OutputPoint

LEMMA CompleteOutputs ==
  ASSUME Shaped
  PROVE  /\ Len(Complete) = IF In = Out THEN received ELSE (received * Out) \div In
         /\ Len(Complete) \in Nat /\ Len(Complete) * In <= received * Out
         /\ \A k \in 1..Len(Complete) : IsOutput(Complete[k], k - 1, received)
<1> DEFINE N == IF In = Out THEN received ELSE (received * Out) \div In
<1>1. In \in Nat \ {0} /\ Out \in Nat \ {0} /\ received \in Nat
  BY DEF Shaped, In, Out
<1>2. N \in Nat /\ N * In <= received * Out
  <2>1. received * Out \in Nat
    BY <1>1
  <2> DEFINE x == received * Out
             q == x \div In
  <2>2. q \in Nat /\ In * q <= x
    BY <1>1, <2>1, Division
  <2>3. N = IF In = Out THEN received ELSE q
    OBVIOUS
  <2> HIDE DEF q, N
  <2> QED BY <1>1, <2>2, <2>3
<1>3. Complete = [k \in 1..N |-> Interpolate(Whole, (k - 1) * In)]
  BY DEF Complete
<1> HIDE DEF N
<1>4. Len(Complete) = N
  BY <1>2, <1>3
<1>5. StartsAt(Whole, 0) /\ Len(Whole) = received
  <2>1. Whole \in [1..received -> Int]
    BY <1>1 DEF Whole
  <2>2. Whole \in Seq(Int) /\ Len(Whole) = received
    BY <1>1, <2>1 DEF Whole
  <2> QED BY <2>2, <1>1 DEF StartsAt, Whole
<1>6. ASSUME NEW k \in 1..N PROVE IsOutput(Complete[k], k - 1, received)
  <2>1. (k - 1) * In \in Nat /\ (k - 1) * In < received * Out
    <3>1. k * In <= N * In
      BY <1>1, <1>2, ProductsGrow
    <3>2. (k - 1) * In = k * In - In /\ (k - 1) * In \in Nat
      BY <1>1
    <3> QED BY <1>1, <1>2, <3>1, <3>2
  <2>2. (k - 1) * In = 0 * Out + (k - 1) * In
    BY <1>1, <2>1
  <2>3. IsOutput(Interpolate(Whole, (k - 1) * In), k - 1, 0 + Len(Whole))
    BY <1>2, <1>5, <2>1, <2>2, InterpolatedTail
  <2> QED BY <1>1, <1>3, <1>5, <2>3
<1> QED BY <1>2, <1>4, <1>6 DEF N

(* At the model's own rate.                                                *)
LEMMA PassedOnMatches ==
  ASSUME Shaped, In = Out, PassedOn
  PROVE  \A k \in 1..Len(output) : k <= Len(Complete) => Value(output[k]) = Value(Complete[k])
<1> SUFFICES ASSUME NEW k \in 1..Len(output), k <= Len(Complete)
             PROVE  Value(output[k]) = Value(Complete[k])
  OBVIOUS
<1>1. Out \in Nat \ {0} /\ Len(Complete) \in Nat /\ Len(output) \in Nat
  BY CompleteOutputs DEF Shaped, Out
<1>2. IsOutput(Complete[k], k - 1, received)
  BY <1>1, CompleteOutputs
<1>3. output[k] = Exactly(k - 1)
  BY DEF PassedOn
<1>4. Between(k - 1).left = k - 1 /\ Between(k - 1).fraction = 0
  <2>1. (k - 1) * In = Out * (k - 1) + 0
    BY <1>1
  <2>2. ((k - 1) * In) \div Out = k - 1 /\ ((k - 1) * In) % Out = 0
    BY <1>1, <2>1, QuotientOf
  <2> QED BY <2>2 DEF Between
<1> QED BY <1>2, <1>3, <1>4 DEF IsOutput, Exactly, Value

(* Between samples: what was given out has both its neighbours.            *)
LEMMA SettledMatches ==
  ASSUME Shaped, OutputIsSettled
  PROVE  \A k \in 1..Len(output) : IsOutput(output[k], k - 1, received)
<1> SUFFICES ASSUME NEW k \in 1..Len(output)
             PROVE  IsOutput(output[k], k - 1, received)
  OBVIOUS
<1>1. output[k] \in OutputPoint /\ received \in Nat
  BY DEF Shaped
<1>2. output[k] = Between(k - 1) /\ Between(k - 1).left + 1 < received
  BY DEF OutputIsSettled
<1>3. Between(k - 1).left \in Int /\ Between(k - 1).right = Between(k - 1).left + 1
  BY <1>1, <1>2 DEF Between, OutputPoint
<1> QED BY <1>1, <1>2, <1>3 DEF IsOutput, Lesser

LEMMA OutputsMatch ==
  ASSUME Shaped, NEW out \in Seq(OutputPoint),
         \A k \in 1..Len(out) : IsOutput(out[k], k - 1, received)
  PROVE  \A k \in 1..Len(out) : k <= Len(Complete) => Value(out[k]) = Value(Complete[k])
<1> SUFFICES ASSUME NEW k \in 1..Len(out), k <= Len(Complete)
             PROVE  Value(out[k]) = Value(Complete[k])
  OBVIOUS
<1>1. Len(Complete) \in Nat /\ Len(out) \in Nat
  BY CompleteOutputs
<1>2. IsOutput(Complete[k], k - 1, received)
  BY <1>1, CompleteOutputs
<1> QED BY <1>2, SameOutput

LEMMA UnfinishedMatches ==
  ASSUME Aligned, ~finished
  PROVE  StreamedMatchesComplete
<1>1. CASE In = Out
  BY <1>1, PassedOnMatches DEF Aligned, StreamedMatchesComplete
<1>2. CASE In # Out
  <2>1. Shaped /\ OutputIsSettled /\ output \in Seq(OutputPoint)
    BY <1>2 DEF Aligned, Shaped
  <2>2. \A k \in 1..Len(output) : IsOutput(output[k], k - 1, received)
    BY <2>1, SettledMatches
  <2> QED BY <2>1, <2>2, OutputsMatch DEF StreamedMatchesComplete
<1> QED BY <1>1, <1>2
-----------------------------------------------------------------------------
(* One chunk, at a rate of its own.                                        *)

(* The step: an end of the loop that lies at or after the last sample but  *)
(* before the sample after it has gone out of sight.                       *)
Steps(len) == StepsBefore(position, (len - 1) * Out)
Ahead(len) == position + Steps(len) * In
Consumed(len) == Ahead(len) \div Out

LEMMA DrainIsWhole ==
  ASSUME Shaped, PositionIsGlobal, NEW len \in Nat \ {0}
  PROVE  /\ Steps(len) \in Nat /\ Ahead(len) \in Nat /\ Consumed(len) \in {len - 1, len}
         /\ Rebase(Ahead(len), Consumed(len)) \in Nat
         /\ Rebase(Ahead(len), Consumed(len)) < Out
         /\ Consumed(len) = len => Rebase(Ahead(len), Consumed(len)) < In
<1> DEFINE steps == Steps(len)
           next == Ahead(len)
           consumed == Consumed(len)
           limit == (len - 1) * Out
<1>14. steps = StepsBefore(position, limit) /\ next = position + steps * In /\ consumed = next \div Out
  BY DEF Steps, Ahead, Consumed
<1> HIDE DEF steps, next, consumed
<1>1. In \in Nat \ {0} /\ Out \in Nat \ {0} /\ In <= 2 * Out /\ position \in Nat /\ position < Out
  BY DEF Shaped, PositionIsGlobal, In, Out
<1>2. limit \in Nat /\ len * Out = limit + Out /\ (len + 1) * Out = limit + 2 * Out
  BY <1>1
<1>0. steps = StepsBefore(position, limit) /\ next = position + steps * In
  BY <1>14
<1> HIDE DEF limit
<1>3. steps \in Nat
  BY <1>0, <1>1, <1>2, StepsBeforeLimit
<1>4. /\ position >= limit => steps = 0
      /\ position < limit => steps >= 1 /\ position + (steps - 1) * In < limit
      /\ next >= limit
  <2>1. position >= limit => steps = 0
    BY <1>0, <1>1, <1>2, StepsBeforeLimit
  <2>2. position < limit => steps >= 1
    BY <1>0, <1>1, <1>2, StepsBeforeLimit
  <2>3. position < limit => position + (steps - 1) * In < limit
    BY <1>0, <1>1, <1>2, StepsBeforeLimit
  <2>4. next >= limit
    BY <1>0, <1>1, <1>2, StepsBeforeLimit
  <2> QED BY <2>1, <2>2, <2>3, <2>4
<1>5. steps * In \in Nat /\ (steps - 1) * In = steps * In - In /\ (steps = 0 => steps * In = 0)
  BY <1>1, <1>3
<1>6. next \in Nat /\ next >= limit
  BY <1>0, <1>1, <1>4, <1>5
<1>7. next = position \/ next < limit + In
  BY <1>0, <1>1, <1>2, <1>4, <1>5
<1>8. next < (len + 1) * Out
  BY <1>1, <1>2, <1>6, <1>7
<1>9. /\ consumed \in Nat /\ next % Out \in Nat /\ next % Out < Out
      /\ next = Out * consumed + (next % Out)
  BY <1>1, <1>6, <1>14, Division
<1>10. consumed < len + 1
  BY <1>1, <1>6, <1>8, <1>14, QuotientBelow
<1>11. consumed >= len - 1
  <2> SUFFICES ASSUME consumed + 1 <= len - 1 PROVE FALSE
    BY <1>9
  <2>0. consumed + 1 \in Nat /\ len - 1 \in Int
    BY <1>9
  <2>1. (consumed + 1) * Out <= (len - 1) * Out
    BY <1>1, <2>0, ProductsGrow
  <2>2. (consumed + 1) * Out = Out * consumed + Out
    BY <1>1, <1>9
  <2> QED BY <1>1, <1>6, <1>9, <2>1, <2>2 DEF limit
<1>12. Rebase(next, consumed) = next % Out
  <2> DEFINE product == Out * consumed
             rest == next % Out
  <2>0. consumed \in Int /\ Out \in Int
    BY <1>1, <1>9
  <2>1. /\ consumed * Out = product /\ product \in Int /\ rest \in Nat
        /\ next = product + rest
    <3>1. consumed * Out = product /\ product \in Int
      BY <2>0, ProductsCommute
    <3>2. rest \in Nat /\ next = product + rest
      BY ONLY <1>9
    <3> QED BY <3>1, <3>2
  <2> HIDE DEF product, rest
  <2>2. Rebase(next, consumed) = rest
    BY <2>1 DEF Rebase
  <2> QED BY <2>2 DEF rest
<1>13. ASSUME consumed = len PROVE Rebase(next, consumed) < In
  <2>1. next >= limit + Out
    BY <1>1, <1>2, <1>9, <1>13
  <2>2. next # position
    BY <1>1, <1>2, <2>1
  <2>3. Rebase(next, consumed) = next - (limit + Out)
    BY <1>2, <1>13 DEF Rebase
  <2> QED BY <1>1, <1>2, <1>6, <1>7, <2>2, <2>3
<1>15. consumed \in {len - 1, len}
  BY <1>9, <1>10, <1>11
<1> QED BY <1>3, <1>6, <1>9, <1>12, <1>13, <1>15 DEF steps, next, consumed

(* What was sent on, to the model or to wait for a full chunk.             *)
LEMMA PushFeedsModel ==
  ASSUME Shaped, ModelIsFed, output' \in Seq(OutputPoint), Len(output') >= Len(output),
         Consume(pending + Len(output') - Len(output))
  PROVE  ModelIsFed'
<1> DEFINE n == pending + Len(output') - Len(output)
<1>1. /\ n \in Nat /\ Len(output) \in Nat /\ Len(output') \in Nat
      /\ given + pending = Len(output) /\ given \in Nat /\ pending \in Nat
  BY DEF Shaped, ModelIsFed
<1>2. /\ n \div ModelFrames \in Nat /\ n % ModelFrames \in Nat /\ n % ModelFrames < ModelFrames
      /\ n % ModelFrames <= n
  BY <1>1, ModelAssumption, Division
<1>3. pending' = n % ModelFrames /\ given' = given + (n - (n % ModelFrames))
  BY DEF Consume
<1>4. n = pending + Len(output') - Len(output)
  OBVIOUS
<1> HIDE DEF n
<1> DEFINE r == n % ModelFrames
<1>5. /\ r \in Nat /\ r < ModelFrames /\ r <= n
      /\ pending' = r /\ given' = given + (n - r)
  BY <1>2, <1>3
<1> HIDE DEF r
<1> QED BY <1>1, <1>4, <1>5, ModelAssumption DEF ModelIsFed

LEMMA PushPassesOn ==
  ASSUME Shaped, ModelIsFed, PassedOn, In = Out, NEW n \in Nat \ {0}, Push(n)
  PROVE  Shaped' /\ ModelIsFed' /\ PassedOn' /\ In' = In /\ Out' = Out
<1> DEFINE input == source \o NewSamples(n)
<1>1. /\ output' = output \o PassOn(input)
      /\ source' = <<>> /\ position' = 0 /\ received' = received + n /\ rate' = rate
      /\ Consume(pending + Len(output') - Len(output))
  BY DEF Push
<1>2. /\ source = <<>> /\ Len(output) = received /\ received \in Nat
      /\ output \in Seq(OutputPoint)
      /\ \A k \in 1..Len(output) : output[k] = Exactly(k - 1)
  BY DEF PassedOn, Shaped
<1>3. StartsAt(source, received) /\ received + Len(source) = received
  BY <1>2 DEF StartsAt
<1>4. StartsAt(input, received) /\ Len(input) = n
  BY <1>2, <1>3, InputIsTail
<1>5. /\ input \in Seq(Int)
      /\ \A i \in 1..n : input[i] = received + i - 1
  BY <1>4 DEF StartsAt
<1> HIDE DEF input
<1> DEFINE new == PassOn(input)
<1>6. new = [i \in 1..n |-> [left |-> input[i], right |-> input[i], fraction |-> 0]]
  BY <1>4 DEF PassOn
<1> HIDE DEF new
<1>7. new \in [1..n -> OutputPoint]
  <2>1. ASSUME NEW i \in 1..n
        PROVE  [left |-> input[i], right |-> input[i], fraction |-> 0] \in OutputPoint
    <3>1. input[i] \in Int
      BY <1>4, <1>5
    <3> QED BY <3>1 DEF OutputPoint
  <2> QED BY <1>6, <2>1
<1>8. new \in Seq(OutputPoint) /\ Len(new) = n
  BY <1>6, <1>7
<1>9. output' = output \o new
  BY <1>1 DEF new
<1>10. output' \in Seq(OutputPoint) /\ Len(output') = received + n
  BY <1>2, <1>8, <1>9, Concatenation
<1>11. ASSUME NEW k \in 1..received + n PROVE output'[k] = Exactly(k - 1)
  <2>1. CASE k <= received
    <3>1. output'[k] = output[k]
      BY <1>2, <1>8, <1>9, <2>1, Concatenation
    <3> QED BY <1>2, <2>1, <3>1
  <2>2. CASE k > received
    <3>1. output'[k] = new[k - received]
      BY <1>2, <1>8, <1>9, <2>2, Concatenation
    <3>2. k - received \in 1..n
      BY <1>2, <2>2
    <3>3. input[k - received] = k - 1
      <4>1. input[k - received] = received + (k - received) - 1
        BY <1>5, <3>2
      <4>2. received + (k - received) - 1 = k - 1
        BY <1>2
      <4> QED BY <4>1, <4>2
    <3> QED BY <1>6, <3>1, <3>2, <3>3 DEF Exactly
  <2>3. k <= received \/ k > received
    BY <1>2
  <2> QED BY <2>1, <2>2, <2>3
<1>12. Shaped' /\ In' = In /\ Out' = Out
  BY <1>1, <1>2, <1>10 DEF Shaped, In, Out
<1>13. ModelIsFed'
  BY <1>1, <1>2, <1>10, PushFeedsModel
<1>14. PassedOn'
  BY <1>1, <1>10, <1>11 DEF PassedOn
<1> QED BY <1>12, <1>13, <1>14

LEMMA PushBetweenSamples ==
  ASSUME Shaped, ModelIsFed, PositionIsGlobal, OutputIsSettled, In # Out,
         NEW n \in Nat \ {0}, Push(n)
  PROVE  /\ Shaped' /\ ModelIsFed' /\ PositionIsGlobal' /\ OutputIsSettled'
         /\ In' = In /\ Out' = Out
<1> DEFINE input == source \o NewSamples(n)
           points == Points(input, position, PushLimit(input))
           next == position + Len(points) * In
           consumed == next \div Out
           base == received - Len(source)
           m == Len(output)
           len == Len(source) + n
<1>1. /\ received' = received + n /\ rate' = rate
      /\ output' = output \o points
      /\ source' = SubSeq(input, Lesser(consumed, Len(input)) + 1, Len(input))
      /\ position' = Rebase(next, consumed)
      /\ Consume(pending + Len(output') - Len(output))
  BY DEF Push
<1>2. In' = In /\ Out' = Out
  BY <1>1 DEF In, Out
<1>3. /\ In \in Nat \ {0} /\ Out \in Nat \ {0} /\ received \in Nat /\ position \in Nat
      /\ output \in Seq(OutputPoint) /\ m \in Nat
      /\ Len(source) \in {0, 1} /\ base \in Nat /\ len \in Nat \ {0}
      /\ base + len = received' /\ base + Len(source) = received
      /\ m * In = base * Out + position
  <2>1. /\ In \in Nat \ {0} /\ Out \in Nat \ {0} /\ received \in Nat /\ position \in Nat
        /\ output \in Seq(OutputPoint)
    BY DEF Shaped, In, Out
  <2>2. Len(source) \in {0, 1} /\ Len(source) <= received /\ m \in Nat
    BY <2>1 DEF PositionIsGlobal
  <2>3. base \in Nat /\ len \in Nat \ {0} /\ base + Len(source) = received
    BY <2>1, <2>2
  <2>4. base + len = received'
    BY <1>1, <2>1, <2>2
  <2>5. m * In = base * Out + position
    BY DEF PositionIsGlobal
  <2> QED BY <2>1, <2>2, <2>3, <2>4, <2>5
<1>4. StartsAt(source, base)
  <2> HIDE DEF base
  <2>1. source \in Seq(Int) /\ (Len(source) = 1 => source[1] = received - 1)
    BY DEF Shaped, PositionIsGlobal
  <2>2. ASSUME NEW i \in 1..Len(source) PROVE source[i] = base + i - 1
    <3>0. Len(source) \in {0, 1}
      BY <1>3
    <3>1. Len(source) = 1 /\ i = 1
      <4>1. Len(source) # 0
        <5> SUFFICES ASSUME Len(source) = 0 PROVE FALSE
          OBVIOUS
        <5>1. i \in 1..0
          OBVIOUS
        <5> QED BY ONLY <5>1
      <4>2. Len(source) = 1
        BY <3>0, <4>1
      <4>3. i \in 1..1
        BY <4>2
      <4> QED BY ONLY <4>2, <4>3
    <3>2. received - 1 = base + i - 1
      BY <1>3, <3>1
    <3> QED BY <2>1, <3>1, <3>2
  <2> QED BY <1>3, <2>1, <2>2 DEF StartsAt
<1>5. StartsAt(input, base) /\ Len(input) = len
  BY <1>3, <1>4, InputIsTail
<1> DEFINE limit == (len - 1) * Out
           steps == StepsBefore(position, limit)
<1>6. PushLimit(input) = limit /\ limit <= Len(input) * Out /\ limit \in Nat
  <2>1. limit \in Nat /\ len * Out = limit + Out
    BY <1>3
  <2> QED BY <1>3, <1>5, <2>1 DEF PushLimit
<1>7. /\ points \in Seq(OutputPoint) /\ Len(points) = steps
      /\ \A j \in 1..steps :
           /\ position + (j - 1) * In < limit
           /\ (m + j - 1) * In = base * Out + (position + (j - 1) * In)
           /\ IsOutput(points[j], m + j - 1, base + Len(input))
  <2>1. points = Points(input, position, limit) /\ steps = StepsBefore(position, limit)
    BY <1>6
  <2>3. /\ StartsAt(input, base) /\ position \in Nat /\ limit \in Int
        /\ limit <= Len(input) * Out /\ m \in Nat /\ m * In = base * Out + position
    BY <1>3, <1>5, <1>6
  <2> HIDE DEF input, base, m, limit, points, steps
  <2>2. /\ Points(input, position, limit) \in Seq(OutputPoint)
        /\ Len(Points(input, position, limit)) = StepsBefore(position, limit)
        /\ \A j \in 1..StepsBefore(position, limit) :
             /\ position + (j - 1) * In < limit
             /\ (m + j - 1) * In = base * Out + (position + (j - 1) * In)
             /\ IsOutput(Points(input, position, limit)[j], m + j - 1, base + Len(input))
    BY ONLY Shaped, <2>3, PointsFollow
  <2> QED BY <2>1, <2>2
<1>8. next = position + steps * In
  BY <1>7
<1>9. /\ steps \in Nat /\ next \in Nat /\ consumed \in {len - 1, len}
      /\ Rebase(next, consumed) \in Nat /\ Rebase(next, consumed) < Out
      /\ consumed = len => Rebase(next, consumed) < In
  <2>1. steps = Steps(len) /\ next = Ahead(len) /\ consumed = Consumed(len)
    BY <1>8 DEF Steps, Ahead, Consumed
  <2> HIDE DEF len, next, steps, consumed
  <2> QED BY <1>3, <2>1, DrainIsWhole
<1> HIDE DEF input, points, next, consumed, base, m, len, limit, steps
<1>10. /\ output' \in Seq(OutputPoint) /\ Len(output') = m + steps
       /\ \A k \in 1..m : output'[k] = output[k]
       /\ \A k \in m + 1..m + steps : output'[k] = points[k - m]
  BY <1>1, <1>3, <1>7, Concatenation DEF m
<1>11. source' = SubSeq(input, consumed + 1, len)
  BY <1>1, <1>3, <1>5, <1>9 DEF Lesser
<1>12. /\ source' \in Seq(Int) /\ Len(source') = len - consumed
       /\ Len(source') = 1 => source'[1] = received' - 1
  <2>1. input \in Seq(Int) /\ (\A i \in 1..len : input[i] = base + i - 1)
    BY <1>5 DEF StartsAt
  <2>2. CASE consumed = len
    <3>1. source' = <<>>
      BY <1>3, <1>11, <2>1, <2>2
    <3> QED BY <1>3, <2>2, <3>1
  <2>3. CASE consumed = len - 1
    <3>1. source' = SubSeq(input, len, len)
      BY <1>3, <1>11, <2>3
    <3>2. len \in 1..Len(input)
      BY <1>3, <1>5
    <3>3. /\ SubSeq(input, len, len) \in Seq(Int) /\ Len(SubSeq(input, len, len)) = 1
          /\ SubSeq(input, len, len)[1] = input[len]
      BY <1>3, <2>1, <3>2
    <3>4. input[len] = received' - 1
      BY <1>3, <1>5, <2>1, <3>2
    <3> QED BY <1>3, <2>3, <3>1, <3>3, <3>4
  <2> QED BY <1>9, <2>2, <2>3
<1>13. Shaped'
  BY <1>1, <1>2, <1>3, <1>9, <1>10, <1>12 DEF Shaped, In, Out
<1>14. ModelIsFed'
  BY <1>1, <1>3, <1>9, <1>10, PushFeedsModel DEF m
<1>15. PositionIsGlobal'
  <2>1. Len(output') * In = (received' - Len(source')) * Out + position'
    <3>1. received' - Len(source') = base + consumed
      BY <1>3, <1>9, <1>12
    <3>2. (m + steps) * In = m * In + steps * In
      BY <1>3, <1>9
    <3>3. (base + consumed) * Out = base * Out + consumed * Out
      BY <1>3, <1>9
    <3>4. position' = next - consumed * Out
      BY <1>1 DEF Rebase
    <3> DEFINE a == m * In
               b == base * Out
               c == consumed * Out
               d == steps * In
    <3>5. a \in Int /\ b \in Int /\ c \in Int /\ d \in Int
      BY <1>3, <1>9
    <3>6. a = b + position /\ next = position + d
      BY <1>3, <1>8
    <3>7. (m + steps) * In = a + d /\ (base + consumed) * Out = b + c /\ position' = next - c
      BY <3>2, <3>3, <3>4
    <3> HIDE DEF a, b, c, d
    <3>8. (m + steps) * In = (base + consumed) * Out + position'
      BY <1>3, <3>5, <3>6, <3>7
    <3> QED BY <1>10, <3>1, <3>8
  <2>2. Len(source') \in {0, 1} /\ Len(source') <= received'
    <3>1. consumed = len - 1 \/ consumed = len
      BY <1>9
    <3>2. len >= 1 /\ base + len = received' /\ base \in Nat /\ len \in Nat
      BY <1>3
    <3> QED BY <1>12, <3>1, <3>2
  <2>3. position' < Out /\ (source' = <<>> => position' < In)
    <3>1. source' = <<>> => consumed = len
      BY <1>3, <1>9, <1>12
    <3> QED BY <1>1, <1>9, <3>1
  <2> QED BY <1>2, <1>12, <2>1, <2>2, <2>3 DEF PositionIsGlobal
<1>16. OutputIsSettled'
  <2>1. ASSUME NEW k \in 1..m + steps
        PROVE  output'[k] = Between(k - 1) /\ Between(k - 1).left + 1 < received'
    <3>1. CASE k <= m
      BY <1>1, <1>3, <1>10, <3>1 DEF OutputIsSettled, m, Between
    <3>2. CASE k > m
      <4> DEFINE j == k - m
      <4>1. j \in 1..steps /\ m + j - 1 = k - 1 /\ output'[k] = points[j]
        BY <1>3, <1>9, <1>10, <3>2
      <4> HIDE DEF j
      <4> DEFINE at == position + (j - 1) * In
                 x == (k - 1) * In
      <4>2. /\ at < limit /\ x = base * Out + at
            /\ IsOutput(points[j], k - 1, received')
        <5>1. /\ at < limit /\ (m + j - 1) * In = base * Out + at
              /\ IsOutput(points[j], m + j - 1, base + Len(input))
          BY <1>7, <4>1
        <5> QED BY <1>3, <1>5, <4>1, <5>1
      <4>3. x < (base + (len - 1)) * Out /\ x \in Nat
        <5>1. (base + (len - 1)) * Out = base * Out + limit
          BY <1>3 DEF limit
        <5>2. base * Out \in Nat /\ at \in Nat
          <6>1. j - 1 \in Nat
            BY <1>9, <4>1
          <6>2. (j - 1) * In \in Nat
            BY <1>3, <6>1
          <6> QED BY <1>3, <6>2
        <5> QED BY <1>6, <4>2, <5>1, <5>2
      <4>4. x \div Out < base + (len - 1)
        <5> DEFINE c == base + (len - 1)
        <5>1. c \in Int /\ x < c * Out /\ x \in Nat
          BY <1>3, <4>3
        <5> HIDE DEF x, c
        <5>2. x \div Out < c
          BY <1>3, <5>1, QuotientBelow
        <5> QED BY <5>2 DEF c
      <4>5. x \div Out \in Nat /\ x % Out \in Nat
        <5> HIDE DEF x
        <5> QED BY <1>3, <4>3, Division
      <4> HIDE DEF at
      <4>6. Between(k - 1) = [left |-> x \div Out, right |-> x \div Out + 1, fraction |-> x % Out]
        BY DEF Between
      <4> HIDE DEF x
      <4>7. Between(k - 1).left + 1 < received'
        BY <1>3, <4>4, <4>5, <4>6
      <4>8. IsOutput(Between(k - 1), k - 1, received')
        <5> DEFINE q == x \div Out
                   r == x % Out
        <5>1. /\ q \in Int /\ r \in Int
              /\ Between(k - 1) = [left |-> q, right |-> q + 1, fraction |-> r]
          BY <4>5, <4>6
        <5> HIDE DEF q, r
        <5>2. q + 1 < received' /\ received' \in Int
          BY <1>3, <4>7, <5>1
        <5> QED BY <5>1, <5>2 DEF IsOutput, OutputPoint, Lesser
      <4>9. points[j] = Between(k - 1)
        BY <4>2, <4>8, SameOutput
      <4> QED BY <4>1, <4>7, <4>9
    <3>3. k <= m \/ k > m
      BY <1>3
    <3> QED BY <3>1, <3>2, <3>3
  <2>2. \A k \in 1..Len(output') : Between(k - 1)' = Between(k - 1)
    BY <1>2 DEF Between
  <2> QED BY <1>10, <2>1, <2>2 DEF OutputIsSettled
<1> QED BY <1>2, <1>13, <1>14, <1>15, <1>16

LEMMA PushKeepsAligned ==
  ASSUME Aligned, NEW n \in 1..MaxChunk, Push(n)
  PROVE  Aligned' /\ ~finished'
<1>1. ~finished /\ ~finished'
  BY DEF Push
<1>2. Shaped /\ ModelIsFed /\ n \in Nat \ {0}
  BY <1>1, BoundAssumption DEF Aligned
<1>3. CASE In = Out
  <2>1. PassedOn
    BY <1>1, <1>3 DEF Aligned
  <2>2. Shaped' /\ ModelIsFed' /\ PassedOn' /\ In' = In /\ Out' = Out
    BY <1>2, <1>3, <2>1, PushPassesOn
  <2> QED BY <1>1, <1>3, <2>2 DEF Aligned
<1>4. CASE In # Out
  <2>1. PositionIsGlobal /\ OutputIsSettled
    BY <1>1, <1>4 DEF Aligned
  <2>2. /\ Shaped' /\ ModelIsFed' /\ PositionIsGlobal' /\ OutputIsSettled'
        /\ In' = In /\ Out' = Out
    BY <1>2, <1>4, <2>1, PushBetweenSamples
  <2> QED BY <1>1, <1>4, <2>2 DEF Aligned
<1> QED BY <1>3, <1>4
-----------------------------------------------------------------------------
(* The end of the stream.                                                  *)

(* finish rounds the number of outputs up where resample_complete rounds   *)
(* it down.                                                                *)
LEMMA RoundedUp ==
  ASSUME NEW m \in Nat, NEW b \in Nat \ {0}, NEW x \in Nat, (m - 1) * b < x, x <= m * b
  PROVE  m - (x \div b) \in {0, 1}
<1> DEFINE q == x \div b
<1>1. q \in Nat /\ x % b \in Nat /\ x % b < b /\ x = b * q + (x % b)
  BY Division
<1> DEFINE r == x % b
<1>2. r \in Nat /\ r < b /\ x = b * q + r
  BY <1>1
<1> HIDE DEF q, r
<1>3. q <= m
  <2> SUFFICES ASSUME m + 1 <= q PROVE FALSE
    BY <1>1
  <2>1. (m + 1) * b <= q * b /\ (m + 1) * b = m * b + b
    BY <1>1, ProductsGrow
  <2>2. q * b = b * q /\ m * b \in Int
    BY <1>1, ProductsCommute
  <2> QED BY <1>1, <1>2, <2>1, <2>2
<1>4. m - 1 <= q
  <2> SUFFICES ASSUME q + 1 <= m - 1 PROVE FALSE
    BY <1>1
  <2>1. (q + 1) * b <= (m - 1) * b /\ (q + 1) * b = q * b + b
    BY <1>1, ProductsGrow
  <2>2. q * b = b * q /\ q * b \in Int
    BY <1>1, ProductsCommute
  <2> QED BY <1>1, <1>2, <2>1, <2>2
<1> QED BY <1>1, <1>3, <1>4 DEF q

(* All but the outputs of finish beyond the first were given to the model. *)
LEMMA RestIsGiven ==
  ASSUME Shaped, ModelIsFed, NEW steps \in Nat, output' \in Seq(OutputPoint),
         Len(output') = Len(output) + steps,
         GiveRest(pending + Len(output') - Len(output))
  PROVE  Len(output') - given' <= 0 \/ Len(output') - given' <= steps - 1
<1>1. /\ Len(output) \in Nat /\ pending \in Nat /\ pending < ModelFrames
      /\ given + pending = Len(output) /\ given \in Nat
  BY ModelAssumption DEF Shaped, ModelIsFed
<1>2. pending + Len(output') - Len(output) = pending + steps
  BY <1>1
<1>3. given' = given + Lesser(pending + steps, ModelFrames)
  BY <1>2 DEF GiveRest
<1> QED BY <1>1, <1>3, ModelAssumption DEF Lesser

(* What finish returns when a sample is left.                              *)
LEMMA FinishSteps ==
  ASSUME Shaped, PositionIsGlobal, Len(source) = 1
  PROVE  /\ StepsBefore(position, Out) \in Nat
         /\ StepsBefore(position, Out) - 1 <= (Out - 1) \div In
         /\ position + (StepsBefore(position, Out) - 1) * In < Out
         /\ position + StepsBefore(position, Out) * In >= Out
<1>1. In \in Nat \ {0} /\ Out \in Nat \ {0} /\ position \in Nat /\ position < Out
  BY DEF Shaped, PositionIsGlobal, In, Out
<1> DEFINE steps == StepsBefore(position, Out)
<1>2. steps \in Nat
  BY <1>1, StepsBeforeLimit
<1>3. steps >= 1 /\ position + (steps - 1) * In < Out
  <2>1. steps >= 1
    BY <1>1, StepsBeforeLimit
  <2>2. position + (steps - 1) * In < Out
    BY <1>1, StepsBeforeLimit
  <2> QED BY <2>1, <2>2
<1>4. position + steps * In >= Out
  BY <1>1, StepsBeforeLimit
<1> HIDE DEF steps
<1>5. steps - 1 <= (Out - 1) \div In
  <2> DEFINE q == (Out - 1) \div In
             x == Out - 1
  <2>1. x \in Nat /\ q = x \div In
    BY <1>1
  <2> HIDE DEF q, x
  <2>2. q \in Nat /\ x % In < In /\ x % In \in Nat /\ x = In * q + (x % In)
    BY <1>1, <2>1, Division
  <2> DEFINE r == x % In
  <2>3. r \in Nat /\ r < In /\ x = In * q + r
    BY <2>2
  <2> HIDE DEF r
  <2>4. steps - 1 <= q
    <3> SUFFICES ASSUME q + 1 <= steps - 1 PROVE FALSE
      BY <1>2, <2>2
    <3>1. (q + 1) * In <= (steps - 1) * In /\ (q + 1) * In = q * In + In
      BY <1>1, <1>2, <2>2, ProductsGrow
    <3>2. q * In = In * q /\ q * In \in Int /\ (steps - 1) * In \in Int
      BY <1>1, <1>2, <2>2, ProductsCommute
    <3>3. (steps - 1) * In <= x
      BY <1>1, <1>3, <3>2 DEF x
    <3> QED BY <1>1, <2>1, <2>3, <3>1, <3>2, <3>3
  <2> QED BY <2>4 DEF q
<1> QED BY <1>2, <1>3, <1>4, <1>5 DEF steps

(* Each output of the whole stream is there, and at most one more.         *)
LEMMA FinishBetweenSamples ==
  ASSUME Shaped, PositionIsGlobal, OutputIsSettled, In # Out, Finish
  PROVE  \E steps \in Nat :
           /\ output' \in Seq(OutputPoint) /\ Len(output') = Len(output) + steps
           /\ \A k \in 1..Len(output') : IsOutput(output'[k], k - 1, received)
           /\ (Len(output') - 1) * In < received * Out
           /\ received * Out <= Len(output') * In
           /\ steps - 1 <= (Out - 1) \div In
<1> DEFINE m == Len(output)
<1>1. /\ In \in Nat \ {0} /\ Out \in Nat \ {0} /\ received \in Nat /\ position \in Nat
      /\ output \in Seq(OutputPoint) /\ m \in Nat /\ source \in Seq(Int)
  BY DEF Shaped, In, Out
<1>2. \A k \in 1..m : IsOutput(output[k], k - 1, received)
  BY SettledMatches
<1>3. (m - 1) * In = m * In - In /\ m * In \in Int /\ received * Out \in Nat
  BY <1>1
<1>4. CASE source = <<>>
  <2>1. output' = output
    BY <1>1, <1>4 DEF Finish
  <2>2. m * In = received * Out + position /\ position < In
    <3>1. Len(source) = 0 /\ position < In
      BY <1>4 DEF PositionIsGlobal
    <3>2. m * In = (received - Len(source)) * Out + position
      BY DEF PositionIsGlobal
    <3>3. received - Len(source) = received
      BY <1>1, <3>1
    <3> QED BY <3>1, <3>2, <3>3
  <2>3. (m - 1) * In < received * Out /\ received * Out <= m * In
    BY <1>1, <1>3, <2>2
  <2>4. (Out - 1) \div In \in Nat
    <3>1. Out - 1 \in Nat
      BY <1>1
    <3> QED BY <1>1, <3>1, Division
  <2>5. 0 - 1 <= (Out - 1) \div In /\ m = m + 0
    BY <1>1, <2>4
  <2> HIDE DEF m
  <2>6. /\ output' \in Seq(OutputPoint) /\ Len(output') = m
        /\ \A k \in 1..m : IsOutput(output'[k], k - 1, received)
    BY <1>1, <1>2, <2>1 DEF m
  <2> QED BY <2>3, <2>5, <2>6 DEF m
<1>5. CASE source # <<>>
  <2> DEFINE base == received - 1
             points == Points(source, position, Out)
             steps == StepsBefore(position, Out)
  <2>1. Len(source) = 1 /\ base \in Nat /\ base + 1 = received
    BY <1>1, <1>5 DEF PositionIsGlobal
  <2>2. m * In = base * Out + position
    BY <2>1 DEF PositionIsGlobal
  <2>3. StartsAt(source, base)
    <3>1. source[1] = received - 1
      BY <2>1 DEF PositionIsGlobal
    <3> QED BY <1>1, <2>1, <3>1 DEF StartsAt
  <2>4. FinishLimit(source) = Out /\ Out <= Len(source) * Out
    BY <1>1, <2>1 DEF FinishLimit
  <2>5. output' = output \o points
    BY <1>5, <2>4 DEF Finish
  <2> HIDE DEF base, m
  <2>6. /\ points \in Seq(OutputPoint) /\ Len(points) = steps
        /\ \A j \in 1..steps : IsOutput(points[j], m + j - 1, base + Len(source))
    BY <1>1, <2>2, <2>3, <2>4, PointsFollow
  <2>7. /\ steps \in Nat /\ steps - 1 <= (Out - 1) \div In
        /\ position + (steps - 1) * In < Out /\ position + steps * In >= Out
    BY <2>1, FinishSteps
  <2> HIDE DEF points, steps
  <2>8. /\ output' \in Seq(OutputPoint) /\ Len(output') = m + steps
        /\ \A k \in 1..m : output'[k] = output[k]
        /\ \A k \in m + 1..m + steps : output'[k] = points[k - m]
    BY <1>1, <2>5, <2>6, Concatenation DEF m
  <2>9. ASSUME NEW k \in 1..m + steps PROVE IsOutput(output'[k], k - 1, received)
    <3>1. CASE k <= m
      BY <1>1, <1>2, <2>8, <3>1
    <3>2. CASE k > m
      <4> DEFINE j == k - m
      <4>1. k \in m + 1..m + steps /\ j \in 1..steps /\ m + j - 1 = k - 1
        BY <1>1, <2>7, <2>9, <3>2
      <4>3. output'[k] = points[j]
        BY <2>8, <4>1
      <4> HIDE DEF j
      <4>2. IsOutput(points[j], m + j - 1, base + Len(source))
        BY <2>6, <4>1
      <4> QED BY <2>1, <4>1, <4>2, <4>3
    <3>3. k <= m \/ k > m
      BY <1>1
    <3> QED BY <3>1, <3>2, <3>3
  <2>10. (m + steps - 1) * In < received * Out /\ received * Out <= (m + steps) * In
    <3> DEFINE a == m * In
               b == base * Out
               c == steps * In
    <3>1. a \in Int /\ b \in Int /\ c \in Int
      BY <1>1, <2>1, <2>7
    <3>2. (m + steps - 1) * In = a + c - In /\ (m + steps) * In = a + c
      BY <1>1, <2>7
    <3>3. received * Out = b + Out
      <4>1. received * Out = (base + 1) * Out
        BY <2>1
      <4>2. (base + 1) * Out = base * Out + Out
        BY <1>1, <2>1
      <4> QED BY <4>1, <4>2
    <3>4. (steps - 1) * In = c - In
      BY <1>1, <2>7
    <3> HIDE DEF a, b, c
    <3>5. a = b + position /\ position + (c - In) < Out /\ position + c >= Out
      BY <2>2, <2>7, <3>4 DEF a, b, c
    <3> QED BY <1>1, <3>1, <3>2, <3>3, <3>5
  <2> QED BY <2>7, <2>8, <2>9, <2>10 DEF m
<1> QED BY <1>4, <1>5

LEMMA FinishMatches ==
  ASSUME Aligned, Finish
  PROVE  Aligned' /\ StreamedMatchesComplete'
<1>1. ~finished /\ finished'
  BY DEF Finish
<1>2. Shaped /\ ModelIsFed
  BY <1>1 DEF Aligned
<1>3. /\ rate' = rate /\ received' = received /\ position' = position /\ source' = <<>>
      /\ GiveRest(pending + Len(output') - Len(output))
  BY DEF Finish
<1>4. Complete' = Complete /\ In' = In /\ Out' = Out
  BY <1>3 DEF Complete, Whole, Interpolate, In, Out
<1>5. In \in Nat \ {0} /\ Out \in Nat \ {0} /\ Len(Complete) \in Nat /\ received \in Nat
  BY <1>2, CompleteOutputs DEF Shaped, In, Out
<1>6. SUFFICES
        /\ output' \in Seq(OutputPoint)
        /\ \A k \in 1..Len(output') :
             k <= Len(Complete) => Value(output'[k]) = Value(Complete[k])
        /\ Len(output') - Len(Complete) \in {0, 1}
        /\ Len(output') - given' <= (Out - 1) \div In
  BY <1>1, <1>2, <1>3, <1>4, <1>6 DEF Aligned, Shaped, StreamedMatchesComplete, In, Out
<1>7. (Out - 1) \div In \in Nat
  <2>1. Out - 1 \in Nat
    BY <1>5
  <2> QED BY <1>5, <2>1, Division
<1>8. CASE In = Out
  <2>1. PassedOn
    BY <1>1, <1>8 DEF Aligned
  <2>2. output' = output /\ output \in Seq(OutputPoint) /\ Len(output) \in Nat
    BY <1>2, <2>1 DEF Finish, PassedOn, Shaped
  <2>3. Len(Complete) = Len(output)
    BY <1>2, <1>8, <2>1, CompleteOutputs DEF PassedOn
  <2>4. Len(output') - given' <= 0
    <3>1. Len(output') = Len(output) + 0
      BY <2>2
    <3>2. Len(output') - given' <= 0 \/ Len(output') - given' <= 0 - 1
      BY <1>2, <1>3, <2>2, <3>1, RestIsGiven
    <3>3. given' \in Int
      BY <1>2, <1>3, <2>2, ModelAssumption DEF GiveRest, ModelIsFed, Lesser
    <3> QED BY <2>2, <3>2, <3>3
  <2>5. given' \in Int
    BY <1>2, <1>3, <2>2, ModelAssumption DEF GiveRest, ModelIsFed, Lesser
  <2>6. Len(output') - given' <= (Out - 1) \div In
    BY <1>7, <2>2, <2>4, <2>5
  <2>7. \A k \in 1..Len(output) :
          k <= Len(Complete) => Value(output[k]) = Value(Complete[k])
    BY <1>2, <1>8, <2>1, PassedOnMatches
  <2> QED BY <2>2, <2>3, <2>6, <2>7
<1>9. CASE In # Out
  <2>1. PositionIsGlobal /\ OutputIsSettled
    BY <1>1, <1>9 DEF Aligned
  <2>2. PICK steps \in Nat :
          /\ output' \in Seq(OutputPoint) /\ Len(output') = Len(output) + steps
          /\ \A k \in 1..Len(output') : IsOutput(output'[k], k - 1, received)
          /\ (Len(output') - 1) * In < received * Out
          /\ received * Out <= Len(output') * In
          /\ steps - 1 <= (Out - 1) \div In
    BY <1>2, <1>9, <2>1, FinishBetweenSamples
  <2>3. \A k \in 1..Len(output') :
          k <= Len(Complete) => Value(output'[k]) = Value(Complete[k])
    BY <1>2, <2>2, OutputsMatch
  <2>4. Len(output') - Len(Complete) \in {0, 1}
    <3>1. Len(Complete) = (received * Out) \div In
      BY <1>2, <1>9, CompleteOutputs
    <3>2. received * Out \in Nat /\ Len(output') \in Nat
      BY <1>5, <2>2
    <3> QED BY <1>5, <2>2, <3>1, <3>2, RoundedUp
  <2>5. given' \in Int /\ Len(output') \in Nat
    BY <1>2, <1>3, <2>2, ModelAssumption DEF GiveRest, ModelIsFed, Lesser, Shaped
  <2>6. Len(output') - given' <= 0 \/ Len(output') - given' <= steps - 1
    BY <1>2, <1>3, <2>2, RestIsGiven
  <2>7. Len(output') - given' <= (Out - 1) \div In
    BY <1>7, <2>2, <2>5, <2>6
  <2> QED BY <2>2, <2>3, <2>4, <2>7
<1> QED BY <1>8, <1>9
-----------------------------------------------------------------------------
(* The theorem.                                                            *)

(* A finished stream changes no more, so what holds of it then is kept.    *)
Matches == Aligned /\ (finished => StreamedMatchesComplete)

LEMMA InitMatches ==
  ASSUME AtMostTwice, Init
  PROVE  Matches
<1>1. rate \in (Nat \ {0}) \X (Nat \ {0}) /\ rate[1] <= 2 * rate[2]
  BY RateAssumption DEF Init, AtMostTwice
<1>2. In \in Nat \ {0} /\ Out \in Nat \ {0} /\ In <= 2 * Out
  BY <1>1 DEF In, Out
<1>3. /\ received = 0 /\ source = <<>> /\ position = 0 /\ output = <<>>
      /\ pending = 0 /\ given = 0 /\ finished = FALSE
  BY DEF Init
<1>4. Shaped /\ ModelIsFed
  BY <1>1, <1>2, <1>3, ModelAssumption DEF Shaped, ModelIsFed
<1>5. PositionIsGlobal
  <2>1. Len(output) = 0 /\ Len(source) = 0
    BY <1>3
  <2>2. 0 * In = (0 - 0) * Out + 0
    BY <1>2
  <2> QED BY <1>2, <1>3, <2>1, <2>2 DEF PositionIsGlobal
<1>6. OutputIsSettled /\ PassedOn
  BY <1>3 DEF OutputIsSettled, PassedOn
<1> QED BY <1>3, <1>4, <1>5, <1>6 DEF Matches, Aligned

LEMMA StepMatches ==
  ASSUME Matches, [Next]_vars
  PROVE  Matches'
<1>1. CASE Finish
  BY <1>1, FinishMatches DEF Matches
<1>2. ASSUME NEW n \in 1..MaxChunk, Push(n) PROVE Matches'
  BY <1>2, PushKeepsAligned DEF Matches
<1>3. CASE UNCHANGED vars
  BY <1>3 DEF vars, Matches, Aligned, Shaped, ModelIsFed, PositionIsGlobal, OutputIsSettled,
    PassedOn, StreamedMatchesComplete, Complete, Whole, Interpolate, Between, Exactly, In, Out
<1> QED BY <1>1, <1>2, <1>3 DEF Next

(* At every rate of up to twice the model's, for a stream of any length    *)
(* cut into any chunks: what push and finish return is what                *)
(* resample_complete makes of the whole buffer, and the model gets it.     *)
THEOREM StreamIsResampledWhole ==
  ASSUME AtMostTwice
  PROVE  Spec => []StreamedMatchesComplete
<1>1. Init => Matches
  BY InitMatches
<1>2. Matches /\ [Next]_vars => Matches'
  BY StepMatches
<1>3. Matches => StreamedMatchesComplete
  BY UnfinishedMatches DEF Matches
<1> QED BY <1>1, <1>2, <1>3, PTL DEF Spec
=============================================================================
