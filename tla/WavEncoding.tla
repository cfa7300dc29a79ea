---------------------------- MODULE WavEncoding ----------------------------
(***************************************************************************)
(* The audio of one native synthesis as a WAV payload.  AVSpeech hands the *)
(* adapter buffers; each may hold its samples interleaved in one plane or  *)
(* one channel to a plane, and need not be as long as it says.             *)
(*                                                                         *)
(* A buffer is a record [rate, channels, format, interleaved, frames,      *)
(* planes, last]: its sample rate in tenths of a hertz (0 when it is not   *)
(* finite), and its planes as sequences of bytes, which are never looked   *)
(* into.  The header keeps the fields that are computed.                   *)
(***************************************************************************)
EXTENDS Naturals, SequencesExt

CONSTANTS
  Bytes,    (* what a sample is made of                                    *)
  U16Max,   (* stands for u16::MAX                                         *)
  U32Max    (* stands for u32::MAX                                         *)

ASSUME WidthAssumption == U16Max \in Nat /\ U32Max \in Nat /\ 64 <= U16Max /\ U16Max <= U32Max

Buffers ==
  [rate : Nat, channels : Nat, format : STRING, interleaved : BOOLEAN,
   frames : Nat, planes : Seq(Seq(Bytes)), last : BOOLEAN]

(* The WAV format tag and the bytes of a sample, by common format.         *)
SampleFormat ==
  [PcmInt16 |-> [tag |-> 1, width |-> 2], PcmInt32 |-> [tag |-> 1, width |-> 4],
   PcmFloat32 |-> [tag |-> 3, width |-> 4], PcmFloat64 |-> [tag |-> 3, width |-> 8]]

Width(buffer) == SampleFormat[buffer.format].width

RateAccepted(rate) == 10 <= rate /\ rate <= 10 * U32Max

RoundedRate(rate) == (rate + 5) \div 10

SameAudioFormat(buffer, first) ==
  /\ RoundedRate(buffer.rate) = RoundedRate(first.rate)
  /\ buffer.channels = first.channels
  /\ buffer.format = first.format

(* The planes hold every sample the buffer says it has.                    *)
HoldsItsFrames(buffer) ==
  LET bytes == Width(buffer) * buffer.frames IN
  IF buffer.interleaved
    THEN buffer.planes # << >> /\ Len(buffer.planes[1]) >= bytes * buffer.channels
    ELSE /\ Len(buffer.planes) >= buffer.channels
         /\ \A c \in 1..buffer.channels : Len(buffer.planes[c]) >= bytes

(* One channel after the other.                                            *)
PlanarBytes(buffer) ==
  LET bytes == Width(buffer) * buffer.frames IN
  IF buffer.interleaved
    THEN SubSeq(buffer.planes[1], 1, bytes * buffer.channels)
    ELSE FlattenSeq([c \in 1..buffer.channels |-> SubSeq(buffer.planes[c], 1, bytes)])

(* What a buffer that holds its frames adds to the samples.                *)
InterleavedBytes(buffer) ==
  LET width == Width(buffer)
      Sample(f, c) == SubSeq(buffer.planes[c], (f - 1) * width + 1, f * width)
  IN  IF buffer.interleaved
        THEN SubSeq(buffer.planes[1], 1, width * buffer.channels * buffer.frames)
        ELSE FlattenSeq([f \in 1..buffer.frames |->
               FlattenSeq([c \in 1..buffer.channels |-> Sample(f, c)])])

(* Why the loop over the buffers stops at one of them, or "None".          *)
BufferRefusal(buffer, first) ==
  IF ~RateAccepted(buffer.rate) THEN "audio_buffer_invalid"
  ELSE IF ~SameAudioFormat(buffer, first) THEN "audio_format_changed"
  ELSE IF ~HoldsItsFrames(buffer) THEN "audio_buffer_invalid"
  ELSE "None"

(* The frames of the first n buffers.                                      *)
FramesOf(buffers) ==
  LET sum[n \in 0..Len(buffers)] == IF n = 0 THEN 0 ELSE sum[n - 1] + buffers[n].frames
  IN  sum

Wav(buffers) ==
  LET first == buffers[1]
      rate == RoundedRate(first.rate)
      samples == FlattenSeq([i \in DOMAIN buffers |-> InterleavedBytes(buffers[i])])
      frames == FramesOf(buffers)[Len(buffers)]
      block_align == first.channels * Width(first)
  IN  [tag |-> SampleFormat[first.format].tag, channels |-> first.channels,
       sample_rate |-> rate, byte_rate |-> rate * block_align, block_align |-> block_align,
       bits_per_sample |-> 8 * Width(first), data_len |-> Len(samples),
       riff_len |-> 36 + Len(samples), samples |-> samples,
       duration_ms |-> (frames * 1000) \div rate]

(* The fields of the header do not overflow.                               *)
FitsHeader(wav) ==
  /\ wav.block_align <= U16Max
  /\ wav.byte_rate <= U32Max
  /\ wav.riff_len <= U32Max

(* Why the buffers are not encoded, or "None".                             *)
WavRefusal(buffers) ==
  IF buffers = << >> THEN "audio_empty" ELSE
  LET first == buffers[1]
      stopped == SelectInSeq(buffers, LAMBDA b : BufferRefusal(b, first) # "None")
  IN  IF ~RateAccepted(first.rate) THEN "audio_buffer_invalid"
      ELSE IF first.channels > U16Max THEN "channel_count_invalid"
      ELSE IF first.format \notin DOMAIN SampleFormat THEN "audio_format_unsupported"
      ELSE IF stopped # 0 THEN BufferRefusal(buffers[stopped], first)
      ELSE IF ~FitsHeader(Wav(buffers)) THEN "wav_size_overflow"
      ELSE "None"
-----------------------------------------------------------------------------
(* Byte k of a sample, looked up where the buffer keeps it.                *)
SampleByte(buffer, frame, channel, k) ==
  IF buffer.interleaved
    THEN buffer.planes[1][((frame - 1) * buffer.channels + channel - 1) * Width(buffer) + k]
    ELSE buffer.planes[channel][(frame - 1) * Width(buffer) + k]

(* Every sample of every buffer is in the payload once, whole, in the      *)
(* order of time and then of channel, whatever the layout of its buffer;   *)
(* and the header agrees with the payload within the width of its fields.  *)
IsWhole(wav, buffers) ==
  LET FramesBefore(i) == FramesOf(buffers)[i - 1]
      total == FramesOf(buffers)[Len(buffers)]
  IN  /\ \A i \in DOMAIN buffers :
           LET buffer == buffers[i] IN
           \A f \in 1..buffer.frames, c \in 1..buffer.channels, k \in 1..Width(buffer) :
             wav.samples[((FramesBefore(i) + f - 1) * wav.channels + c - 1)
                           * (wav.bits_per_sample \div 8) + k]
               = SampleByte(buffer, f, c, k)
      /\ wav.data_len = total * wav.block_align
      /\ wav.data_len = Len(wav.samples)
      /\ wav.data_len < wav.riff_len /\ wav.riff_len <= U32Max
      /\ wav.channels <= U16Max /\ wav.block_align <= U16Max /\ wav.byte_rate <= U32Max
      /\ wav.duration_ms * wav.sample_rate <= total * 1000
      /\ total * 1000 < (wav.duration_ms + 1) * wav.sample_rate
=============================================================================
