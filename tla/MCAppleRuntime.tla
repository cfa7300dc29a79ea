--------------------------- MODULE MCAppleRuntime ---------------------------
(* Small instances of AppleRuntime for TLC.                                *)
EXTENDS AppleRuntime

CONSTANTS id1, id2, c1, c2, p1, s1

TwoIds == {id1, id2}
TwoCalls == {c1, c2}
Apart == [c \in TwoCalls |-> IF c = c1 THEN id1 ELSE id2]
OneProbe == {p1}
OneCaller == {s1}

(* A plane of so many bytes, each known by its place.                      *)
SomeBytes == (0..2) \X (1..48)
Plane(name, size) == [i \in 1..size |-> <<name, i>>]

Planar(rate, channels, format, frames, sizes) ==
  [rate |-> rate, channels |-> channels, format |-> format, interleaved |-> FALSE,
   frames |-> frames, planes |-> [c \in DOMAIN sizes |-> Plane(c, sizes[c])], last |-> FALSE]

Interleaved(rate, channels, format, frames, size) ==
  [rate |-> rate, channels |-> channels, format |-> format, interleaved |-> TRUE,
   frames |-> frames, planes |-> <<Plane(0, size)>>, last |-> FALSE]

Stereo == Planar(30, 2, "PcmInt16", 2, <<4, 5>>)
StereoTogether == Interleaved(34, 2, "PcmInt16", 3, 12)
Ends == [Stereo EXCEPT !.last = TRUE]

(* Sound audio in both layouts, with a marker of its end; no audio; a      *)
(* plane that is short; a change of the channels; and the sizes that       *)
(* overflow the block alignment, the byte rate and the RIFF length.        *)
SomeUtterances == {
  <<Stereo, StereoTogether, Ends>>,
  <<Ends>>,
  <<Stereo, Planar(30, 2, "PcmInt16", 2, <<4, 3>>)>>,
  <<Stereo, [Stereo EXCEPT !.channels = 1]>>,
  <<Interleaved(10, 40, "PcmInt16", 0, 0)>>,
  <<Planar(190, 1, "PcmInt32", 0, <<0>>)>>,
  <<Interleaved(10, 2, "PcmFloat64", 3, 48)>>}
=============================================================================
