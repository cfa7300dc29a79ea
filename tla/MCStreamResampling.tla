------------------------- MODULE MCStreamResampling ------------------------
(* Small instances of StreamResampling for TLC.  A pair stands for a ratio *)
(* of rates: <<1, 2>> is 8 kHz, <<3, 2>> 24 kHz, <<2, 1>> 32 kHz and       *)
(* <<3, 1>> 48 kHz.                                                        *)
EXTENDS StreamResampling

UpToTwice == {<<1, 2>>, <<1, 1>>, <<3, 2>>, <<11, 8>>, <<2, 1>>}
Thrice == {<<3, 1>>}
=============================================================================
