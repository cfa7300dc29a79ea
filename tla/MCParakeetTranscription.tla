---------------------- MODULE MCParakeetTranscription ----------------------
(* Small instances of ParakeetTranscription for TLC.                       *)
EXTENDS ParakeetTranscription

CONSTANT p1

OnePusher == {p1}
=============================================================================
