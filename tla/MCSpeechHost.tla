---------------------------- MODULE MCSpeechHost ---------------------------
(* Small instances of SpeechHost for TLC.                                  *)
EXTENDS SpeechHost

CONSTANTS id1, b1, x1, s1

OneId == {id1}
OneBackend == {b1}
OneCanceller == {x1}
OneCaller == {s1}
NoOne == {}
Finals == {"Completed", "Cancelled"}
Completes == {"Completed"}
IsCancelled == {"Cancelled"}
=============================================================================
