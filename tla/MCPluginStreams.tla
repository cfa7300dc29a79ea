-------------------------- MODULE MCPluginStreams --------------------------
(* Small instances of PluginStreams for TLC.                               *)
EXTENDS PluginStreams

CONSTANTS id1, id2, c1

TwoIds == {id1, id2}
OneCaller == {c1}
=============================================================================
