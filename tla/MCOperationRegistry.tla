------------------------ MODULE MCOperationRegistry ------------------------
(* Small instances of OperationRegistry for TLC.                           *)
EXTENDS OperationRegistry, TLC

CONSTANTS id1, id2   (* two request ids *)

Ids == {id1, id2}
IdSymmetry == Permutations(Ids)
=============================================================================
