-------------------------- MODULE MCTaskSupervisor -------------------------
(* Small instances of TaskSupervisor for TLC.                              *)
EXTENDS TaskSupervisor

CONSTANT w1   (* a caller of wait_for_idle *)

OneWaiter == {w1}
=============================================================================
