---------------------------- MODULE MCRunnerSlot ----------------------------
(* RunnerSlot on a small instance.                                          *)
EXTENDS RunnerSlot
=============================================================================
