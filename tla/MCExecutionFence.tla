-------------------------- MODULE MCExecutionFence --------------------------
(* Model-checking instance of ExecutionFence; fence.cfg gives its constants *)
(* their values.                                                            *)
EXTENDS ExecutionFence
=============================================================================
