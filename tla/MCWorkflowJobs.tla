--------------------------- MODULE MCWorkflowJobs ---------------------------
(* Model-checking instance of WorkflowJobs: workers, API threads and the    *)
(* NULL owner are model values.                                             *)
EXTENDS WorkflowJobs, TLC

WorkerSymmetry == Permutations(Workers)
=============================================================================
