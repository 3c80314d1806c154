--------------------------- MODULE MCBuildPipeline ---------------------------
(* BuildPipeline on small instances. *)
EXTENDS BuildPipeline, TLC
CallerSymmetry == Permutations(Callers)
=============================================================================
