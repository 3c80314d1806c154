----------------------------- MODULE MCAuthoring -----------------------------
(* Authoring on a small instance: callers and documents are model values. *)
EXTENDS Authoring, TLC
Alike == Permutations(Callers) \union Permutations(Documents)
=============================================================================
