--------------------------- MODULE MCEngineeringLoop ---------------------------
(* Instances of EngineeringLoop for TLC: version 0 answers the inherited probe but is *)
(* not what was asked for, 1 builds and lost it, 2 does not build.                    *)
EXTENDS EngineeringLoop, TLC
AllAnswers == [v \in Versions |-> IF v = 1 THEN Probes \ {"old"} ELSE Probes]
AnyWorker == Permutations(Workers)
Inherited == [code |-> 0, probes |-> {"old"}]
=============================================================================
