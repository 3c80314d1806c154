---------------------------- MODULE MCWorkMemory ----------------------------
\* Instance: a full check includes the quick one; file f has Length[f] lines.
EXTENDS WorkMemory
Inclusions == [c \in Checks |-> IF c = "full" THEN {"quick"} \intersect Checks ELSE {}]
Length == <<2, 1>>
=============================================================================
