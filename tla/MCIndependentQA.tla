--------------------------- MODULE MCIndependentQA ---------------------------
\* Instance: tests are alike, and so are contracts.
EXTENDS IndependentQA
Alike == Permutations(Tests) \union Permutations(Contracts) \union Permutations(Defects)
=============================================================================
