--------------------------- MODULE MCCollections ---------------------------
EXTENDS Collections, TLC

Symmetry == Permutations(Name) \cup Permutations(Value)
=============================================================================
