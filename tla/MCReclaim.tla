----------------------------- MODULE MCReclaim -----------------------------
EXTENDS Reclaim, TLC

\* Pages, readers and merge threads are interchangeable.
Symmetry == Permutations(Page) \cup Permutations(Reader) \cup Permutations(Merger)
=============================================================================
