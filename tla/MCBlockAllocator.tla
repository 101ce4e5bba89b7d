-------------------------- MODULE MCBlockAllocator --------------------------
EXTENDS BlockAllocator, TLC

Symmetry == Permutations(Writer)

\* The rest of the header fills exactly the block it is given.
FullBlock == {[pages |-> PagesPerBlock, whole |-> TRUE]}

\* The rest of the header is shorter than a page.
PartOfPage == {[pages |-> 1, whole |-> FALSE]}
=============================================================================
