------------------------------ MODULE MCTrees ------------------------------
EXTENDS TreeCursors

CONSTANTS old, new

\* In a page that has room for 3: one key larger than half of it, two of which only
\* one fits into a parent, and some that go into overflows.
Sizes == [k \in Keys |-> <<4, 3, 2, 4, 2, 2>>[k]]

\* A large segment, and then a small one that replaces and deletes.
TwoWrites == <<[pairs |-> 6, entries |-> {old}],
               [pairs |-> 2, entries |-> {new, Tombstone}]>>
=============================================================================
