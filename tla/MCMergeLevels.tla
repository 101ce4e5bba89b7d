--------------------------- MODULE MCMergeLevels ---------------------------
EXTENDS MergeLevels, TLC

Symmetry == Permutations(Writer)

\* Whatever reaches a regular level is merged into the next one, except that
\* the level before the last never holds enough.
Sizes == [l \in Regular |-> IF l < Last - 1 THEN 1 ELSE MaxCommits * 2 + 1]

\* The second segment may be a parent, those before and after it are leaves; or all are.
SecondMayBeParent == [n \in 1..MaxCommits |-> IF n = 2 THEN SegmentKind ELSE {LeafSegment}]
Leaves == [n \in 1..MaxCommits |-> {LeafSegment}]

\* Every level is merged as soon as it holds anything.
SmallSizes == [l \in Regular |-> 1]

\* A file with something in waiting and in the first regular level, which are both
\* desperate when DesperateWaiting and DesperateFactor are 0, and an empty one.
Levels(segments, n) ==
    [incoming |-> <<>>, waiting |-> segments, tombstones |-> {},
     regular |-> [l \in Regular |-> IF l = 0 THEN n ELSE 0]]
TwoFiles == {Levels(<<>>, 0), Levels(<<LeafSegment>>, 1)}
=============================================================================
