----------------------------- MODULE MCCursors -----------------------------
EXTENDS Cursors

\* Three small segments without tombstones, and two larger ones with tombstones.
Entries(list, e) ==
    Cardinality({ik \in (DOMAIN list) \X Keys : list[ik[1]][ik[2]] = e})

ThreeSegments ==
    {list \in [1..3 -> [Keys -> {Live, Absent}]] :
        /\ Entries(list, Live) \in 3..5
        /\ \A i \in 1..3 : \A k \in Keys : k = 4 => list[i][k] = Absent}

TwoSegments ==
    {list \in [1..2 -> [Keys -> {Live, Tombstone, Absent}]] :
        /\ Entries(list, Tombstone) \in 1..2 /\ Entries(list, Live) \in 3..4
        /\ \A k \in Keys : list[2][k] # Tombstone}

OneSegment == {<<s>> : s \in [Keys -> {Live, Tombstone, Absent}]}

Lists == ThreeSegments \cup TwoSegments \cup OneSegment

SomeRanges == {<<1, 3>>, <<2, 4>>, <<3, 3>>}

\* Two keys with one prefix.
Prefixes == [k \in Keys |-> (k \div 2) * 2]
=============================================================================
