------------------------------- MODULE Pairs -------------------------------
(***************************************************************************)
(* Key/value data as the LSM library sees it.  A segment is a sorted       *)
(* sequence of pairs; a pair holds a value or a tombstone.  Here the pairs *)
(* of a segment are a function from Keys, Absent where it has no pair.     *)
(* Keys are integers because promotion takes a contiguous range of them.   *)
(***************************************************************************)
EXTENDS Integers, Sequences

CONSTANTS Keys,       \* the keys, integers: only their order matters
          Values,     \* the values a pair can hold
          Tombstone,  \* ValueForStorage::Tombstone
          Absent      \* no pair for the key

ASSUME PairsAssumption ==
    /\ Keys \subseteq Int
    /\ Tombstone \notin Values
    /\ Absent \notin Values
    /\ Tombstone # Absent

Entry == Values \cup {Tombstone, Absent}
PairSet == [Keys -> Entry]

NoPairs == [k \in Keys |-> Absent]
KeysOf(p) == {k \in Keys : p[k] # Absent}
HasTombstone(p) == \E k \in Keys : p[k] = Tombstone

\* One segment in front of another: its pair for a key, a tombstone too, shadows.
Overlay(front, back) ==
    [k \in Keys |-> IF front[k] # Absent THEN front[k] ELSE back[k]]

\* Only the keys of K: the leaves that are promoted, or those that survive.
Only(p, K) == [k \in Keys |-> IF k \in K THEN p[k] ELSE Absent]

\* What LivingCursor lets through: it steps over tombstones.
Living(p) == [k \in Keys |-> IF p[k] = Tombstone THEN Absent ELSE p[k]]

\* The pair for k in a sequence of segments, the front one that has it winning.
FrontIndex(segs, k) ==
    CHOOSE i \in DOMAIN segs :
        /\ segs[i].pairs[k] # Absent
        /\ \A j \in DOMAIN segs : j < i => segs[j].pairs[k] = Absent

Lookup(segs, k) ==
    IF \A i \in DOMAIN segs : segs[i].pairs[k] = Absent
    THEN Absent
    ELSE segs[FrontIndex(segs, k)].pairs[k]

\* The pairs a cursor over all of segs yields: MultiCursor and MergeCursor.
Merged(segs) == [k \in Keys |-> Lookup(segs, k)]
=============================================================================
