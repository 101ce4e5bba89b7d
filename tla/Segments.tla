------------------------------ MODULE Segments ------------------------------
(***************************************************************************)
(* What a segment and the one behind it promise, without their pages: pairs *)
(* are written to the first and promoted, some keys at a time, to the      *)
(* second, where they shadow what is there.                                *)
(***************************************************************************)
EXTENDS Pairs

VARIABLES upper,  \* the pairs of the segment that is promoted
          lower   \* the pairs of the segment behind it

Init == upper = NoPairs /\ lower = NoPairs

Write == upper = NoPairs /\ upper' \in PairSet /\ lower' = lower

Stays(k) == upper'[k] = upper[k] /\ lower'[k] = lower[k]

\* A tombstone may be dropped; what it shadows is gone all the same.
Moves(k) ==
    /\ upper[k] # Absent /\ upper'[k] = Absent
    /\ lower'[k] = upper[k] \/ (upper[k] = Tombstone /\ lower'[k] = Absent)

Promote == \A k \in Keys : Stays(k) \/ Moves(k)

Next == Write \/ Promote

Spec == Init /\ [][Next]_<<upper, lower>>
=============================================================================
