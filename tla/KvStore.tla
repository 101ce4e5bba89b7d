------------------------------ MODULE KvStore ------------------------------
(***************************************************************************)
(* What the LSM library promises its callers: a map from keys to values    *)
(* that a committed segment updates in one step, its tombstones removing   *)
(* keys.  Merges, levels and pages do not exist at this level.             *)
(***************************************************************************)
EXTENDS Pairs

VARIABLES store,     \* the living value of every key, Absent when it has none
          last       \* the batch written last: no other change is ever made

vars == <<store, last>>

Init == store = NoPairs /\ last = NoPairs

Write(batch) ==
    /\ store' = Living(Overlay(batch, store))
    /\ last' = batch

Next == \E batch \in PairSet : KeysOf(batch) # {} /\ Write(batch)

Spec == Init /\ [][Next]_vars
=============================================================================
