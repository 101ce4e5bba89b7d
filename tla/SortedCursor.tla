---------------------------- MODULE SortedCursor ----------------------------
(***************************************************************************)
(* What a cursor promises: it stands on a key of a sorted set of keys, or  *)
(* nowhere, and each call moves it by the order of the keys alone, however *)
(* it got where it is.  ISeekableCursor in lsm/src/lib.rs.                 *)
(***************************************************************************)
EXTENDS Integers

CONSTANTS Keys,    \* the keys there can be, integers
          Nowhere  \* not a key: the cursor is not valid

VARIABLES keys,  \* the keys it walks over
          at,    \* where it stands
          call   \* the last call, with the result of a seek

Least(S) == IF S = {} THEN Nowhere ELSE CHOOSE k \in S : \A m \in S : k <= m
Greatest(S) == IF S = {} THEN Nowhere ELSE CHOOSE k \in S : \A m \in S : k >= m

SeekOp == {"EQ", "LE", "GE"}

Target(k, op) ==
    CASE op = "EQ" -> IF k \in keys THEN k ELSE Nowhere
      [] op = "LE" -> Greatest({m \in keys : m <= k})
      [] op = "GE" -> Least({m \in keys : m >= k})

SeekResult(k, target) ==
    IF target = Nowhere THEN "invalid" ELSE IF target = k THEN "equal" ELSE "unequal"

Open == at' = Nowhere /\ call' = <<"open">>

FirstKey == at' = Least(keys) /\ call' = <<"first">> /\ UNCHANGED keys
LastKey == at' = Greatest(keys) /\ call' = <<"last">> /\ UNCHANGED keys

\* next and prev are called on a cursor that is valid.
NextKey == /\ at # Nowhere /\ at' = Least({k \in keys : k > at})
           /\ call' = <<"next">> /\ UNCHANGED keys
PrevKey == /\ at # Nowhere /\ at' = Greatest({k \in keys : k < at})
           /\ call' = <<"prev">> /\ UNCHANGED keys

Seek == \E k \in Keys, op \in SeekOp :
    /\ at' = Target(k, op)
    /\ call' = <<"seek", k, op, SeekResult(k, Target(k, op))>>
    /\ UNCHANGED keys

Init == keys = {} /\ at = Nowhere /\ call = <<"open">>

Next == Open \/ FirstKey \/ LastKey \/ NextKey \/ PrevKey \/ Seek

Spec == Init /\ [][Next]_<<keys, at, call>>
=============================================================================
