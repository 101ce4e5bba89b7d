------------------------------ MODULE Cursors ------------------------------
(***************************************************************************)
(* Cursors over several segments: lsm/src/lib.rs, MultiCursor with its     *)
(* LivingCursor, RangeCursor and PrefixCursor for readers, MergeCursor for *)
(* merges.                                                                 *)
(*                                                                         *)
(* Under each is one cursor per segment, newest first.  Those are          *)
(* SortedCursors (TreeCursors shows it), so here they are just positions.  *)
(* MultiCursor keeps them near the key it stands on, and keeps them sorted *)
(* there, so that next and prev need not seek.                             *)
(***************************************************************************)
EXTENDS Integers, Sequences, FiniteSets

CONSTANTS
    Keys,          \* integers
    Nowhere,       \* not a key
    Live, Tombstone, Absent,  \* what a segment has for a key
    PrefixOf,      \* the first key that would have the prefix of a key
    SegmentLists,  \* bound: what there is to walk over, newest first
    Ranges,        \* bound: from where to where a RangeCursor goes
    Kinds          \* bound: what is opened

ASSUME CursorsAssumption ==
    /\ Keys \subseteq Int /\ IsFiniteSet(Keys) /\ Nowhere \notin Keys
    /\ Live # Tombstone /\ Absent \notin {Live, Tombstone}
    /\ \A list \in SegmentLists :
         list \in Seq([Keys -> {Live, Tombstone, Absent}]) /\ list # <<>>
    /\ Ranges \subseteq Keys \X Keys
    /\ Kinds \subseteq {"living", "range", "prefix", "merge"}

\* What begins with a prefix lies together, behind the prefix.
ASSUME PrefixAssumption ==
    /\ PrefixOf \in [Keys -> Int]
    /\ \A k \in Keys : PrefixOf[k] <= k /\ PrefixOf[k] # Nowhere
    /\ \A k, l \in Keys : PrefixOf[k] <= l /\ l <= k => PrefixOf[l] = PrefixOf[k]

VARIABLES segs,    \* the segments
          kind,    \* what is open
          bounds,  \* of a RangeCursor or a PrefixCursor
          multi,   \* the MultiCursor or MergeCursor
          eaten,   \* of a MergeCursor: overflows_eaten, as segments and keys
          call     \* the last call, with the result of a seek

vars == <<segs, kind, bounds, multi, eaten, call>>

Least(S) == IF S = {} THEN Nowhere ELSE CHOOSE k \in S : \A m \in S : k <= m
Greatest(S) == IF S = {} THEN Nowhere ELSE CHOOSE k \in S : \A m \in S : k >= m

Seg == DOMAIN segs
KeysOf(i) == {k \in Keys : segs[i][k] # Absent}

-----------------------------------------------------------------------------
(* The cursor on one segment.                                              *)

SubSeek(i, k, op) ==
    CASE op = "EQ" -> IF k \in KeysOf(i) THEN k ELSE Nowhere
      [] op = "LE" -> Greatest({m \in KeysOf(i) : m <= k})
      [] op = "GE" -> Least({m \in KeysOf(i) : m >= k})

SubNext(i, k) == Least({m \in KeysOf(i) : m > k})
SubPrev(i, k) == Greatest({m \in KeysOf(i) : m < k})

-----------------------------------------------------------------------------
(* MultiCursor, as a value: where the cursors on the segments are, their   *)
(* order, the current one, the direction, and whether an assertion failed. *)

NoCursor == 0

NewMulti ==
    [subs |-> [i \in Seg |-> Nowhere],
     sorted |-> [j \in Seg |-> [sub |-> j, flag |-> "none"]],
     cur |-> NoCursor, dir |-> "wandering", panicked |-> FALSE]

MultiValid(m) == m.cur # NoCursor /\ m.subs[m.cur] # Nowhere
MultiKey(m) == m.subs[m.cur]
IsTombstone(m) == segs[m.cur][MultiKey(m)] = Tombstone

\* How an entry is related to the one before it.
Flag(subs, n, prev) ==
    IF subs[n] = Nowhere \/ subs[prev] = Nowhere THEN "none"
    ELSE IF subs[n] = subs[prev] THEN "equal" ELSE "greater"

\* Whether n has to come before prev: by key, and then by segment.  What has ended
\* comes last.
Before(subs, n, prev, wantMax) ==
    \/ subs[n] # Nowhere /\ subs[prev] = Nowhere
    \/ subs[n] = subs[prev] /\ n < prev
    \/ /\ subs[n] # Nowhere /\ subs[prev] # Nowhere
       /\ IF wantMax THEN subs[n] > subs[prev] ELSE subs[n] < subs[prev]

\* One round of the insertion sort: where the entry at j goes, and what it passes.
\* The flag of an entry that is passed is set, but not set again when more is passed.
PlaceOf(subs, s, j, wantMax) ==
    CHOOSE at \in 1..j :
        /\ \A i \in at..j - 1 : Before(subs, s[j].sub, s[i].sub, wantMax)
        /\ at = 1 \/ ~Before(subs, s[j].sub, s[at - 1].sub, wantMax)

Inserted(subs, s, j, wantMax) ==
    LET n == s[j].sub
        at == PlaceOf(subs, s, j, wantMax)
    IN  [i \in Seg |->
            IF i < at \/ i > j THEN s[i]
            ELSE IF i > at THEN [sub |-> s[i - 1].sub, flag |-> Flag(subs, s[i - 1].sub, n)]
            ELSE [sub |-> n, flag |-> IF at = 1 THEN "none" ELSE Flag(subs, n, s[at - 1].sub)]]

\* sort.
Sorted(subs, sorted, wantMax) ==
    LET reset == [j \in Seg |-> [sub |-> sorted[j].sub, flag |-> "none"]]
        round[j \in Seg] == IF j = 1 THEN reset ELSE Inserted(subs, round[j - 1], j, wantMax)
        s == round[Len(segs)]
    IN  IF subs[s[1].sub] = Nowhere THEN s ELSE [s EXCEPT ![1].flag = "equal"]

\* find_min and find_max.
Found(m, wantMax) ==
    LET s == Sorted(m.subs, m.sorted, wantMax)
    IN  [m EXCEPT !.sorted = s,
                  !.dir = IF wantMax THEN "backward" ELSE "forward",
                  !.cur = IF s[1].flag = "none" THEN NoCursor ELSE s[1].sub]
FindMin(m) == Found(m, FALSE)
FindMax(m) == Found(m, TRUE)

MultiFirst(m) == FindMin([m EXCEPT !.subs = [i \in Seg |-> Least(KeysOf(i))]])
MultiLast(m) == FindMax([m EXCEPT !.subs = [i \in Seg |-> Greatest(KeysOf(i))]])

\* seek: the cursors after one that finds k itself stay where they were.
MultiSeek(m, k, op) ==
    LET hits == {i \in Seg : SubSeek(i, k, op) = k}
        hit == Least(hits)
        v == [m EXCEPT !.cur = NoCursor, !.dir = "wandering",
                       !.subs = [i \in Seg |-> IF hits = {} \/ i <= hit
                                               THEN SubSeek(i, k, op) ELSE @[i]]]
    IN  IF hits # {} THEN [v EXCEPT !.cur = hit]
        ELSE CASE op = "EQ" -> v [] op = "LE" -> FindMax(v) [] op = "GE" -> FindMin(v)

\* from_cursor.
SeekResult(valid, key, k) ==
    IF ~valid THEN "invalid" ELSE IF key = k THEN "equal" ELSE "unequal"

\* Mutated: only the second entry.
EqualSecond(m) == {m.sorted[j].sub : j \in {n \in Seg \ {1} : n = 2 /\ m.sorted[2].flag = "equal"}}

\* The entries after the first that are flagged equal, one after the other.
EqualRun(m) ==
    {m.sorted[j].sub : j \in {n \in Seg \ {1} : \A i \in 2..n : m.sorted[i].flag = "equal"}}

\* next, half: a cursor that is not the current one goes beyond key.
AfterSeek(i, key) ==
    LET at == SubSeek(i, key, "GE") IN IF at = key THEN SubNext(i, key) ELSE at
AfterStep(i, at, key) ==
    LET one == SubNext(i, at) IN IF one = key THEN SubNext(i, one) ELSE one
\* Mutated: a cursor that has ended stays there when the direction changes.
BeyondIfValid(m, i, key) ==
    IF m.dir = "wandering" THEN AfterSeek(i, key)
    ELSE IF m.subs[i] = Nowhere THEN Nowhere ELSE AfterStep(i, m.subs[i], key)

Beyond(m, i, key) ==
    IF m.dir = "wandering" \/ m.subs[i] = Nowhere THEN AfterSeek(i, key)
    ELSE AfterStep(i, m.subs[i], key)

\* The places that should be unreachable: backward, a cursor is not beyond the key,
\* and at most one step behind it.
Unreachable(m, i, key) ==
    /\ m.dir = "backward" /\ m.subs[i] # Nowhere
    /\ \/ m.subs[i] > key
       \/ SubNext(i, m.subs[i]) # Nowhere /\ SubNext(i, m.subs[i]) < key

MultiNext(m) ==
    LET key == MultiKey(m)
        others == Seg \ {m.cur}
        moved == [i \in Seg |->
                     IF i = m.cur THEN SubNext(i, key)
                     ELSE IF m.dir # "forward" THEN Beyond(m, i, key)
                     ELSE IF i \in EqualRun(m) THEN SubNext(i, m.subs[i]) ELSE m.subs[i]]
        fails == IF m.dir = "forward" THEN m.cur # m.sorted[1].sub
                 ELSE \E i \in others : Unreachable(m, i, key)
    IN  FindMin([m EXCEPT !.subs = moved, !.panicked = @ \/ fails])

\* Mutated: the others are sought only when the cursor went forward.
MultiPrevIfForward(m) ==
    LET key == MultiKey(m)
        Sought(i) == IF m.dir = "forward" /\ i # m.cur THEN SubSeek(i, key, "LE") ELSE m.subs[i]
    IN  FindMax([m EXCEPT !.subs = [i \in Seg |-> IF Sought(i) = key THEN SubPrev(i, key)
                                                  ELSE Sought(i)]])

MultiPrev(m) ==
    LET key == MultiKey(m)
        Sought(i) == IF m.dir # "backward" /\ i # m.cur THEN SubSeek(i, key, "LE") ELSE m.subs[i]
    IN  FindMax([m EXCEPT !.subs = [i \in Seg |-> IF Sought(i) = key THEN SubPrev(i, key)
                                                  ELSE Sought(i)]])

-----------------------------------------------------------------------------
(* LivingCursor: what has been deleted is passed over.                     *)

LivingValid(m) == MultiValid(m) /\ ~IsTombstone(m)

OnTombstone(m) == MultiValid(m) /\ IsTombstone(m)

\* The loops are over when no tombstone is left, after as many rounds as there are
\* keys at most.
SkipForward(m) ==
    LET PassOne(c) == IF OnTombstone(c) THEN MultiNext(c) ELSE c
        after[n \in 0..Cardinality(Keys)] == IF n = 0 THEN m ELSE PassOne(after[n - 1])
    IN  after[Cardinality(Keys)]

SkipBackward(m) ==
    LET PassOne(c) == IF OnTombstone(c) THEN MultiPrev(c) ELSE c
        after[n \in 0..Cardinality(Keys)] == IF n = 0 THEN m ELSE PassOne(after[n - 1])
    IN  after[Cardinality(Keys)]

LivingNext(m) == SkipForward(MultiNext(m))

\* seek: for EQ it stays on a tombstone, and the result says that it is there.
LivingSeek(m, k, op) ==
    LET v == MultiSeek(m, k, op)
    IN  CASE op = "EQ" -> v [] op = "GE" -> SkipForward(v) [] op = "LE" -> SkipBackward(v)

ResultOf(m, k) == SeekResult(MultiValid(m), MultiKey(m), k)

-----------------------------------------------------------------------------
(* RangeCursor and PrefixCursor go forward only.                           *)

NoBounds == [min |-> Nowhere]

InBounds(k) ==
    CASE kind = "range" -> /\ IF bounds.gt THEN k > bounds.min ELSE k >= bounds.min
                           /\ IF bounds.lt THEN k < bounds.max ELSE k <= bounds.max
      [] kind = "prefix" -> PrefixOf[k] = bounds.min
      [] kind \in {"living", "merge"} -> TRUE

\* is_valid of what is open.
IsValid(m) ==
    IF kind = "merge" THEN MultiValid(m) ELSE LivingValid(m) /\ InBounds(MultiKey(m))

BoundedFirst(m) ==
    LET v == LivingSeek(m, bounds.min, "GE")
    IN  IF kind = "range" /\ bounds.gt /\ ResultOf(v, bounds.min) = "equal" THEN LivingNext(v)
        ELSE v

-----------------------------------------------------------------------------
Init ==
    /\ segs \in SegmentLists /\ kind = "closed" /\ bounds = NoBounds
    /\ multi = NewMulti /\ eaten = {} /\ call = <<"open">>

BoundsFor(what) ==
    CASE what = "range" -> {[min |-> r[1], gt |-> gt, max |-> r[2], lt |-> lt] :
                               r \in Ranges, gt \in BOOLEAN, lt \in BOOLEAN}
      [] what = "prefix" -> {[min |-> PrefixOf[k]] : k \in Keys}
      [] what \in {"living", "merge"} -> {NoBounds}

OpenCursor ==
    /\ kind = "closed"
    /\ kind' \in Kinds /\ bounds' \in BoundsFor(kind')
    /\ UNCHANGED <<segs, multi, eaten, call>>

Moves(m, what) == multi' = m /\ call' = what /\ UNCHANGED <<segs, kind, bounds>>

\* MergeCursor, whose only segment needs no sorting.
MergeFirst ==
    /\ kind = "merge" /\ call = <<"open">>
    /\ Moves(IF Len(segs) > 1 THEN MultiFirst(multi)
              ELSE [multi EXCEPT !.cur = 1, !.subs[1] = Least(KeysOf(1))], <<"first">>)
    /\ UNCHANGED eaten

MergeNext ==
    /\ kind = "merge" /\ IsValid(multi)
    /\ IF Len(segs) > 1
       THEN /\ eaten' = eaten \cup {<<i, MultiKey(multi)>> : i \in EqualRun(multi)}
            /\ Moves(MultiNext(multi), <<"next">>)
       ELSE /\ Moves([multi EXCEPT !.subs[1] = SubNext(1, @)], <<"next">>)
            /\ UNCHANGED eaten

FirstKey ==
    /\ kind \in {"living", "range", "prefix"}
    /\ Moves(IF kind = "living" THEN SkipForward(MultiFirst(multi)) ELSE BoundedFirst(multi),
              <<"first">>)
    /\ UNCHANGED eaten

LastKey ==
    kind = "living" /\ Moves(SkipBackward(MultiLast(multi)), <<"last">>) /\ UNCHANGED eaten

\* As the code, next and prev are called on a cursor that is valid.
NextKey ==
    /\ kind \in {"living", "range", "prefix"} /\ IsValid(multi)
    /\ Moves(LivingNext(multi), <<"next">>) /\ UNCHANGED eaten

PrevKey ==
    /\ kind = "living" /\ IsValid(multi)
    /\ Moves(SkipBackward(MultiPrev(multi)), <<"prev">>) /\ UNCHANGED eaten

Seek ==
    /\ kind = "living"
    /\ \E k \in Keys, op \in {"EQ", "LE", "GE"} :
         LET v == LivingSeek(multi, k, op)
         IN  Moves(v, <<"seek", k, op, ResultOf(v, k)>>)
    /\ UNCHANGED eaten

Next ==
    \/ OpenCursor \/ MergeFirst \/ MergeNext
    \/ FirstKey \/ LastKey \/ NextKey \/ PrevKey \/ Seek

Spec == Init /\ [][Next]_vars

-----------------------------------------------------------------------------
(* Properties.                                                             *)

\* What the comments in next say of the other cursors, and no place that should be
\* unreachable is reached: going forward each of them is on the least key that is not
\* before the current one, going backward on the greatest that is not after it.
SubcursorsFollow ==
    /\ ~multi.panicked
    /\ MultiValid(multi) => \A i \in Seg :
         CASE multi.dir = "forward" -> multi.subs[i] = SubSeek(i, MultiKey(multi), "GE")
           [] multi.dir = "backward" -> multi.subs[i] = SubSeek(i, MultiKey(multi), "LE")
           [] multi.dir = "wandering" -> TRUE

\* A newer segment has the key as well.
IsShadowed(i, k) == k \in KeysOf(i) /\ \E j \in Seg : j < i /\ k \in KeysOf(j)

\* The shadowed pairs a merge that stands where m stands has passed.
ShadowedBefore(m) ==
    {ik \in Seg \X Keys : IsShadowed(ik[1], ik[2]) /\ (MultiValid(m) => ik[2] < MultiKey(m))}

\* A merge is told of every pair it has passed that is shadowed, and of no other: their
\* overflows are freed.
EatenIsShadowed == (kind = "merge" /\ call # <<"open">>) => eaten = ShadowedBefore(multi)

\* The keys to walk over: a merge sees the tombstones, a reader what is left.
KeysToWalk ==
    IF kind = "closed" THEN {}
    ELSE {k \in Keys : \E i \in Seg :
             /\ k \in KeysOf(i) /\ \A j \in Seg : j < i => k \notin KeysOf(j)
             /\ kind = "merge" \/ segs[i][k] = Live
             /\ InBounds(k)}

\* A caller that seeks for EQ does not look at the result, it asks whether the cursor
\* is valid: on a tombstone it is not.
CallAsSeen ==
    IF call[1] = "seek" /\ call[3] = "EQ" /\ ~IsValid(multi)
    THEN <<"seek", call[2], "EQ", "invalid">> ELSE call

Abstract == INSTANCE SortedCursor WITH
    keys <- KeysToWalk,
    at <- IF kind # "closed" /\ IsValid(multi) THEN MultiKey(multi) ELSE Nowhere,
    call <- CallAsSeen

\* Over any segments, after any calls and changes of direction, a cursor goes where the
\* order of the living keys says.
ImplementsSortedCursor == Abstract!Spec
=============================================================================
