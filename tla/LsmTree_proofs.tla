--------------------------- MODULE LsmTree_proofs ---------------------------
(***************************************************************************)
(* Proofs about LsmTree, for any keys, values and number of levels, and    *)
(* about the operators of Pairs, for any sequence of segments; and that    *)
(* what RunningTree lets its threads do are steps of LsmTree.              *)
(***************************************************************************)
EXTENDS RunningTree, SequenceTheorems, WellFoundedInduction, TLAPS

-----------------------------------------------------------------------------
(* The operators of Pairs.                                                 *)

\* Segments, and the placeholder of a depleted level.
AnySegment == [kind : {"leaf", "parent", "none"}, pairs : PairSet]

\* When some segment of a sequence has a key, one of them has it first.
LEMMA FrontExists ==
    ASSUME NEW segs \in Seq(AnySegment), NEW k \in Keys,
           NEW i \in DOMAIN segs, segs[i].pairs[k] # Absent
    PROVE  /\ FrontIndex(segs, k) \in DOMAIN segs
           /\ segs[FrontIndex(segs, k)].pairs[k] # Absent
           /\ \A j \in DOMAIN segs :
                 j < FrontIndex(segs, k) => segs[j].pairs[k] = Absent
<1> DEFINE Has == {j \in DOMAIN segs : segs[j].pairs[k] # Absent}
<1>1. Has \subseteq Nat /\ Has # {}
  BY LenProperties
<1>2. PICK m \in Has : \A j \in Has : ~ (<<j, m>> \in OpToRel(<, Nat))
  BY <1>1, NatLessThanWellFounded, WFMin, Zenon
<1>3. \A j \in Has : ~ (j < m)
  BY <1>1, <1>2 DEF OpToRel
<1>4. /\ m \in DOMAIN segs
      /\ segs[m].pairs[k] # Absent
      /\ \A j \in DOMAIN segs : j < m => segs[j].pairs[k] = Absent
  BY <1>3
<1> QED
  BY <1>4, Zenon DEF FrontIndex

\* The pair found is the one of the first segment that has the key.
LEMMA LookupFront ==
    ASSUME NEW segs \in Seq(AnySegment), NEW k \in Keys, NEW i \in DOMAIN segs,
           segs[i].pairs[k] # Absent,
           \A j \in DOMAIN segs : j < i => segs[j].pairs[k] = Absent
    PROVE  Lookup(segs, k) = segs[i].pairs[k]
<1>1. i \in Int /\ FrontIndex(segs, k) \in Int
  BY FrontExists, LenProperties
<1>2. i = FrontIndex(segs, k)
  BY <1>1, FrontExists
<1> QED
  BY <1>2 DEF Lookup

\* A key is absent when no segment has it.
LEMMA LookupAbsent ==
    ASSUME NEW segs \in Seq(AnySegment), NEW k \in Keys
    PROVE  Lookup(segs, k) = Absent
             <=> \A i \in DOMAIN segs : segs[i].pairs[k] = Absent
BY FrontExists DEF Lookup

\* A search finds an entry, or that there is none.
LEMMA LookupType ==
    ASSUME NEW segs \in Seq(AnySegment), NEW k \in Keys
    PROVE  Lookup(segs, k) \in Entry
<1>1. CASE \A i \in DOMAIN segs : segs[i].pairs[k] = Absent
  BY <1>1 DEF Lookup, Entry
<1>2. CASE \E i \in DOMAIN segs : segs[i].pairs[k] # Absent
  <2>1. FrontIndex(segs, k) \in DOMAIN segs
    BY <1>2, FrontExists
  <2>2. segs[FrontIndex(segs, k)] \in AnySegment
    BY <2>1, ElementOfSeq, LenProperties
  <2> QED
    BY <1>2, <2>2 DEF Lookup, AnySegment, PairSet
<1> QED
  BY <1>1, <1>2

\* A merge of segments is a set of pairs.
LEMMA MergedType ==
    ASSUME NEW segs \in Seq(AnySegment)
    PROVE  Merged(segs) \in PairSet
BY LookupType DEF Merged, PairSet

\* Searching one sequence behind another: the front one decides when it has
\* the key.
LEMMA LookupConcat ==
    ASSUME NEW a \in Seq(AnySegment), NEW b \in Seq(AnySegment), NEW k \in Keys
    PROVE  Lookup(a \o b, k) = IF Lookup(a, k) # Absent THEN Lookup(a, k)
                               ELSE Lookup(b, k)
<1> DEFINE ab == a \o b
<1>1. /\ ab \in Seq(AnySegment)
      /\ DOMAIN ab = 1 .. Len(a) + Len(b)
      /\ DOMAIN a = 1 .. Len(a) /\ DOMAIN b = 1 .. Len(b)
      /\ Len(a) \in Nat /\ Len(b) \in Nat
      /\ \A i \in DOMAIN ab : ab[i] = IF i <= Len(a) THEN a[i] ELSE b[i - Len(a)]
  BY ConcatProperties, LenProperties
<1> HIDE DEF ab
<1>2. CASE Lookup(a, k) # Absent
  <2>1. PICK i \in DOMAIN a : a[i].pairs[k] # Absent
    BY <1>2, LookupAbsent
  <2> DEFINE f == FrontIndex(a, k)
  <2>2. /\ f \in DOMAIN a
        /\ a[f].pairs[k] # Absent
        /\ \A j \in DOMAIN a : j < f => a[j].pairs[k] = Absent
    BY <2>1, FrontExists
  <2> HIDE DEF f
  <2>3. Lookup(a, k) = a[f].pairs[k]
    BY <2>2, LookupFront
  <2>4. /\ f \in DOMAIN ab /\ ab[f].pairs[k] # Absent
        /\ \A j \in DOMAIN ab : j < f => ab[j].pairs[k] = Absent
        /\ ab[f] = a[f]
    BY <1>1, <2>2
  <2>5. Lookup(ab, k) = ab[f].pairs[k]
    BY <1>1, <2>4, LookupFront
  <2> QED
    BY <1>2, <2>3, <2>4, <2>5 DEF ab
<1>3. CASE Lookup(a, k) = Absent /\ Lookup(b, k) # Absent
  <2>1. \A j \in DOMAIN a : a[j].pairs[k] = Absent
    BY <1>3, LookupAbsent
  <2>2. PICK i \in DOMAIN b : b[i].pairs[k] # Absent
    BY <1>3, LookupAbsent
  <2> DEFINE f == FrontIndex(b, k)
  <2>3. /\ f \in DOMAIN b
        /\ b[f].pairs[k] # Absent
        /\ \A j \in DOMAIN b : j < f => b[j].pairs[k] = Absent
    BY <2>2, FrontExists
  <2> HIDE DEF f
  <2>4. Lookup(b, k) = b[f].pairs[k]
    BY <2>3, LookupFront
  <2>5. /\ f + Len(a) \in DOMAIN ab
        /\ ab[f + Len(a)] = b[f]
    BY <1>1, <2>3
  <2>6. ASSUME NEW j \in DOMAIN ab, j < f + Len(a)
        PROVE  ab[j].pairs[k] = Absent
    <3>1. CASE j <= Len(a)
      BY <1>1, <2>1, <3>1
    <3>2. CASE j > Len(a)
      BY <1>1, <2>3, <2>6, <3>2
    <3> QED
      BY <1>1, <3>1, <3>2
  <2>7. Lookup(ab, k) = ab[f + Len(a)].pairs[k]
    BY <1>1, <2>3, <2>5, <2>6, LookupFront
  <2> QED
    BY <1>3, <2>4, <2>5, <2>7 DEF ab
<1>4. CASE Lookup(a, k) = Absent /\ Lookup(b, k) = Absent
  <2>1. /\ \A j \in DOMAIN a : a[j].pairs[k] = Absent
        /\ \A j \in DOMAIN b : b[j].pairs[k] = Absent
    BY <1>4, LookupAbsent
  <2>2. \A j \in DOMAIN ab : ab[j].pairs[k] = Absent
    BY <1>1, <2>1
  <2> QED
    BY <1>1, <1>4, <2>2, LookupAbsent DEF ab
<1> QED
  BY <1>2, <1>3, <1>4

\* One segment is all there is to search.
LEMMA LookupSingle ==
    ASSUME NEW s \in AnySegment, NEW k \in Keys
    PROVE  Lookup(<<s>>, k) = s.pairs[k]
<1>1. <<s>> \in Seq(AnySegment) /\ DOMAIN <<s>> = {1} /\ <<s>>[1] = s
  OBVIOUS
<1>2. CASE s.pairs[k] = Absent
  BY <1>1, <1>2, LookupAbsent
<1>3. CASE s.pairs[k] # Absent
  <2> DEFINE segs == <<s>>
  <2>1. /\ segs \in Seq(AnySegment) /\ 1 \in DOMAIN segs
        /\ segs[1].pairs[k] # Absent
        /\ \A j \in DOMAIN segs : j < 1 => segs[j].pairs[k] = Absent
    BY <1>1, <1>3
  <2> HIDE DEF segs
  <2>2. Lookup(segs, k) = segs[1].pairs[k]
    BY <2>1, LookupFront
  <2> QED
    BY <2>2 DEF segs
<1> QED
  BY <1>2, <1>3

\* Nothing is found where there is nothing.
LEMMA LookupEmpty ==
    ASSUME NEW k \in Keys
    PROVE  Lookup(<<>>, k) = Absent
BY DEF Lookup

\* Only the entries for the key matter.
LEMMA LookupSame ==
    ASSUME NEW a \in Seq(AnySegment), NEW b \in Seq(AnySegment), NEW k \in Keys,
           Len(a) = Len(b),
           \A i \in 1 .. Len(a) : a[i].pairs[k] = b[i].pairs[k]
    PROVE  Lookup(a, k) = Lookup(b, k)
<1>1. DOMAIN a = 1 .. Len(a) /\ DOMAIN b = 1 .. Len(a)
  BY LenProperties
<1>2. CASE \A i \in DOMAIN a : a[i].pairs[k] = Absent
  <2>1. \A i \in DOMAIN b : b[i].pairs[k] = Absent
    BY <1>1, <1>2
  <2> QED
    BY <1>2, <2>1, LookupAbsent
<1>3. CASE \E i \in DOMAIN a : a[i].pairs[k] # Absent
  <2> DEFINE f == FrontIndex(a, k)
  <2>1. /\ f \in DOMAIN a
        /\ a[f].pairs[k] # Absent
        /\ \A j \in DOMAIN a : j < f => a[j].pairs[k] = Absent
    BY <1>3, FrontExists
  <2> HIDE DEF f
  <2>2. /\ f \in DOMAIN b
        /\ b[f].pairs[k] # Absent
        /\ \A j \in DOMAIN b : j < f => b[j].pairs[k] = Absent
    BY <1>1, <2>1
  <2>3. Lookup(a, k) = a[f].pairs[k]
    BY <2>1, LookupFront
  <2>4. Lookup(b, k) = b[f].pairs[k]
    BY <2>2, LookupFront
  <2> QED
    BY <1>1, <2>1, <2>3, <2>4
<1> QED
  BY <1>2, <1>3

\* What LivingCursor makes of an entry.
LivingEntry(e) == IF e = Tombstone THEN Absent ELSE e

\* Position p of the sequence a gives what it has for the key to position
\* p + 1, or has a tombstone dropped because nothing further back has the key.
\* Either way the living value is the same.
LEMMA MovedBack ==
    ASSUME NEW a \in Seq(AnySegment), NEW b \in Seq(AnySegment), NEW k \in Keys,
           NEW p \in Nat, p \in 1 .. Len(a), p + 1 \in 1 .. Len(a),
           Len(a) = Len(b),
           \A i \in 1 .. Len(a) :
               i # p /\ i # p + 1 => a[i].pairs[k] = b[i].pairs[k],
           \/ /\ b[p].pairs[k] = a[p].pairs[k]
              /\ b[p + 1].pairs[k] = a[p + 1].pairs[k]
           \/ /\ b[p].pairs[k] = Absent
              /\ a[p].pairs[k] # Absent
              /\ b[p + 1].pairs[k] = a[p].pairs[k]
           \/ /\ b[p].pairs[k] = Absent
              /\ a[p].pairs[k] = Tombstone
              /\ b[p + 1].pairs[k] = Absent
              /\ \A i \in 1 .. Len(a) : i > p + 1 => a[i].pairs[k] = Absent
    PROVE  LivingEntry(Lookup(b, k)) = LivingEntry(Lookup(a, k))
<1>1. /\ DOMAIN a = 1 .. Len(a) /\ DOMAIN b = 1 .. Len(a) /\ Len(a) \in Nat
  BY LenProperties
<1>2. CASE \E i \in DOMAIN a : i < p /\ a[i].pairs[k] # Absent
  <2> DEFINE f == FrontIndex(a, k)
  <2>1. /\ f \in DOMAIN a
        /\ a[f].pairs[k] # Absent
        /\ \A j \in DOMAIN a : j < f => a[j].pairs[k] = Absent
    BY <1>2, FrontExists
  <2> HIDE DEF f
  <2>2. f < p
    BY <1>1, <1>2, <2>1
  <2>3. \A j \in DOMAIN a : j <= f => a[j].pairs[k] = b[j].pairs[k]
    BY <1>1, <2>1, <2>2
  <2>4. /\ f \in DOMAIN b
        /\ b[f].pairs[k] # Absent
        /\ b[f].pairs[k] = a[f].pairs[k]
        /\ \A j \in DOMAIN b : j < f => b[j].pairs[k] = Absent
    BY <1>1, <2>1, <2>3
  <2>5. Lookup(a, k) = a[f].pairs[k]
    BY <2>1, LookupFront
  <2>6. Lookup(b, k) = b[f].pairs[k]
    BY <2>4, LookupFront
  <2> QED
    BY <2>4, <2>5, <2>6
<1>3. CASE /\ \A i \in DOMAIN a : i < p => a[i].pairs[k] = Absent
           /\ b[p].pairs[k] = a[p].pairs[k]
           /\ b[p + 1].pairs[k] = a[p + 1].pairs[k]
  <2>1. \A i \in 1 .. Len(a) : a[i].pairs[k] = b[i].pairs[k]
    BY <1>3
  <2> QED
    BY <2>1, LookupSame
<1>4. CASE /\ \A i \in DOMAIN a : i < p => a[i].pairs[k] = Absent
           /\ b[p].pairs[k] = Absent
           /\ a[p].pairs[k] # Absent
           /\ b[p + 1].pairs[k] = a[p].pairs[k]
  <2>1. Lookup(a, k) = a[p].pairs[k]
    BY <1>1, <1>4, LookupFront
  <2>2. \A j \in DOMAIN b : j < p + 1 => b[j].pairs[k] = Absent
    BY <1>1, <1>4
  <2>3. Lookup(b, k) = b[p + 1].pairs[k]
    BY <1>1, <1>4, <2>2, LookupFront
  <2> QED
    BY <1>4, <2>1, <2>3
<1>5. CASE /\ \A i \in DOMAIN a : i < p => a[i].pairs[k] = Absent
           /\ b[p].pairs[k] = Absent
           /\ a[p].pairs[k] = Tombstone
           /\ b[p + 1].pairs[k] = Absent
           /\ \A i \in 1 .. Len(a) : i > p + 1 => a[i].pairs[k] = Absent
  <2>1. Lookup(a, k) = Tombstone
    BY <1>1, <1>5, LookupFront, PairsAssumption
  <2>2. \A j \in DOMAIN b : b[j].pairs[k] = Absent
    BY <1>1, <1>5
  <2>3. Lookup(b, k) = Absent
    BY <2>2, LookupAbsent
  <2> QED
    BY <2>1, <2>3 DEF LivingEntry
<1> QED
  BY <1>2, <1>3, <1>4, <1>5

-----------------------------------------------------------------------------
(* Segments and the operators on pairs.                                    *)

\* The kinds of segments, from the narrowest to the widest.
LEMMA SegmentTypes ==
    /\ NoPairs \in PairSet
    /\ NoSegment \in MaybeSegment
    /\ Segment \subseteq MaybeSegment
    /\ MaybeSegment \subseteq AnySegment
    /\ \A s \in MaybeSegment : s # NoSegment => s \in Segment
    /\ \A k \in Keys : NoSegment.pairs[k] = Absent
BY DEF NoPairs, PairSet, Entry, NoSegment, Segment, MaybeSegment, AnySegment

\* Writing pairs gives a segment that holds them, none when there are none.
LEMMA SegmentsOfPairs ==
    ASSUME NEW p \in PairSet, NEW s \in SegmentsOf(p)
    PROVE  s \in MaybeSegment /\ s.pairs = p
<1>1. CASE KeysOf(p) = {}
  <2>1. p = NoPairs
    BY <1>1 DEF PairSet, KeysOf, NoPairs
  <2> QED
    BY <1>1, <2>1, SegmentTypes DEF SegmentsOf, NoSegment
<1>2. CASE KeysOf(p) # {}
  <2>1. s = [kind |-> "leaf", pairs |-> p] \/ s = [kind |-> "parent", pairs |-> p]
    BY <1>2 DEF SegmentsOf
  <2> QED
    BY <2>1 DEF MaybeSegment, Segment
<1> QED
  BY <1>1, <1>2

\* No segment is written only when there is nothing to write (write_merge).
LEMMA SegmentsOfExists ==
    ASSUME NEW p \in PairSet, NEW s \in SegmentsOf(p), s = NoSegment
    PROVE  KeysOf(p) = {}
BY DEF SegmentsOf, NoSegment

\* A part of a set of pairs is one.
LEMMA OnlyType ==
    ASSUME NEW p \in PairSet, NEW K
    PROVE  Only(p, K) \in PairSet
BY DEF Only, PairSet, Entry

\* A level holds pairs, or none.
LEMMA PairsType ==
    ASSUME NEW s \in MaybeSegment
    PROVE  s.pairs \in PairSet
BY SegmentTypes DEF AnySegment

\* What a merge reads of the level it merges into.
LEMMA SourceType ==
    ASSUME TypeOK, NEW t \in Thread
    PROVE  Source(t) \in MaybeSegment
<1>1. CASE t > 0
  BY <1>1, LsmTreeAssumption DEF Source, Thread, Level, TypeOK
<1>2. CASE t = 0
  <2>1. CASE waiting = <<>>
    BY <1>2, <2>1, SegmentTypes DEF Source
  <2>2. CASE waiting # <<>>
    <3>1. Len(waiting) \in 1 .. Len(waiting)
      BY <2>2, LenProperties, EmptySeq DEF TypeOK
    <3> QED
      BY <1>2, <2>2, <3>1, ElementOfSeq, SegmentTypes DEF Source, TypeOK
  <2> QED
    BY <2>1, <2>2
<1> QED
  BY <1>1, <1>2 DEF Thread, Level

\* What a merge writes.
LEMMA MergeIntoType ==
    ASSUME TypeOK, NEW t \in Thread, NEW p \in PairSet
    PROVE  MergeInto(t, p) \in PairSet
<1>1. regular[t].pairs \in PairSet
  BY PairsType DEF TypeOK, Thread
<1> QED
  BY <1>1 DEF MergeInto, PairSet, Entry

\* The run that is promoted starts somewhere in incoming.
LEMMA RunStartExists ==
    ASSUME TypeOK, incoming # <<>>
    PROVE  /\ RunStart \in 1 .. Len(incoming)
           /\ \A j \in RunStart .. Len(incoming) :
                 incoming[j].kind = incoming[Len(incoming)].kind
<1> DEFINE n == Len(incoming)
           Run == {i \in 1 .. n :
                     \A j \in i .. n : incoming[j].kind = incoming[n].kind}
<1>1. n \in Nat /\ n >= 1
  BY LenProperties, EmptySeq DEF TypeOK
<1> HIDE DEF n
<1>2. n \in Run /\ Run \subseteq Nat
  BY <1>1
<1>3. PICK m \in Run : \A i \in Run : ~ (<<i, m>> \in OpToRel(<, Nat))
  BY <1>2, NatLessThanWellFounded, WFMin, Zenon
<1>4. \A i \in Run : ~ (i < m)
  BY <1>2, <1>3 DEF OpToRel
<1>5. m > 1 => incoming[m - 1].kind # incoming[n].kind
  <2>1. SUFFICES ASSUME m > 1, incoming[m - 1].kind = incoming[n].kind
                 PROVE  FALSE
    OBVIOUS
  <2>2. \A j \in (m - 1) .. n : j = m - 1 \/ j \in m .. n
    BY <1>1
  <2>3. m - 1 \in Run
    BY <1>1, <2>1, <2>2
  <2> QED
    BY <1>4, <2>3
<1>6. /\ m \in 1 .. n
      /\ \A j \in m .. n : incoming[j].kind = incoming[n].kind
      /\ m > 1 => incoming[m - 1].kind # incoming[n].kind
  BY <1>5
<1> QED
  BY <1>6, Zenon DEF RunStart, n

\* It is not empty, and it is the end of incoming.
LEMMA OldestRunProperties ==
    ASSUME TypeOK, incoming # <<>>
    PROVE  /\ OldestRun \in Seq(Segment)
           /\ Len(OldestRun) \in 1 .. Len(incoming)
           /\ \A i \in 1 .. Len(OldestRun) :
                 /\ OldestRun[i] = incoming[Len(incoming) - Len(OldestRun) + i]
                 /\ OldestRun[i].kind = incoming[Len(incoming)].kind
<1>1. Len(incoming) \in Nat /\ incoming \in Seq(Segment)
  BY LenProperties DEF TypeOK
<1>2. RunStart \in 1 .. Len(incoming)
  BY RunStartExists
<1>3. /\ OldestRun \in Seq(Segment)
      /\ Len(OldestRun) = Len(incoming) - RunStart + 1
      /\ \A i \in 1 .. Len(OldestRun) : OldestRun[i] = incoming[RunStart + i - 1]
  BY <1>1, <1>2, SubSeqProperties DEF OldestRun
<1>4. ASSUME NEW i \in 1 .. Len(OldestRun)
      PROVE  /\ OldestRun[i] = incoming[Len(incoming) - Len(OldestRun) + i]
             /\ OldestRun[i].kind = incoming[Len(incoming)].kind
  <2>1. /\ RunStart + i - 1 \in RunStart .. Len(incoming)
        /\ RunStart + i - 1 = Len(incoming) - Len(OldestRun) + i
    BY <1>1, <1>2, <1>3
  <2>2. OldestRun[i] = incoming[RunStart + i - 1]
    BY <1>3
  <2> QED
    BY <2>1, <2>2, RunStartExists
<1> QED
  BY <1>1, <1>2, <1>3, <1>4

-----------------------------------------------------------------------------
(* The inductive invariant.                                                *)

\* No two merges in flight hold the same merge lock.
LocksDisjoint ==
    \A t, u \in Thread :
        t # u /\ pending[t].busy /\ pending[u].busy
            => MergeLocks(t) \cap MergeLocks(u) = {}

\* What a prepared merge does to each key: it leaves it where it is, promotes
\* it, or drops its tombstone.
MovesPairs(pm) ==
    \A k \in Keys :
        \/ /\ pm.survivors.pairs[k] = pm.from.pairs[k]
           /\ pm.newDest.pairs[k] = pm.dest.pairs[k]
        \/ /\ pm.survivors.pairs[k] = Absent
           /\ pm.from.pairs[k] # Absent
           /\ pm.newDest.pairs[k] = pm.from.pairs[k]
        \/ /\ pm.survivors.pairs[k] = Absent
           /\ pm.from.pairs[k] = Tombstone
           /\ pm.newDest.pairs[k] = Absent

PendingMovesPairs == \A t \in Thread : pending[t].busy => MovesPairs(pending[t])

PendingRunIsMerged ==
    pendingIncoming.busy /\ ~pendingIncoming.withoutRewrite
        => pendingIncoming.newDest.pairs = Merged(pendingIncoming.segments)

\* Nor will the merge in flight put a tombstone into the last level.
LastMerger == NumRegularLevels - 1

LastLevelStaysClean ==
    pending[LastMerger].busy => ~HasTombstone(pending[LastMerger].newDest.pairs)

IInv ==
    /\ TypeOK
    /\ LocksDisjoint
    /\ PendingIsCurrent
    /\ PendingMovesPairs
    /\ PendingRunIsMerged
    /\ DroppedTombstonesHideNothing
    /\ NoTombstoneInLastLevel
    /\ LastLevelStaysClean

\* There is a thread for the last level.
LEMMA LastMergerExists == LastMerger \in Thread
BY LsmTreeAssumption DEF LastMerger, Thread, Level

\* An empty database.
LEMMA InitInv == Init => IInv
<1> SUFFICES ASSUME Init PROVE IInv
  OBVIOUS
<1> USE DEF Init
<1>1. TypeOK
  BY SegmentTypes, LsmTreeAssumption, EmptySeq
     DEF TypeOK, PendingMergeFromIncoming, PendingMerge, Idle, IdleIncoming
<1>2. ~pendingIncoming.busy /\ \A t \in Thread : ~pending[t].busy
  BY DEF Idle, IdleIncoming
<1>3. NoTombstoneInLastLevel
  BY SegmentTypes, LastMergerExists, PairsAssumption
     DEF NoTombstoneInLastLevel, HasTombstone, LastMerger, Thread
<1> QED
  BY <1>1, <1>2, <1>3, LastMergerExists
     DEF IInv, LocksDisjoint, PendingIsCurrent, PendingMovesPairs,
         PendingRunIsMerged, DroppedTombstonesHideNothing, LastLevelStaysClean

\* A writer's commit moves every segment of incoming one place back, and a
\* merge is prepared from the far end.
LEMMA CommitSegmentInv ==
    ASSUME IInv, NEW seg \in Segment, CommitSegment(seg)
    PROVE  IInv'
<1> USE DEF IInv, CommitSegment
<1>1. /\ incoming' \in Seq(Segment)
      /\ Len(incoming') = Len(incoming) + 1
      /\ Len(incoming) \in Nat
      /\ \A i \in 1 .. Len(incoming) : incoming'[i + 1] = incoming[i]
  <2>1. <<seg>> \in Seq(Segment) /\ Len(<<seg>>) = 1
    OBVIOUS
  <2>2. incoming \in Seq(Segment)
    BY DEF TypeOK
  <2> QED
    BY <2>1, <2>2, ConcatProperties, LenProperties
<1>2. TypeOK'
  BY <1>1, LsmTreeAssumption DEF TypeOK, Segment
<1>3. PendingIsCurrent'
  <2>1. \A t \in Thread : Source(t)' = Source(t)
    BY DEF Source
  <2>2. ASSUME pendingIncoming.busy
        PROVE  LET n == Len(pendingIncoming.segments) IN
               /\ n \in 1 .. Len(incoming')
               /\ \A i \in 1 .. n :
                     pendingIncoming.segments[i] = incoming'[Len(incoming') - n + i]
    <3> DEFINE n == Len(pendingIncoming.segments)
    <3>1. /\ n \in 1 .. Len(incoming)
          /\ \A i \in 1 .. n :
                pendingIncoming.segments[i] = incoming[Len(incoming) - n + i]
      BY <2>2 DEF PendingIsCurrent
    <3> HIDE DEF n
    <3>2. ASSUME NEW i \in 1 .. n
          PROVE  pendingIncoming.segments[i] = incoming'[Len(incoming') - n + i]
      <4>1. /\ Len(incoming) - n + i \in 1 .. Len(incoming)
            /\ Len(incoming') - n + i = (Len(incoming) - n + i) + 1
        BY <1>1, <3>1
      <4> QED
        BY <1>1, <3>1, <4>1
    <3>3. n \in 1 .. Len(incoming')
      BY <1>1, <3>1
    <3> QED
      BY <3>2, <3>3, Zenon DEF n
  <2> QED
    BY <2>1, <2>2 DEF PendingIsCurrent
<1>4. /\ LocksDisjoint' /\ PendingMovesPairs' /\ PendingRunIsMerged'
      /\ NoTombstoneInLastLevel' /\ LastLevelStaysClean'
      /\ DroppedTombstonesHideNothing'
  BY DEF LocksDisjoint, PendingMovesPairs, PendingRunIsMerged, Dropped,
         NoTombstoneInLastLevel, LastLevelStaysClean, DroppedTombstonesHideNothing
<1> QED
  BY <1>2, <1>3, <1>4

\* prepare_merge of incoming.
LEMMA PrepareMergeFromIncomingInv ==
    ASSUME IInv, PrepareMergeFromIncoming
    PROVE  IInv'
<1> USE DEF IInv
<1>1. incoming # <<>>
  BY DEF PrepareMergeFromIncoming, NeedsMergeIncoming
<1>2. /\ OldestRun \in Seq(Segment)
      /\ Len(OldestRun) \in 1 .. Len(incoming)
      /\ \A i \in 1 .. Len(OldestRun) :
            OldestRun[i] = incoming[Len(incoming) - Len(OldestRun) + i]
  BY <1>1, OldestRunProperties
<1>3. /\ pendingIncoming' \in PendingMergeFromIncoming
      /\ pendingIncoming'.segments = OldestRun
      /\ ~pendingIncoming'.withoutRewrite
            => pendingIncoming'.newDest.pairs = Merged(OldestRun)
  <2>1. CASE pendingIncoming' = [busy |-> TRUE, segments |-> OldestRun,
                                 withoutRewrite |-> TRUE, newDest |-> NoSegment]
    BY <1>2, <2>1, SegmentTypes DEF PendingMergeFromIncoming
  <2>2. CASE \E seg \in SegmentsOf(Merged(OldestRun)) :
                pendingIncoming' =
                    [busy |-> TRUE, segments |-> OldestRun,
                     withoutRewrite |-> FALSE, newDest |-> seg]
    <3>1. OldestRun \in Seq(AnySegment)
      BY <1>2, SegmentTypes, SeqMonotonic DEF MaybeSegment
    <3>2. Merged(OldestRun) \in PairSet
      BY <3>1, MergedType
    <3> QED
      BY <1>2, <2>2, <3>2, SegmentsOfPairs DEF PendingMergeFromIncoming
  <2> QED
    BY <2>1, <2>2 DEF PrepareMergeFromIncoming
<1>4. TypeOK'
  BY <1>3 DEF TypeOK, PrepareMergeFromIncoming
<1>5. PendingIsCurrent'
  BY <1>2, <1>3 DEF PendingIsCurrent, PrepareMergeFromIncoming, Source
<1>6. PendingRunIsMerged'
  BY <1>3 DEF PendingRunIsMerged
<1>7. /\ LocksDisjoint' /\ PendingMovesPairs'
      /\ NoTombstoneInLastLevel' /\ LastLevelStaysClean'
      /\ DroppedTombstonesHideNothing'
  BY DEF LocksDisjoint, PendingMovesPairs, Dropped, NoTombstoneInLastLevel,
         LastLevelStaysClean, DroppedTombstonesHideNothing,
         PrepareMergeFromIncoming
<1> QED
  BY <1>4, <1>5, <1>6, <1>7

\* Turning a list round keeps its length.
LEMMA BackwardsType ==
    ASSUME NEW s \in Seq(Segment)
    PROVE  Backwards(s) \in Seq(Segment) /\ Len(Backwards(s)) = Len(s)
<1>1. Len(s) \in Nat
  BY LenProperties
<1>2. \A i \in 1 .. Len(s) : s[Len(s) + 1 - i] \in Segment
  BY <1>1, ElementOfSeq
<1>3. Backwards(s) \in [1 .. Len(s) -> Segment]
  BY <1>2 DEF Backwards
<1>4. Backwards(s) \in Seq(Segment)
  BY <1>1, <1>3, SeqDef
<1> QED
  BY <1>1, <1>3, <1>4, LenProperties

\* New segments go in front of waiting, so the one that is merged next stays.
LEMMA WaitingAfterProperties ==
    ASSUME TypeOK
    PROVE  /\ WaitingAfter(pendingIncoming) \in Seq(Segment)
           /\ waiting # <<>> =>
                LET w == WaitingAfter(pendingIncoming) IN
                w # <<>> /\ w[Len(w)] = waiting[Len(waiting)]
<1> DEFINE pm == pendingIncoming
<1>1. /\ pm.segments \in Seq(Segment) /\ pm.newDest \in MaybeSegment
      /\ waiting \in Seq(Segment)
  BY DEF TypeOK, PendingMergeFromIncoming
<1>2. PICK front \in Seq(Segment) : WaitingAfter(pm) = front \o waiting
  <2>1. CASE pm.withoutRewrite
    BY <1>1, <2>1, BackwardsType DEF WaitingAfter
  <2>2. CASE ~pm.withoutRewrite /\ pm.newDest = NoSegment
    <3>1. <<>> \in Seq(Segment) /\ <<>> \o waiting = waiting
      BY <1>1, EmptySeq, ConcatEmptySeq
    <3> QED
      BY <2>2, <3>1 DEF WaitingAfter
  <2>3. CASE ~pm.withoutRewrite /\ pm.newDest # NoSegment
    <3>1. pm.newDest \in Segment
      BY <1>1, <2>3, SegmentTypes
    <3>2. <<pm.newDest>> \in Seq(Segment)
      BY <3>1
    <3> QED
      BY <2>3, <3>2 DEF WaitingAfter
  <2> QED
    BY <2>1, <2>2, <2>3
<1>3. /\ front \o waiting \in Seq(Segment)
      /\ Len(front \o waiting) = Len(front) + Len(waiting)
      /\ \A i \in 1 .. Len(front) + Len(waiting) :
            (front \o waiting)[i] = IF i <= Len(front) THEN front[i]
                                    ELSE waiting[i - Len(front)]
      /\ Len(front) \in Nat /\ Len(waiting) \in Nat
  BY <1>1, ConcatProperties, LenProperties
<1>4. ASSUME waiting # <<>>
      PROVE  /\ front \o waiting # <<>>
             /\ (front \o waiting)[Len(front \o waiting)] = waiting[Len(waiting)]
  <2>1. Len(waiting) >= 1
    BY <1>1, <1>4, EmptySeq
  <2> QED
    BY <1>3, <2>1, EmptySeq
<1> QED
  BY <1>2, <1>3, <1>4

\* commit_merge into waiting.
LEMMA CommitMergeFromIncomingInv ==
    ASSUME IInv, CommitMergeFromIncoming
    PROVE  IInv'
<1> USE DEF IInv
<1>1. Len(pendingIncoming.segments) \in 1 .. Len(incoming)
  BY DEF PendingIsCurrent, CommitMergeFromIncoming
<1>2. incoming \in Seq(Segment) /\ Len(incoming) \in Nat
  BY LenProperties DEF TypeOK
<1>3. incoming' \in Seq(Segment)
  <2>1. \A i \in 1 .. Len(incoming) - Len(pendingIncoming.segments) :
           incoming[i] \in Segment
    BY <1>1, <1>2, ElementOfSeq
  <2> QED
    BY <1>1, <1>2, <2>1, SubSeqProperties DEF CommitMergeFromIncoming
<1>4. IdleIncoming \in PendingMergeFromIncoming /\ ~IdleIncoming.busy
  BY SegmentTypes, EmptySeq DEF IdleIncoming, PendingMergeFromIncoming
<1>5. TypeOK'
  BY <1>3, <1>4, WaitingAfterProperties DEF TypeOK, CommitMergeFromIncoming
<1>6. PendingIsCurrent'
  <2>1. ASSUME NEW t \in Thread, pending[t].busy
        PROVE  Source(t)' = Source(t)
    <3>1. CASE t > 0
      BY <3>1 DEF Source, CommitMergeFromIncoming
    <3>2. CASE t = 0
      <4>1. waiting # <<>>
        BY <2>1, <3>2 DEF PendingIsCurrent, Source
      <4> QED
        BY <3>2, <4>1, WaitingAfterProperties DEF Source, CommitMergeFromIncoming
    <3> QED
      BY <3>1, <3>2 DEF Thread, Level
  <2> QED
    BY <1>4, <2>1 DEF PendingIsCurrent, CommitMergeFromIncoming
<1>7. /\ LocksDisjoint' /\ PendingMovesPairs' /\ PendingRunIsMerged'
      /\ NoTombstoneInLastLevel' /\ LastLevelStaysClean'
      /\ DroppedTombstonesHideNothing'
  BY <1>4 DEF LocksDisjoint, PendingMovesPairs, PendingRunIsMerged, Dropped,
         NoTombstoneInLastLevel, LastLevelStaysClean,
         DroppedTombstonesHideNothing, CommitMergeFromIncoming
<1> QED
  BY <1>5, <1>6, <1>7

\* Reopening forgets the merges in flight.
LEMMA ReopenInv ==
    ASSUME IInv, Reopen
    PROVE  IInv'
<1> USE DEF IInv, Reopen
<1>1. /\ IdleIncoming \in PendingMergeFromIncoming /\ ~IdleIncoming.busy
      /\ Idle \in PendingMerge /\ ~Idle.busy
  BY SegmentTypes, EmptySeq
     DEF IdleIncoming, PendingMergeFromIncoming, Idle, PendingMerge
<1>2. \A t \in Thread : pending'[t] = Idle
  OBVIOUS
<1>3. TypeOK'
  BY <1>1 DEF TypeOK
<1> QED
  BY <1>1, <1>2, <1>3, LastMergerExists
     DEF LocksDisjoint, PendingIsCurrent, PendingMovesPairs, PendingRunIsMerged,
         NoTombstoneInLastLevel, LastLevelStaysClean,
         DroppedTombstonesHideNothing

\* prepare_merge of the other levels.
LEMMA PrepareMergeInv ==
    ASSUME IInv, NEW t \in Thread, PrepareMerge(t)
    PROVE  IInv'
<1> USE DEF IInv
<1> DEFINE from == Source(t)
           dest == regular[t]
<1>0. PICK K \in Promotable(from) :
        \E newDest \in SegmentsOf(MergeInto(t, Only(from.pairs, K))),
           survivors \in SegmentsOf(Only(from.pairs, Keys \ K)) :
             pending' = [pending EXCEPT ![t] =
                 [busy |-> TRUE, from |-> from, dest |-> dest,
                  survivors |-> survivors, newDest |-> newDest]]
  BY DEF PrepareMerge
<1>1. PICK newDest \in SegmentsOf(MergeInto(t, Only(from.pairs, K))),
           survivors \in SegmentsOf(Only(from.pairs, Keys \ K)) :
        pending' = [pending EXCEPT ![t] =
            [busy |-> TRUE, from |-> from, dest |-> dest,
             survivors |-> survivors, newDest |-> newDest]]
  BY <1>0
<1> DEFINE pm == [busy |-> TRUE, from |-> from, dest |-> dest,
                  survivors |-> survivors, newDest |-> newDest]
<1>2. /\ from \in MaybeSegment /\ dest \in MaybeSegment
      /\ from.pairs \in PairSet /\ dest.pairs \in PairSet
      /\ from # NoSegment
  BY SourceType, PairsType DEF TypeOK, Thread, PrepareMerge, NeedsMerge
<1>3. K \subseteq KeysOf(from.pairs)
  BY DEF Promotable
<1>4. /\ survivors \in MaybeSegment
      /\ survivors.pairs = Only(from.pairs, Keys \ K)
  BY <1>2, OnlyType, SegmentsOfPairs
<1>5. /\ newDest \in MaybeSegment
      /\ newDest.pairs = MergeInto(t, Only(from.pairs, K))
  BY <1>2, OnlyType, MergeIntoType, SegmentsOfPairs
<1>6. pm \in PendingMerge
  BY <1>2, <1>4, <1>5 DEF PendingMerge
<1>7. /\ DOMAIN pending = Thread /\ pending'[t] = pm
      /\ \A u \in Thread : u # t => pending'[u] = pending[u]
  BY <1>1 DEF TypeOK
<1>8. ASSUME NEW k \in Keys
      PROVE  \/ /\ k \notin K
                /\ survivors.pairs[k] = from.pairs[k]
                /\ newDest.pairs[k] = dest.pairs[k]
             \/ /\ k \in K
                /\ survivors.pairs[k] = Absent /\ from.pairs[k] # Absent
                /\ newDest.pairs[k] = from.pairs[k]
                /\ from.pairs[k] = Tombstone => NecessaryTombstone(t, k)
             \/ /\ k \in K
                /\ survivors.pairs[k] = Absent /\ from.pairs[k] = Tombstone
                /\ newDest.pairs[k] = Absent
                /\ ~NecessaryTombstone(t, k)
  BY <1>3, <1>4, <1>5 DEF Only, MergeInto, KeysOf
<1> HIDE DEF from, dest
<1>9. TypeOK'
  BY <1>6, <1>1 DEF TypeOK, PrepareMerge
<1>10. LocksDisjoint'
  BY <1>7 DEF LocksDisjoint, PrepareMerge, LocksFree, MergeLocks
<1>11. PendingIsCurrent'
  <2>1. \A u \in Thread : Source(u)' = Source(u)
    BY DEF PrepareMerge, Source
  <2>2. UNCHANGED <<incoming, regular, pendingIncoming>>
    BY DEF PrepareMerge
  <2>3. \A u \in Thread : pending'[u].busy =>
           /\ pending'[u].from # NoSegment
           /\ pending'[u].from = Source(u)
           /\ pending'[u].dest = regular[u]
    BY <1>2, <1>7 DEF PendingIsCurrent, from, dest
  <2> QED
    BY <2>1, <2>2, <2>3 DEF PendingIsCurrent
<1>12. PendingMovesPairs'
  BY <1>7, <1>8 DEF PendingMovesPairs, MovesPairs
<1>13. DroppedTombstonesHideNothing'
  <2>1. ASSUME NEW k \in Keys, from.pairs[k] = Tombstone,
               survivors.pairs[k] = Absent, newDest.pairs[k] = Absent
        PROVE  \A l \in Level : l > t => regular[l].pairs[k] = Absent
    BY <1>8, <2>1, PairsAssumption DEF NecessaryTombstone
  <2> QED
    BY <1>7, <2>1 DEF DroppedTombstonesHideNothing, Dropped, PrepareMerge
<1>14. LastLevelStaysClean'
  <2>1. CASE t = LastMerger
    <3>1. \A k \in Keys : ~NecessaryTombstone(t, k)
      BY <2>1 DEF NecessaryTombstone, LastMerger, Level
    <3>2. \A k \in Keys : dest.pairs[k] # Tombstone
      BY <2>1 DEF NoTombstoneInLastLevel, HasTombstone, LastMerger, dest
    <3>3. \A k \in Keys : newDest.pairs[k] # Tombstone
      BY <1>8, <3>1, <3>2, PairsAssumption
    <3> QED
      BY <1>7, <2>1, <3>3 DEF LastLevelStaysClean, HasTombstone
  <2>2. CASE t # LastMerger
    BY <1>7, <2>2, LastMergerExists DEF LastLevelStaysClean
  <2> QED
    BY <2>1, <2>2
<1>15. PendingRunIsMerged' /\ NoTombstoneInLastLevel'
  BY DEF PendingRunIsMerged, NoTombstoneInLastLevel, PrepareMerge
<1> QED
  BY <1>9, <1>10, <1>11, <1>12, <1>13, <1>14, <1>15

\* The other merges in flight hold other locks, so they read neither of the
\* two lists this one writes.  They may well write behind its destination, but
\* only keys that were behind it already.
LEMMA CommitMergeInv ==
    ASSUME IInv, NEW t \in Thread, CommitMerge(t)
    PROVE  IInv'
<1> USE DEF IInv
<1> DEFINE pm == pending[t]
<1>1. /\ pm \in PendingMerge /\ pm.busy
      /\ pm.survivors \in MaybeSegment /\ pm.newDest \in MaybeSegment
  BY DEF TypeOK, PendingMerge, CommitMerge
<1>2. /\ pending' \in [Thread -> PendingMerge] /\ ~pending'[t].busy
      /\ \A u \in Thread : u # t => pending'[u] = pending[u]
  BY SegmentTypes DEF TypeOK, CommitMerge, Idle, PendingMerge
<1>3. /\ regular' \in [Level -> MaybeSegment]
      /\ \A l \in Level : regular'[l] = IF l = t THEN pm.newDest
                                        ELSE IF l = t - 1 THEN pm.survivors
                                        ELSE regular[l]
  BY <1>1 DEF TypeOK, CommitMerge
<1>4. waiting' \in Seq(Segment)
  <2>1. CASE t # 0
    BY <2>1 DEF CommitMerge, TypeOK
  <2>2. CASE t = 0
    <3>1. waiting # <<>> /\ waiting \in Seq(Segment)
      BY <1>1, <2>2 DEF PendingIsCurrent, Source, TypeOK
    <3>2. Len(waiting) \in 1 .. Len(waiting)
      BY <3>1, EmptySeq
    <3>3. \A i \in 1 .. Len(waiting) - 1 : waiting[i] \in Segment
      BY <3>1, <3>2, ElementOfSeq
    <3>4. SubSeq(waiting, 1, Len(waiting) - 1) \in Seq(Segment)
      BY <3>2, <3>3, SubSeqProperties
    <3>5. pm.survivors # NoSegment
            => [waiting EXCEPT ![Len(waiting)] = pm.survivors] \in Seq(Segment)
      BY <1>1, <3>1, <3>2, ExceptSeq, SegmentTypes
    <3> QED
      BY <2>2, <3>4, <3>5 DEF CommitMerge, WaitingWithSurvivors
  <2> QED
    BY <2>1, <2>2
<1>5. TypeOK'
  BY <1>2, <1>3, <1>4 DEF TypeOK, CommitMerge
<1>6. ASSUME NEW u \in Thread, u # t, pending[u].busy
      PROVE  u # t - 1 /\ u # t + 1
  <2>1. MergeLocks(u) \cap MergeLocks(t) = {}
    BY <1>1, <1>6 DEF LocksDisjoint
  <2>2. {u, u + 1} \cap {t, t + 1} = {} /\ u \in Int /\ t \in Int
    BY <2>1 DEF MergeLocks, Thread, Level
  <2>3. u + 1 # t /\ t + 1 # u
    BY <2>2
  <2> QED
    BY <2>2, <2>3
<1>7. LocksDisjoint'
  BY <1>2 DEF LocksDisjoint, MergeLocks
<1>8. PendingIsCurrent'
  <2>1. ASSUME NEW u \in Thread, u # t, pending[u].busy
        PROVE  Source(u)' = Source(u) /\ regular'[u] = regular[u]
    <3>1. regular'[u] = regular[u]
      BY <1>3, <1>6, <2>1 DEF Thread
    <3>2. CASE u > 0
      <4>1. u - 1 \in Level /\ u - 1 # t /\ u - 1 # t - 1
        BY <1>6, <2>1, <3>2, LsmTreeAssumption DEF Thread, Level
      <4>2. regular'[u - 1] = regular[u - 1]
        BY <1>3, <4>1
      <4> QED
        BY <3>1, <3>2, <4>2 DEF Source
    <3>3. CASE u = 0
      BY <2>1, <3>1, <3>3 DEF Source, CommitMerge
    <3> QED
      BY <3>2, <3>3 DEF Thread, Level
  <2> QED
    BY <1>2, <2>1 DEF PendingIsCurrent, CommitMerge
<1>9. PendingMovesPairs' /\ PendingRunIsMerged'
  BY <1>2 DEF PendingMovesPairs, PendingRunIsMerged, CommitMerge
<1>10. DroppedTombstonesHideNothing'
  <2>1. ASSUME NEW u \in Thread, u # t, pending[u].busy,
               NEW k \in Keys, NEW l \in Level, l > u,
               \A m \in Level : m > u => regular[m].pairs[k] = Absent
        PROVE  regular'[l].pairs[k] = Absent
    <3>1. CASE l # t /\ l # t - 1
      BY <1>3, <2>1, <3>1
    <3>2. CASE l = t \/ l = t - 1
      \* then t is at least two levels behind u, and so is all it writes
      <4>1. t - 1 \in Level /\ t - 1 > u /\ t > 0
        BY <1>6, <2>1, <3>2, LsmTreeAssumption DEF Thread, Level
      <4>2. pm.from = regular[t - 1] /\ pm.dest = regular[t]
        BY <1>1, <4>1 DEF PendingIsCurrent, Source
      <4>3. pm.from.pairs[k] = Absent /\ pm.dest.pairs[k] = Absent
        BY <2>1, <4>1, <4>2 DEF Thread, Level
      <4>4. pm.survivors.pairs[k] = Absent /\ pm.newDest.pairs[k] = Absent
        BY <1>1, <4>3, PairsAssumption DEF PendingMovesPairs, MovesPairs
      <4> QED
        BY <1>3, <3>2, <4>4 DEF Thread
    <3> QED
      BY <3>1, <3>2
  <2> QED
    BY <1>2, <2>1 DEF DroppedTombstonesHideNothing, Dropped
<1>11. NoTombstoneInLastLevel'
  <2>1. CASE t = LastMerger
    BY <1>1, <1>3, <2>1
       DEF NoTombstoneInLastLevel, LastLevelStaysClean, LastMerger, Thread
  <2>2. CASE t # LastMerger
    <3>1. LastMerger \in Level /\ LastMerger # t /\ LastMerger # t - 1
      BY <2>2, LastMergerExists DEF LastMerger, Thread, Level
    <3> QED
      BY <1>3, <3>1 DEF NoTombstoneInLastLevel, LastMerger
  <2> QED
    BY <2>1, <2>2
<1>12. LastLevelStaysClean'
  BY <1>2, LastMergerExists DEF LastLevelStaysClean
<1> QED
  BY <1>5, <1>7, <1>8, <1>9, <1>10, <1>11, <1>12

\* What writers commit are segments.
LEMMA NewSegmentsAreSegments == NewSegments \subseteq Segment
BY SegmentsOfPairs, SegmentTypes DEF NewSegments

\* Every action keeps the invariant.
LEMMA StepInv == IInv /\ [Next]_vars => IInv'
<1> SUFFICES ASSUME IInv, [Next]_vars PROVE IInv'
  OBVIOUS
<1>1. ASSUME NEW seg \in NewSegments, CommitSegment(seg) PROVE IInv'
  BY <1>1, NewSegmentsAreSegments, CommitSegmentInv
<1>2. CASE PrepareMergeFromIncoming
  BY <1>2, PrepareMergeFromIncomingInv
<1>3. CASE CommitMergeFromIncoming
  BY <1>3, CommitMergeFromIncomingInv
<1>4. ASSUME NEW t \in Thread, PrepareMerge(t) PROVE IInv'
  BY <1>4, PrepareMergeInv
<1>5. ASSUME NEW t \in Thread, CommitMerge(t) PROVE IInv'
  BY <1>5, CommitMergeInv
<1>6. CASE Reopen
  BY <1>6, ReopenInv
<1>7. CASE UNCHANGED vars
  BY <1>7 DEF vars, IInv, TypeOK, LocksDisjoint, PendingIsCurrent, Source,
     PendingMovesPairs, PendingRunIsMerged, DroppedTombstonesHideNothing,
     Dropped, NoTombstoneInLastLevel, LastLevelStaysClean
<1> QED
  BY <1>1, <1>2, <1>3, <1>4, <1>5, <1>6, <1>7 DEF Next, Merges

\* The inductive invariant holds in every state of the tree.
THEOREM Inductive == Spec => []IInv
BY InitInv, StepInv, PTL DEF Spec

\* Every reachable header and every merge in flight is of its type.
THEOREM TypeCorrect == Spec => []TypeOK
<1>1. IInv => TypeOK
  BY DEF IInv
<1> QED
  BY <1>1, Inductive, PTL

\* A merge commits what it was prepared from: the assertions of commit_merge
\* and find_segments_in_list never fail.
THEOREM PendingStaysCurrent == Spec => []PendingIsCurrent
<1>1. IInv => PendingIsCurrent
  BY DEF IInv
<1> QED
  BY <1>1, Inductive, PTL

\* A tombstone that is being dropped has nothing left to hide, and that stays
\* so until the merge is committed, whatever the deeper levels do.
THEOREM DroppingIsSafe == Spec => []DroppedTombstonesHideNothing
<1>1. IInv => DroppedTombstonesHideNothing
  BY DEF IInv
<1> QED
  BY <1>1, Inductive, PTL

\* The last level holds no tombstones, whatever the number of levels.
THEOREM LastLevelClean == Spec => []NoTombstoneInLastLevel
<1>1. IInv => NoTombstoneInLastLevel
  BY DEF IInv
<1> QED
  BY <1>1, Inductive, PTL

-----------------------------------------------------------------------------
(* What readers see.                                                       *)

ListOf(r) == [i \in 1 .. NumRegularLevels |-> r[i - 1]]

\* The regular levels as a list.
LEMMA ListOfType ==
    ASSUME NEW r \in [Level -> MaybeSegment]
    PROVE  /\ ListOf(r) \in Seq(AnySegment)
           /\ Len(ListOf(r)) = NumRegularLevels
           /\ \A l \in Level : ListOf(r)[l + 1] = r[l]
<1>1. \A i \in 1 .. NumRegularLevels : r[i - 1] \in AnySegment
  BY SegmentTypes, LsmTreeAssumption DEF Level
<1>2. ListOf(r) \in [1 .. NumRegularLevels -> AnySegment]
  BY <1>1 DEF ListOf
<1>3. ListOf(r) \in Seq(AnySegment)
  BY <1>2, LsmTreeAssumption, SeqDef
<1>4. \A l \in Level : l + 1 \in 1 .. NumRegularLevels /\ (l + 1) - 1 = l
  BY LsmTreeAssumption DEF Level
<1> QED
  BY <1>2, <1>3, <1>4, LenProperties, LsmTreeAssumption DEF ListOf

\* A list of segments is one of what may be segments.
LEMMA SegmentSeq ==
    ASSUME NEW s \in Seq(Segment)
    PROVE  s \in Seq(AnySegment)
BY SegmentTypes, SeqMonotonic DEF MaybeSegment

\* A reader's search: incoming, then waiting, then the regular levels.
LEMMA LookupChain ==
    ASSUME NEW inc \in Seq(AnySegment), NEW wait \in Seq(AnySegment),
           NEW r \in Seq(AnySegment), NEW k \in Keys
    PROVE  Lookup(inc \o wait \o r, k) =
              IF Lookup(inc, k) # Absent THEN Lookup(inc, k)
              ELSE IF Lookup(wait, k) # Absent THEN Lookup(wait, k)
              ELSE Lookup(r, k)
<1>1. inc \o wait \in Seq(AnySegment)
  BY ConcatProperties
<1>2. Lookup(inc \o wait, k) = IF Lookup(inc, k) # Absent THEN Lookup(inc, k)
                               ELSE Lookup(wait, k)
  BY LookupConcat
<1>3. Lookup((inc \o wait) \o r, k) =
          IF Lookup(inc \o wait, k) # Absent THEN Lookup(inc \o wait, k)
          ELSE Lookup(r, k)
  BY <1>1, LookupConcat
<1> QED
  BY <1>2, <1>3

\* What a reader searches.
LEMMA ListsTyped ==
    ASSUME TypeOK
    PROVE  /\ incoming \in Seq(AnySegment) /\ waiting \in Seq(AnySegment)
           /\ RegularList \in Seq(AnySegment)
           /\ RegularList = ListOf(regular)
<1>1. RegularList = ListOf(regular)
  BY DEF RegularList, ListOf
<1> QED
  BY <1>1, SegmentSeq, ListOfType DEF TypeOK

\* A reader finds a key in incoming, or else in waiting, or else in a regular level.
LEMMA ViewAt ==
    ASSUME TypeOK
    PROVE  /\ View = [k \in Keys |-> LivingEntry(Lookup(Chain, k))]
           /\ \A k \in Keys :
                 Lookup(Chain, k) =
                     IF Lookup(incoming, k) # Absent THEN Lookup(incoming, k)
                     ELSE IF Lookup(waiting, k) # Absent THEN Lookup(waiting, k)
                     ELSE Lookup(ListOf(regular), k)
BY ListsTyped, LookupChain DEF View, Living, Merged, LivingEntry, Chain

\* A sequence is its beginning followed by its end.
LEMMA EndsWith ==
    ASSUME NEW S, NEW s \in Seq(S), NEW e \in Seq(S), Len(e) \in 1 .. Len(s),
           \A i \in 1 .. Len(e) : e[i] = s[Len(s) - Len(e) + i]
    PROVE  s = SubSeq(s, 1, Len(s) - Len(e)) \o e
<1> DEFINE m == Len(s) - Len(e)
           b == SubSeq(s, 1, m)
<1>1. /\ Len(s) \in Nat /\ Len(e) \in Nat /\ m \in Nat
      /\ m + Len(e) = Len(s)
      /\ \A i \in 1 .. Len(e) : e[i] = s[m + i]
  BY LenProperties
<1>2. \A i \in 1 .. m : s[i] \in S
  BY <1>1, ElementOfSeq
<1>3. b \in Seq(S) /\ Len(b) = m /\ \A i \in 1 .. m : b[i] = s[i]
  BY <1>1, <1>2, SubSeqProperties
<1> HIDE DEF b, m
<1>4. /\ b \o e \in Seq(S)
      /\ Len(b \o e) = m + Len(e)
      /\ \A i \in 1 .. m + Len(e) :
            (b \o e)[i] = IF i <= m THEN b[i] ELSE e[i - m]
  BY <1>3, ConcatProperties
<1>5. ASSUME NEW i \in 1 .. Len(s)
      PROVE  s[i] = (b \o e)[i]
  <2>1. CASE i <= m
    BY <1>1, <1>3, <1>4, <2>1
  <2>2. CASE i > m
    <3>1. i - m \in 1 .. Len(e) /\ m + (i - m) = i
      BY <1>1, <2>2
    <3>2. e[i - m] = s[i]
      BY <1>1, <3>1
    <3>3. i \in 1 .. m + Len(e) /\ ~(i <= m)
      BY <1>1, <2>2
    <3> QED
      BY <1>4, <3>2, <3>3
  <2>3. i <= m \/ i > m
    BY <1>1
  <2> QED
    BY <2>1, <2>2, <2>3
<1>6. Len(b \o e) = Len(s)
  BY <1>1, <1>4
<1>7. s = b \o e
  BY <1>4, <1>5, <1>6, SeqEqual
<1> QED
  BY <1>7 DEF b, m

\* The run leaves incoming and its merge goes in front of waiting: nothing
\* that is searched between the two.
LEMMA CommitMergeFromIncomingView ==
    ASSUME IInv, CommitMergeFromIncoming, ~CommitsRunOfParents, TypeOK'
    PROVE  View' = View
<1> DEFINE pm == pendingIncoming
           n == Len(pm.segments)
           front == SubSeq(incoming, 1, Len(incoming) - n)
           new == IF pm.withoutRewrite THEN pm.segments
                  ELSE IF pm.newDest = NoSegment THEN <<>>
                  ELSE <<pm.newDest>>
<1> USE DEF IInv
<1>1. /\ incoming \in Seq(Segment) /\ Len(incoming) \in Nat
      /\ pm.segments \in Seq(Segment) /\ pm.newDest \in MaybeSegment
      /\ waiting \in Seq(Segment) /\ n \in Nat
  BY LenProperties DEF TypeOK, PendingMergeFromIncoming
<1>2. /\ n \in 1 .. Len(incoming)
      /\ \A i \in 1 .. n : pm.segments[i] = incoming[Len(incoming) - n + i]
  BY DEF PendingIsCurrent, CommitMergeFromIncoming
<1>3. pm.withoutRewrite => n = 1
  <2>1. pm.withoutRewrite => ~(n > 1)
    BY DEF CommitsRunOfParents
  <2>2. n \in Nat /\ n >= 1
    BY <1>1, <1>2
  <2> HIDE DEF n
  <2> QED
    BY <2>1, <2>2
<1>4. front \in Seq(Segment) /\ incoming' = front
  <2>1. \A i \in 1 .. Len(incoming) - n : incoming[i] \in Segment
    BY <1>1, <1>2, ElementOfSeq
  <2> QED
    BY <1>1, <1>2, <2>1, SubSeqProperties DEF CommitMergeFromIncoming
<1>5. incoming = front \o pm.segments
  BY <1>1, <1>2, EndsWith
<1>6. new \in Seq(Segment) /\ waiting' = new \o waiting
  <2>1. CASE pm.withoutRewrite
    <3>1. Backwards(pm.segments) = pm.segments
      <4>1. Len(Backwards(pm.segments)) = 1 /\ Backwards(pm.segments) \in Seq(Segment)
        BY <1>1, <1>3, <2>1, BackwardsType
      <4>2. Backwards(pm.segments)[1] = pm.segments[1]
        BY <1>3, <2>1 DEF Backwards
      <4> QED
        BY <1>1, <1>3, <2>1, <4>1, <4>2, SeqEqual
    <3> QED
      BY <1>1, <2>1, <3>1 DEF WaitingAfter, CommitMergeFromIncoming
  <2>2. CASE ~pm.withoutRewrite /\ pm.newDest = NoSegment
    <3>1. <<>> \in Seq(Segment) /\ <<>> \o waiting = waiting
      BY <1>1, EmptySeq, ConcatEmptySeq
    <3> QED
      BY <2>2, <3>1 DEF WaitingAfter, CommitMergeFromIncoming
  <2>3. CASE ~pm.withoutRewrite /\ pm.newDest # NoSegment
    <3>1. pm.newDest \in Segment
      BY <1>1, <2>3, SegmentTypes
    <3>2. <<pm.newDest>> \in Seq(Segment)
      BY <3>1
    <3> QED
      BY <2>3, <3>2 DEF WaitingAfter, CommitMergeFromIncoming
  <2> QED
    BY <2>1, <2>2, <2>3
<1>7. ASSUME NEW k \in Keys
      PROVE  Lookup(new, k) = Lookup(pm.segments, k)
  <2>1. CASE pm.withoutRewrite
    BY <2>1
  <2>2. CASE ~pm.withoutRewrite
    <3>1. pm.newDest.pairs[k] = Lookup(pm.segments, k)
      BY <2>2 DEF PendingRunIsMerged, CommitMergeFromIncoming, Merged
    <3>2. CASE pm.newDest = NoSegment
      BY <2>2, <3>1, <3>2, SegmentTypes, LookupEmpty
    <3>3. CASE pm.newDest # NoSegment
      <4>1. pm.newDest \in AnySegment
        BY <1>1, SegmentTypes
      <4> QED
        BY <2>2, <3>1, <3>3, <4>1, LookupSingle
    <3> QED
      BY <3>2, <3>3
  <2> QED
    BY <2>1, <2>2
<1>8. ASSUME NEW k \in Keys
      PROVE  Lookup(Chain, k)' = Lookup(Chain, k)
  <2>1. /\ front \in Seq(AnySegment) /\ new \in Seq(AnySegment)
        /\ waiting \in Seq(AnySegment) /\ pm.segments \in Seq(AnySegment)
        /\ ListOf(regular) \in Seq(AnySegment)
    BY <1>1, <1>4, <1>6, SegmentSeq, ListOfType DEF TypeOK
  <2> HIDE DEF front, new, pm
  <2>2. Lookup(incoming, k) =
           IF Lookup(front, k) # Absent THEN Lookup(front, k)
           ELSE Lookup(pm.segments, k)
    BY <1>5, <2>1, LookupConcat
  <2>3. Lookup(waiting', k) =
           IF Lookup(new, k) # Absent THEN Lookup(new, k) ELSE Lookup(waiting, k)
    BY <1>6, <2>1, LookupConcat
  <2>4. Chain' = front \o waiting' \o ListOf(regular)
    BY <1>4 DEF Chain, RegularList, ListOf, CommitMergeFromIncoming
  <2>5. waiting' \in Seq(AnySegment)
    BY <1>6, <2>1, ConcatProperties
  <2>6. Lookup(Chain', k) =
           IF Lookup(front, k) # Absent THEN Lookup(front, k)
           ELSE IF Lookup(waiting', k) # Absent THEN Lookup(waiting', k)
           ELSE Lookup(ListOf(regular), k)
    BY <2>1, <2>4, <2>5, LookupChain
  <2>7. Lookup(Chain', k) = Lookup(Chain, k)
    BY <1>7, <2>2, <2>3, <2>6, ViewAt
  <2> QED
    BY <2>7 DEF Lookup, FrontIndex
<1> QED
  BY <1>8 DEF View, Living, Merged

\* A new segment goes to the front (commit_segment).
LEMMA InFront ==
    ASSUME NEW S, NEW e \in S, NEW s \in Seq(S)
    PROVE  /\ <<e>> \o s \in Seq(S)
           /\ Len(<<e>> \o s) = Len(s) + 1
           /\ (<<e>> \o s)[1] = e
           /\ \A i \in 1 .. Len(s) : (<<e>> \o s)[i + 1] = s[i]
<1> DEFINE one == <<e>>
<1>1. one \in Seq(S) /\ Len(one) = 1 /\ one[1] = e
  OBVIOUS
<1> HIDE DEF one
<1>2. /\ one \o s \in Seq(S)
      /\ Len(one \o s) = 1 + Len(s)
      /\ \A i \in 1 .. 1 + Len(s) : (one \o s)[i] = IF i <= 1 THEN one[i]
                                                    ELSE s[i - 1]
      /\ Len(s) \in Nat
  <2>1. Len(s) \in Nat
    BY LenProperties
  <2>2. one \o s \in Seq(S) /\ Len(one \o s) = Len(one) + Len(s)
    BY <1>1, ConcatProperties, Zenon
  <2>3. \A i \in 1 .. Len(one) + Len(s) :
           (one \o s)[i] = IF i <= Len(one) THEN one[i] ELSE s[i - Len(one)]
    BY <1>1, ConcatProperties, Zenon
  <2> QED
    BY <1>1, <2>1, <2>2, <2>3
<1>3. (one \o s)[1] = e
  BY <1>1, <1>2
<1>4. ASSUME NEW i \in 1 .. Len(s)
      PROVE  (one \o s)[i + 1] = s[i]
  <2>1. i + 1 \in 1 .. 1 + Len(s) /\ ~(i + 1 <= 1) /\ (i + 1) - 1 = i
    BY <1>2
  <2> QED
    BY <1>2, <2>1
<1> QED
  BY <1>2, <1>3, <1>4 DEF one

\* Replacing the last element of a list.
LEMMA LastReplaced ==
    ASSUME NEW S, NEW s \in Seq(S), NEW e \in S, s # <<>>
    PROVE  SubSeq(s, 1, Len(s) - 1) \o <<e>> = [s EXCEPT ![Len(s)] = e]
<1> DEFINE n == Len(s)
           new == [s EXCEPT ![n] = e]
           one == <<e>>
<1>1. n \in Nat /\ n \in 1 .. n
  BY EmptySeq
<1>2. /\ new \in Seq(S) /\ Len(new) = n
      /\ \A i \in 1 .. n : new[i] = IF i = n THEN e ELSE s[i]
  BY <1>1, ExceptSeq
<1>3. one \in Seq(S) /\ Len(one) = 1 /\ one[1] = e
  OBVIOUS
<1> HIDE DEF n, new, one
<1>4. /\ Len(one) \in 1 .. Len(new) /\ Len(new) - Len(one) = n - 1
      /\ \A i \in 1 .. Len(one) : one[i] = new[Len(new) - Len(one) + i]
  <2>1. n - 1 + 1 = n
    BY <1>1
  <2> QED
    BY <1>1, <1>2, <1>3, <2>1
<1>5. new = SubSeq(new, 1, n - 1) \o one
  <2>1. new = SubSeq(new, 1, Len(new) - Len(one)) \o one
    BY <1>2, <1>3, <1>4, EndsWith
  <2> QED
    BY <1>4, <2>1
<1>6. SubSeq(new, 1, n - 1) = SubSeq(s, 1, n - 1)
  <2>1. \A i \in 1 .. n - 1 : new[i] = s[i] /\ new[i] \in S /\ s[i] \in S
    BY <1>1, <1>2, ElementOfSeq DEF n
  <2>2. n - 1 \in Int
    BY <1>1
  <2>3. /\ SubSeq(new, 1, n - 1) \in Seq(S)
        /\ Len(SubSeq(new, 1, n - 1)) = IF 1 <= n - 1 THEN n - 1 - 1 + 1 ELSE 0
        /\ \A i \in 1 .. n - 1 - 1 + 1 : SubSeq(new, 1, n - 1)[i] = new[1 + i - 1]
    BY <2>1, <2>2, SubSeqProperties
  <2>4. /\ SubSeq(s, 1, n - 1) \in Seq(S)
        /\ Len(SubSeq(s, 1, n - 1)) = IF 1 <= n - 1 THEN n - 1 - 1 + 1 ELSE 0
        /\ \A i \in 1 .. n - 1 - 1 + 1 : SubSeq(s, 1, n - 1)[i] = s[1 + i - 1]
    BY <2>1, <2>2, SubSeqProperties
  <2> DEFINE u == SubSeq(new, 1, n - 1)
             v == SubSeq(s, 1, n - 1)
  <2> HIDE DEF u, v
  <2>5. Len(u) = Len(v)
    BY <2>3, <2>4 DEF u, v
  <2>6. ASSUME NEW i \in 1 .. Len(u)
        PROVE  u[i] = v[i]
    <3>1. i \in 1 .. n - 1 - 1 + 1 /\ i \in 1 .. n - 1 /\ 1 + i - 1 = i
      BY <1>1, <2>3, <2>6 DEF u
    <3>2. u[i] = new[i] /\ v[i] = s[i]
      BY <2>3, <2>4, <3>1 DEF u, v
    <3> QED
      BY <2>1, <3>1, <3>2
  <2>7. u \in Seq(S) /\ v \in Seq(S)
    BY <2>3, <2>4 DEF u, v
  <2>8. u = v
    BY <2>5, <2>6, <2>7, SeqEqual
  <2> QED
    BY <2>8 DEF u, v
<1> QED
  BY <1>5, <1>6 DEF n, new, one

\* The source of a merge and its destination are neighbours in the order a
\* reader searches in, and what is dropped hides nothing behind them.
LEMMA CommitMergeView ==
    ASSUME IInv, NEW t \in Thread, CommitMerge(t), TypeOK'
    PROVE  View' = View
<1> USE DEF IInv
<1> DEFINE pm == pending[t]
           N == NumRegularLevels
<1>1. /\ pm \in PendingMerge /\ pm.busy
      /\ pm.survivors \in MaybeSegment /\ pm.newDest \in MaybeSegment
      /\ pm.from = Source(t) /\ pm.from # NoSegment /\ pm.dest = regular[t]
      /\ MovesPairs(pm)
  BY DEF TypeOK, PendingMerge, CommitMerge, PendingIsCurrent, PendingMovesPairs
<1>2. /\ regular \in [Level -> MaybeSegment] /\ regular' \in [Level -> MaybeSegment]
      /\ \A l \in Level : regular'[l] = IF l = t THEN pm.newDest
                                        ELSE IF l = t - 1 THEN pm.survivors
                                        ELSE regular[l]
      /\ incoming' = incoming
  BY DEF TypeOK, CommitMerge
<1>3. /\ N \in Nat /\ t \in 0 .. N - 1 /\ t \in Level
  BY LsmTreeAssumption DEF Thread, Level
<1> DEFINE a == ListOf(regular)
           b == ListOf(regular')
<1>4. /\ a \in Seq(AnySegment) /\ Len(a) = N
      /\ b \in Seq(AnySegment) /\ Len(b) = N
      /\ \A i \in 1 .. N : i - 1 \in Level /\ a[i] = regular[i - 1]
                                           /\ b[i] = regular'[i - 1]
  <2>1. \A i \in 1 .. N : i - 1 \in Level
    BY <1>3 DEF Level
  <2> QED
    BY <1>2, <2>1, ListOfType DEF ListOf
<1>5. \A k \in Keys :
         \/ /\ pm.survivors.pairs[k] = pm.from.pairs[k]
            /\ pm.newDest.pairs[k] = pm.dest.pairs[k]
         \/ /\ pm.survivors.pairs[k] = Absent
            /\ pm.from.pairs[k] # Absent
            /\ pm.newDest.pairs[k] = pm.from.pairs[k]
         \/ /\ pm.survivors.pairs[k] = Absent
            /\ pm.from.pairs[k] = Tombstone
            /\ pm.newDest.pairs[k] = Absent
            /\ \A l \in Level : l > t => regular[l].pairs[k] = Absent
  <2>1. \A k \in Keys :
           (/\ pm.from.pairs[k] = Tombstone
            /\ pm.survivors.pairs[k] = Absent
            /\ pm.newDest.pairs[k] = Absent)
           => \A l \in Level : l > t => regular[l].pairs[k] = Absent
    <3>1. \A k \in Dropped(t) :
             \A l \in Level : l > t => regular[l].pairs[k] = Absent
      BY <1>1 DEF DroppedTombstonesHideNothing
    <3>2. ASSUME NEW k \in Keys, pm.from.pairs[k] = Tombstone,
                 pm.survivors.pairs[k] = Absent, pm.newDest.pairs[k] = Absent
          PROVE  \A l \in Level : l > t => regular[l].pairs[k] = Absent
      <4>1. k \in Dropped(t)
        BY <3>2 DEF Dropped
      <4> QED
        BY <3>1, <4>1
    <3> QED
      BY <3>2
  <2> QED
    BY <1>1, <2>1 DEF MovesPairs
<1> HIDE DEF pm, a, b, N
<1>6. CASE t > 0
  <2>1. /\ pm.from = regular[t - 1] /\ waiting' = waiting
        /\ t \in 1 .. N /\ t + 1 \in 1 .. N
    BY <1>1, <1>3, <1>6 DEF Source, CommitMerge
  <2>2. /\ a[t] = pm.from /\ a[t + 1] = pm.dest
        /\ b[t] = pm.survivors /\ b[t + 1] = pm.newDest
    BY <1>1, <1>2, <1>3, <1>4, <1>6, <2>1
  <2>3. \A i \in 1 .. N : i # t /\ i # t + 1 => a[i] = b[i]
    BY <1>2, <1>3, <1>4
  <2>4. ASSUME NEW k \in Keys
        PROVE  LivingEntry(Lookup(b, k)) = LivingEntry(Lookup(a, k))
    <3>1. \A i \in 1 .. N : i # t /\ i # t + 1 => a[i].pairs[k] = b[i].pairs[k]
      BY <2>3
    <3>2. (\A l \in Level : l > t => regular[l].pairs[k] = Absent)
            => \A i \in 1 .. N : i > t + 1 => a[i].pairs[k] = Absent
      BY <1>3, <1>4
    <3>3. \/ /\ b[t].pairs[k] = a[t].pairs[k]
             /\ b[t + 1].pairs[k] = a[t + 1].pairs[k]
          \/ /\ b[t].pairs[k] = Absent
             /\ a[t].pairs[k] # Absent
             /\ b[t + 1].pairs[k] = a[t].pairs[k]
          \/ /\ b[t].pairs[k] = Absent
             /\ a[t].pairs[k] = Tombstone
             /\ b[t + 1].pairs[k] = Absent
             /\ \A i \in 1 .. N : i > t + 1 => a[i].pairs[k] = Absent
      BY <1>5, <2>2, <3>2
    <3>4. t \in Nat
      BY <1>3
    <3> QED
      BY <1>4, <2>1, <3>1, <3>3, <3>4, MovedBack
  <2>5. ASSUME NEW k \in Keys
        PROVE  LivingEntry(Lookup(Chain', k)) = LivingEntry(Lookup(Chain, k))
    <3>1. Chain' = incoming \o waiting \o b
      BY <1>2, <2>1 DEF Chain, RegularList, ListOf, b
    <3>2. Lookup(Chain', k) =
             IF Lookup(incoming, k) # Absent THEN Lookup(incoming, k)
             ELSE IF Lookup(waiting, k) # Absent THEN Lookup(waiting, k)
             ELSE Lookup(b, k)
      BY <1>4, <3>1, ListsTyped, LookupChain
    <3> QED
      BY <2>4, <3>2, ViewAt DEF a
  <2>6. ASSUME NEW k \in Keys
        PROVE  LivingEntry(Lookup(Chain, k))' = LivingEntry(Lookup(Chain, k))
    BY <2>5 DEF LivingEntry, Lookup, FrontIndex
  <2> QED
    BY <2>6, ViewAt DEF View, Living, Merged, LivingEntry
<1>7. CASE t = 0
  <2> DEFINE n == Len(waiting)
             front == SubSeq(waiting, 1, n - 1)
             from == <<pm.from>>
             left == <<pm.survivors>>
             x == from \o a
             y == left \o b
  <2>1. /\ waiting # <<>> /\ waiting \in Seq(Segment) /\ n \in Nat /\ n >= 1
        /\ pm.from = waiting[n]
    BY <1>1, <1>7, EmptySeq DEF Source, TypeOK
  <2>2. front \in Seq(Segment) /\ Len(front) = n - 1
        /\ \A i \in 1 .. n - 1 : front[i] = waiting[i]
    <3>1. \A i \in 1 .. n - 1 : waiting[i] \in Segment
      BY <2>1, ElementOfSeq
    <3>2. \A i \in 1 .. n - 1 : 1 + i - 1 = i
      BY <2>1
    <3>3. /\ front \in Seq(Segment)
          /\ Len(front) = IF 1 <= n - 1 THEN n - 1 - 1 + 1 ELSE 0
          /\ \A i \in 1 .. n - 1 - 1 + 1 : front[i] = waiting[1 + i - 1]
      BY <2>1, <3>1, SubSeqProperties
    <3> HIDE DEF front, n
    <3>4. \A i \in 1 .. n - 1 : i \in 1 .. n - 1 - 1 + 1
      BY <2>1
    <3>5. Len(front) = n - 1
      BY <2>1, <3>3
    <3> QED
      BY <3>2, <3>3, <3>4, <3>5
  <2>3. /\ from \in Seq(AnySegment) /\ Len(from) = 1 /\ from[1] = pm.from
        /\ left \in Seq(AnySegment) /\ Len(left) = 1 /\ left[1] = pm.survivors
        /\ from \in Seq(Segment)
    <3>1. pm.from \in Segment /\ pm.survivors \in AnySegment
      BY <1>1, <2>1, ElementOfSeq, SegmentTypes
    <3> QED
      BY <3>1, SegmentTypes DEF MaybeSegment
  <2>4. waiting = front \o from
    <3>1. \A i \in 1 .. 1 : from[i] = waiting[n - 1 + i]
      BY <2>1, <2>3
    <3> QED
      BY <2>1, <2>3, <3>1, EndsWith
  <2>5. /\ front \in Seq(AnySegment) /\ waiting \in Seq(AnySegment)
        /\ waiting' \in Seq(AnySegment)
    BY <2>1, <2>2, SegmentSeq DEF TypeOK
  <2>6. waiting' = WaitingWithSurvivors(pm.survivors)
    BY <1>7 DEF CommitMerge, pm
  <2> HIDE DEF front, from, left, n
  <2>7. ASSUME NEW k \in Keys
        PROVE  Lookup(waiting', k) = IF Lookup(front, k) # Absent
                                     THEN Lookup(front, k)
                                     ELSE pm.survivors.pairs[k]
    <3>1. CASE pm.survivors = NoSegment
      <4>1. waiting' = front
        BY <2>6, <3>1 DEF WaitingWithSurvivors, front, n
      <4> QED
        BY <3>1, <4>1, SegmentTypes
    <3>2. CASE pm.survivors # NoSegment
      <4> DEFINE w == front \o left
      <4>5. w = waiting'
        BY <1>1, <2>1, <2>6, <3>2, SegmentTypes, LastReplaced
           DEF WaitingWithSurvivors, front, left, n
      <4>6. Lookup(w, k) = IF Lookup(front, k) # Absent THEN Lookup(front, k)
                           ELSE Lookup(left, k)
        BY <2>3, <2>5, LookupConcat
      <4>7. Lookup(left, k) = pm.survivors.pairs[k]
        BY <1>1, SegmentTypes, LookupSingle DEF left
      <4> QED
        BY <4>5, <4>6, <4>7
    <3> QED
      BY <3>1, <3>2
  <2>8. ASSUME NEW k \in Keys
        PROVE  /\ Lookup(waiting, k) = IF Lookup(front, k) # Absent
                                       THEN Lookup(front, k)
                                       ELSE pm.from.pairs[k]
               /\ Lookup(x, k) = IF pm.from.pairs[k] # Absent
                                 THEN pm.from.pairs[k] ELSE Lookup(a, k)
               /\ Lookup(y, k) = IF pm.survivors.pairs[k] # Absent
                                 THEN pm.survivors.pairs[k] ELSE Lookup(b, k)
    <3>1. Lookup(from, k) = pm.from.pairs[k]
      BY <1>1, SegmentTypes, SourceType, LookupSingle DEF from
    <3>2. Lookup(left, k) = pm.survivors.pairs[k]
      BY <1>1, SegmentTypes, LookupSingle DEF left
    <3>3. Lookup(waiting, k) = IF Lookup(front, k) # Absent THEN Lookup(front, k)
                               ELSE Lookup(from, k)
      BY <2>3, <2>4, <2>5, LookupConcat
    <3>4. Lookup(x, k) = IF Lookup(from, k) # Absent THEN Lookup(from, k)
                         ELSE Lookup(a, k)
      BY <1>4, <2>3, LookupConcat
    <3>5. Lookup(y, k) = IF Lookup(left, k) # Absent THEN Lookup(left, k)
                         ELSE Lookup(b, k)
      BY <1>4, <2>3, LookupConcat
    <3> QED
      BY <3>1, <3>2, <3>3, <3>4, <3>5
  <2>9. /\ x \in Seq(AnySegment) /\ Len(x) = N + 1
        /\ y \in Seq(AnySegment) /\ Len(y) = N + 1
        /\ x[1] = pm.from /\ x[2] = pm.dest
        /\ y[1] = pm.survivors /\ y[2] = pm.newDest
        /\ \A i \in 3 .. N + 1 : /\ i - 2 \in Level /\ i - 2 > 0
                                 /\ x[i] = regular[i - 2] /\ y[i] = regular[i - 2]
    <3>1. /\ x \in Seq(AnySegment) /\ Len(x) = N + 1 /\ x[1] = pm.from
          /\ \A i \in 1 .. N : x[i + 1] = a[i]
      BY <1>4, <2>3, InFront DEF from
    <3>2. /\ y \in Seq(AnySegment) /\ Len(y) = N + 1 /\ y[1] = pm.survivors
          /\ \A i \in 1 .. N : y[i + 1] = b[i]
      BY <1>4, <2>3, InFront DEF left
    <3> HIDE DEF x, y
    <3>3. N >= 1
      BY <1>3
    <3>4. a[1] = pm.dest /\ b[1] = pm.newDest
      <4>1. 1 \in 1 .. N /\ 1 - 1 = 0 /\ 0 \in Level
        BY <1>3, <1>7
      <4>2. a[1] = regular[0] /\ b[1] = regular'[0]
        BY <1>4, <4>1
      <4> QED
        BY <1>1, <1>2, <1>7, <4>1, <4>2
    <3>5. ASSUME NEW i \in 3 .. N + 1
          PROVE  /\ i - 2 \in Level /\ i - 2 > 0
                 /\ x[i] = regular[i - 2] /\ y[i] = regular[i - 2]
      <4>1. i - 1 \in 1 .. N /\ (i - 1) - 1 = i - 2 /\ i - 2 > 0
        BY <1>3
      <4>2. a[i - 1] = regular[i - 2] /\ b[i - 1] = regular'[i - 2] /\ i - 2 \in Level
        BY <1>4, <4>1
      <4>3. regular'[i - 2] = regular[i - 2]
        BY <1>2, <1>7, <4>1, <4>2
      <4>4. (i - 1) + 1 = i
        BY <4>1
      <4>5. x[i] = a[i - 1] /\ y[i] = b[i - 1]
        BY <3>1, <3>2, <4>1, <4>4
      <4> QED
        BY <4>1, <4>2, <4>3, <4>5
    <3>6. x[2] = a[1] /\ y[2] = b[1]
      <4>1. 1 \in 1 .. N /\ 1 + 1 = 2
        BY <1>3, <3>3
      <4> QED
        BY <3>1, <3>2, <4>1
    <3> QED
      BY <3>1, <3>2, <3>4, <3>5, <3>6
  <2> HIDE DEF x, y
  <2>10. ASSUME NEW k \in Keys
         PROVE  LivingEntry(Lookup(y, k)) = LivingEntry(Lookup(x, k))
    <3>1. 1 \in 1 .. Len(x) /\ 1 + 1 \in 1 .. Len(x) /\ 1 + 1 = 2
      BY <1>3, <2>9
    <3>2. \A i \in 1 .. Len(x) : i # 1 /\ i # 1 + 1 => x[i].pairs[k] = y[i].pairs[k]
      BY <1>3, <2>9
    <3>3. (\A l \in Level : l > t => regular[l].pairs[k] = Absent)
            => \A i \in 1 .. Len(x) : i > 1 + 1 => x[i].pairs[k] = Absent
      BY <1>3, <1>7, <2>9
    <3>4. \/ /\ y[1].pairs[k] = x[1].pairs[k]
             /\ y[1 + 1].pairs[k] = x[1 + 1].pairs[k]
          \/ /\ y[1].pairs[k] = Absent
             /\ x[1].pairs[k] # Absent
             /\ y[1 + 1].pairs[k] = x[1].pairs[k]
          \/ /\ y[1].pairs[k] = Absent
             /\ x[1].pairs[k] = Tombstone
             /\ y[1 + 1].pairs[k] = Absent
             /\ \A i \in 1 .. Len(x) : i > 1 + 1 => x[i].pairs[k] = Absent
      BY <1>5, <2>9, <3>1, <3>3
    <3>5. Len(x) = Len(y)
      BY <2>9
    <3> QED
      BY <2>9, <3>1, <3>2, <3>4, <3>5, MovedBack
  <2>11. ASSUME NEW k \in Keys
         PROVE  LivingEntry(Lookup(Chain', k)) = LivingEntry(Lookup(Chain, k))
    <3>1. Chain' = incoming \o waiting' \o b
      BY <1>2 DEF Chain, RegularList, ListOf, b
    <3>2. Lookup(Chain', k) =
             IF Lookup(incoming, k) # Absent THEN Lookup(incoming, k)
             ELSE IF Lookup(waiting', k) # Absent THEN Lookup(waiting', k)
             ELSE Lookup(b, k)
      BY <1>4, <2>5, <3>1, ListsTyped, LookupChain
    <3>3. Lookup(Chain, k) =
             IF Lookup(incoming, k) # Absent THEN Lookup(incoming, k)
             ELSE IF Lookup(front, k) # Absent THEN Lookup(front, k)
             ELSE Lookup(x, k)
      BY <2>8, ViewAt DEF a
    <3>4. Lookup(Chain', k) =
             IF Lookup(incoming, k) # Absent THEN Lookup(incoming, k)
             ELSE IF Lookup(front, k) # Absent THEN Lookup(front, k)
             ELSE Lookup(y, k)
      BY <2>7, <2>8, <3>2
    <3> QED
      BY <2>10, <3>3, <3>4
  <2>12. ASSUME NEW k \in Keys
         PROVE  LivingEntry(Lookup(Chain, k))' = LivingEntry(Lookup(Chain, k))
    BY <2>11 DEF LivingEntry, Lookup, FrontIndex
  <2> QED
    BY <2>12, ViewAt DEF View, Living, Merged, LivingEntry
<1> QED
  BY <1>3, <1>6, <1>7

\* No merge step but the commit of a run of parents, and no restart, changes
\* the living value of a key.
LEMMA StepView ==
    ASSUME IInv, TypeOK', [Next]_vars, commits' = commits, ~CommitsRunOfParents
    PROVE  View' = View
<1>1. CASE UNCHANGED <<incoming, waiting, regular>>
  BY <1>1 DEF View, Chain, RegularList, Living, Merged, Lookup, FrontIndex
<1>2. ASSUME NEW seg \in NewSegments, CommitSegment(seg)
      PROVE  View' = View
  BY <1>2 DEF CommitSegment, IInv, TypeOK
<1>3. CASE PrepareMergeFromIncoming
  BY <1>1, <1>3 DEF PrepareMergeFromIncoming
<1>4. CASE CommitMergeFromIncoming
  BY <1>4, CommitMergeFromIncomingView
<1>5. ASSUME NEW t \in Thread, PrepareMerge(t)
      PROVE  View' = View
  BY <1>1, <1>5 DEF PrepareMerge
<1>6. ASSUME NEW t \in Thread, CommitMerge(t)
      PROVE  View' = View
  BY <1>6, CommitMergeView
<1>7. CASE Reopen
  BY <1>1, <1>7 DEF Reopen
<1>8. CASE UNCHANGED vars
  BY <1>1, <1>8 DEF vars
<1> QED
  BY <1>2, <1>3, <1>4, <1>5, <1>6, <1>7, <1>8 DEF Next, Merges

\* For any keys and any number of levels, readers do not notice merges.
THEOREM ReadersUndisturbed == Spec => MergesPreserveView
<1>1. IInv /\ IInv' /\ [Next]_vars
        => [commits' = commits /\ ~CommitsRunOfParents => View' = View]_vars
  BY StepView DEF IInv
<1> QED
  BY <1>1, Inductive, PTL DEF Spec, MergesPreserveView

-----------------------------------------------------------------------------
(* Paced writers: the lists implement a plain map.                         *)

OneParentAtMost ==
    \A i, j \in 1 .. Len(incoming) :
        incoming[i].kind = "parent" /\ incoming[j].kind = "parent" => i = j

RunOfParents ==
    pendingIncoming.busy /\ pendingIncoming.withoutRewrite
        => \A i \in 1 .. Len(pendingIncoming.segments) :
              pendingIncoming.segments[i].kind = "parent"

PacedInv == OneParentAtMost /\ RunOfParents

\* An empty incoming holds no parents.
LEMMA PacedInit == Init => PacedInv
BY EmptySeq DEF Init, PacedInv, OneParentAtMost, RunOfParents, IdleIncoming

\* A paced step keeps at most one parent in incoming.
LEMMA PacedStep ==
    ASSUME IInv, PacedInv, [PacedNext]_vars
    PROVE  PacedInv'
<1> USE DEF IInv, PacedInv
<1>1. incoming \in Seq(Segment) /\ Len(incoming) \in Nat
  BY LenProperties DEF TypeOK
<1>2. ASSUME NEW seg \in NewSegments, CommitSegment(seg),
             seg.kind = "parent" => NoParentIn(incoming)
      PROVE  PacedInv'
  <2>1. seg \in Segment
    BY NewSegmentsAreSegments
  <2>2. /\ Len(incoming') = Len(incoming) + 1
        /\ incoming'[1] = seg
        /\ \A i \in 1 .. Len(incoming) : incoming'[i + 1] = incoming[i]
    BY <1>1, <1>2, <2>1, InFront DEF CommitSegment
  <2>3. \A i \in 1 .. Len(incoming') :
           \/ i = 1
           \/ i - 1 \in 1 .. Len(incoming) /\ incoming'[i] = incoming[i - 1]
    <3>1. ASSUME NEW i \in 1 .. Len(incoming'), i # 1
          PROVE  i - 1 \in 1 .. Len(incoming) /\ incoming'[i] = incoming[i - 1]
      <4>1. i - 1 \in 1 .. Len(incoming) /\ (i - 1) + 1 = i
        BY <1>1, <2>2, <3>1
      <4> QED
        BY <2>2, <4>1
    <3> QED
      BY <3>1
  <2>4. OneParentAtMost'
    <3>1. ASSUME NEW i \in 1 .. Len(incoming'), NEW j \in 1 .. Len(incoming'),
                 incoming'[i].kind = "parent", incoming'[j].kind = "parent",
                 i # j
          PROVE  FALSE
      <4>1. CASE i = 1 \/ j = 1
        <5>1. NoParentIn(incoming)
          BY <1>2, <2>2, <3>1, <4>1
        <5>2. \A m \in 1 .. Len(incoming) : incoming[m].kind # "parent"
          BY <1>1, <5>1, LenProperties DEF NoParentIn
        <5> QED
          BY <2>3, <3>1, <4>1, <5>2
      <4>2. CASE i # 1 /\ j # 1
        <5>1. /\ i - 1 \in 1 .. Len(incoming) /\ incoming[i - 1].kind = "parent"
              /\ j - 1 \in 1 .. Len(incoming) /\ incoming[j - 1].kind = "parent"
          BY <2>3, <3>1, <4>2
        <5>2. i - 1 = j - 1
          BY <5>1 DEF OneParentAtMost
        <5> QED
          BY <3>1, <5>2
      <4> QED
        BY <4>1, <4>2
    <3> QED
      BY <3>1 DEF OneParentAtMost
  <2> QED
    BY <1>2, <2>4 DEF RunOfParents, CommitSegment
<1>3. CASE PrepareMergeFromIncoming
  <2>1. incoming # <<>>
    BY <1>3 DEF PrepareMergeFromIncoming, NeedsMergeIncoming
  <2>2. \A i \in 1 .. Len(OldestRun) :
           OldestRun[i].kind = incoming[Len(incoming)].kind
    BY <2>1, OldestRunProperties
  <2>3. RunOfParents'
    BY <1>3, <2>2 DEF PrepareMergeFromIncoming, RunOfParents
  <2> QED
    BY <1>3, <2>3 DEF PrepareMergeFromIncoming, OneParentAtMost
<1>4. CASE CommitMergeFromIncoming
  <2> DEFINE m == Len(incoming) - Len(pendingIncoming.segments)
  <2>1. m \in 0 .. Len(incoming) /\ m \in Int
    <3>1. Len(pendingIncoming.segments) \in 1 .. Len(incoming)
      BY <1>4 DEF PendingIsCurrent, CommitMergeFromIncoming
    <3> QED
      BY <1>1, <3>1
  <2>2. incoming' = SubSeq(incoming, 1, m)
    BY <1>4 DEF CommitMergeFromIncoming
  <2> HIDE DEF m
  <2>3. \A i \in 1 .. m : incoming[i] \in Segment
    BY <1>1, <2>1, ElementOfSeq
  <2>4. /\ Len(incoming') = IF 1 <= m THEN m - 1 + 1 ELSE 0
        /\ \A i \in 1 .. m - 1 + 1 : incoming'[i] = incoming[1 + i - 1]
    BY <2>1, <2>2, <2>3, SubSeqProperties
  <2>5. Len(incoming') = m
    BY <2>1, <2>4
  <2>6. ASSUME NEW i \in 1 .. Len(incoming')
        PROVE  i \in 1 .. Len(incoming) /\ incoming'[i] = incoming[i]
    <3>1. i \in 1 .. m - 1 + 1 /\ 1 + i - 1 = i /\ i \in 1 .. Len(incoming)
      BY <1>1, <2>1, <2>5
    <3> QED
      BY <2>4, <3>1
  <2>7. OneParentAtMost'
    BY <2>6 DEF OneParentAtMost
  <2> QED
    BY <1>4, <2>7 DEF CommitMergeFromIncoming, RunOfParents, IdleIncoming
<1>5. ASSUME NEW t \in Thread, PrepareMerge(t)
      PROVE  PacedInv'
  BY <1>5 DEF PrepareMerge, OneParentAtMost, RunOfParents
<1>6. ASSUME NEW t \in Thread, CommitMerge(t)
      PROVE  PacedInv'
  BY <1>6 DEF CommitMerge, OneParentAtMost, RunOfParents
<1>7. CASE Reopen
  BY <1>7 DEF Reopen, OneParentAtMost, RunOfParents, IdleIncoming
<1>8. CASE UNCHANGED vars
  BY <1>8 DEF vars, OneParentAtMost, RunOfParents
<1> QED
  BY <1>2, <1>3, <1>4, <1>5, <1>6, <1>7, <1>8 DEF PacedNext, Merges

\* Pacing only takes steps away.
LEMMA PacedNextIsNext == [PacedNext]_vars => [Next]_vars
BY DEF PacedNext, Next

\* A promoted run of parents would be two parents in incoming.
LEMMA NoRunOfParents ==
    ASSUME IInv, PacedInv
    PROVE  ~CommitsRunOfParents
<1> SUFFICES ASSUME CommitsRunOfParents PROVE FALSE
  OBVIOUS
<1> DEFINE n == Len(pendingIncoming.segments)
<1>1. /\ pendingIncoming.busy /\ pendingIncoming.withoutRewrite /\ n > 1
      /\ n \in 1 .. Len(incoming)
      /\ \A i \in 1 .. n :
            pendingIncoming.segments[i] = incoming[Len(incoming) - n + i]
  BY DEF CommitsRunOfParents, CommitMergeFromIncoming, IInv, PendingIsCurrent
<1>2. Len(incoming) \in Nat
  BY LenProperties DEF IInv, TypeOK
<1>3. \A i \in 1 .. n : incoming[Len(incoming) - n + i].kind = "parent"
  BY <1>1 DEF PacedInv, RunOfParents
<1> HIDE DEF n
<1> DEFINE x == Len(incoming) - n + 1
           y == Len(incoming) - n + 2
<1>4. 1 \in 1 .. n /\ 2 \in 1 .. n
  BY <1>1, <1>2
<1>5. incoming[x].kind = "parent" /\ incoming[y].kind = "parent"
  BY <1>3, <1>4
<1>6. x \in 1 .. Len(incoming) /\ y \in 1 .. Len(incoming) /\ x # y
  BY <1>1, <1>2
<1> HIDE DEF x, y
<1> QED
  BY <1>5, <1>6 DEF PacedInv, OneParentAtMost

\* A commit is one write of the map.
LEMMA CommitSegmentWrites ==
    ASSUME IInv, NEW seg \in NewSegments, CommitSegment(seg), TypeOK'
    PROVE  Store!Next
<1> DEFINE batch == seg.pairs
<1>1. seg \in Segment /\ seg \in AnySegment /\ batch \in PairSet
  BY NewSegmentsAreSegments, SegmentTypes DEF MaybeSegment, AnySegment
<1>2. KeysOf(batch) # {}
  <2>1. PICK p \in PairSet : seg \in SegmentsOf(p)
    BY DEF NewSegments
  <2>2. seg.pairs = p
    BY <2>1, SegmentsOfPairs
  <2>3. seg # NoSegment
    BY DEF NewSegments
  <2>4. KeysOf(p) # {}
    BY <2>1, <2>3 DEF SegmentsOf
  <2> QED
    BY <2>2, <2>4
<1>3. ASSUME NEW k \in Keys
      PROVE  Lookup(Chain', k) = IF batch[k] # Absent THEN batch[k]
                                 ELSE Lookup(Chain, k)
  <2> DEFINE one == <<seg>>
  <2>1. one \in Seq(AnySegment)
    BY <1>1
  <2>2. /\ incoming \in Seq(AnySegment) /\ waiting \in Seq(AnySegment)
        /\ ListOf(regular) \in Seq(AnySegment)
    BY ListsTyped DEF IInv
  <2>3. Lookup(one, k) = batch[k]
    BY <1>1, LookupSingle
  <2> HIDE DEF one
  <2>4. Chain' = (one \o incoming) \o waiting \o ListOf(regular)
    BY DEF CommitSegment, Chain, RegularList, ListOf, one
  <2>5. one \o incoming \in Seq(AnySegment)
    BY <2>1, <2>2, ConcatProperties
  <2>6. Lookup(one \o incoming, k) = IF Lookup(one, k) # Absent
                                     THEN Lookup(one, k) ELSE Lookup(incoming, k)
    BY <2>1, <2>2, LookupConcat
  <2>7. Lookup(Chain', k) =
           IF Lookup(one \o incoming, k) # Absent THEN Lookup(one \o incoming, k)
           ELSE IF Lookup(waiting, k) # Absent THEN Lookup(waiting, k)
           ELSE Lookup(ListOf(regular), k)
    BY <2>2, <2>4, <2>5, LookupChain
  <2> QED
    BY <2>3, <2>6, <2>7, ViewAt DEF IInv
<1>4. ASSUME NEW k \in Keys
      PROVE  Lookup(Chain, k)' = IF batch[k] # Absent THEN batch[k]
                                 ELSE Lookup(Chain, k)
  BY <1>3 DEF Lookup, FrontIndex
<1>5. View' = Living(Overlay(batch, View))
  <2>1. /\ View = [k \in Keys |-> LivingEntry(Lookup(Chain, k))]
        /\ View' = [k \in Keys |-> LivingEntry(Lookup(Chain, k)')]
    BY DEF View, Living, Merged, LivingEntry
  <2>2. Living(Overlay(batch, View)) =
           [k \in Keys |-> LivingEntry(IF batch[k] # Absent THEN batch[k]
                                       ELSE View[k])]
    BY DEF Living, Overlay, LivingEntry
  <2>3. ASSUME NEW k \in Keys
        PROVE  LivingEntry(Lookup(Chain, k)') =
                  LivingEntry(IF batch[k] # Absent THEN batch[k] ELSE View[k])
    <3>1. View[k] = LivingEntry(Lookup(Chain, k))
      BY <2>1
    <3> QED
      BY <1>4, <3>1, PairsAssumption DEF LivingEntry
  <2> QED
    BY <2>1, <2>2, <2>3
<1>6. Store!Write(batch)
  BY <1>5 DEF Store!Write, Living, Overlay, Store!Living, Store!Overlay,
            CommitSegment
<1> QED
  BY <1>1, <1>2, <1>6 DEF Store!Next, PairSet, KeysOf, Entry, Store!PairSet,
                          Store!KeysOf, Store!Entry

\* An empty tree is an empty store.
LEMMA InitStore == Init => Store!Init
<1> SUFFICES ASSUME Init PROVE Store!Init
  OBVIOUS
<1>1. IInv
  BY InitInv
<1>2. ASSUME NEW k \in Keys
      PROVE  Lookup(Chain, k) = Absent
  <2>1. Lookup(incoming, k) = Absent /\ Lookup(waiting, k) = Absent
    BY LookupEmpty DEF Init
  <2>2. /\ ListOf(regular) \in Seq(AnySegment)
        /\ \A i \in DOMAIN ListOf(regular) :
              ListOf(regular)[i].pairs[k] = Absent
    <3>1. regular \in [Level -> MaybeSegment]
      BY <1>1 DEF IInv, TypeOK
    <3>2. \A i \in 1 .. NumRegularLevels : i - 1 \in Level
      BY LsmTreeAssumption DEF Level
    <3>3. \A i \in 1 .. NumRegularLevels : ListOf(regular)[i] = NoSegment
      BY <3>2 DEF ListOf, Init
    <3> QED
      BY <3>1, <3>3, ListOfType, LenProperties, SegmentTypes
  <2>3. Lookup(ListOf(regular), k) = Absent
    BY <2>2, LookupAbsent
  <2> QED
    BY <1>1, <2>1, <2>3, ViewAt DEF IInv
<1>3. View = NoPairs
  BY <1>1, <1>2, ViewAt, PairsAssumption DEF IInv, NoPairs, LivingEntry
<1> QED
  BY <1>3 DEF Init, Store!Init, NoPairs, Store!NoPairs

\* The header lists and the merges between them implement the map: every
\* commit of a segment is one write, and every other step a stutter.
THEOREM PacedImplementsKvStore == PacedSpec => ImplementsKvStore
<1>1. PacedSpec => [](IInv /\ PacedInv)
  <2>1. Init => IInv /\ PacedInv
    BY InitInv, PacedInit
  <2>2. (IInv /\ PacedInv) /\ [PacedNext]_vars => (IInv /\ PacedInv)'
    BY StepInv, PacedStep, PacedNextIsNext
  <2> QED
    BY <2>1, <2>2, PTL DEF PacedSpec
<1>2. IInv /\ PacedInv /\ IInv' /\ [PacedNext]_vars => [Store!Next]_(Store!vars)
  <2> SUFFICES ASSUME IInv, PacedInv, IInv', [PacedNext]_vars
               PROVE  [Store!Next]_(Store!vars)
    OBVIOUS
  <2>1. TypeOK'
    BY DEF IInv
  <2>2. CASE commits' = commits
    <3>1. View' = View
      <4>1. [Next]_vars
        BY PacedNextIsNext
      <4>2. ~CommitsRunOfParents
        BY NoRunOfParents
      <4> QED
        BY <2>1, <2>2, <4>1, <4>2, StepView
    <3>2. commits \in Int
      BY DEF IInv, TypeOK
    <3>3. lastBatch' = lastBatch
      <4>1. ASSUME NEW seg, CommitSegment(seg) PROVE FALSE
        BY <2>2, <3>2, <4>1 DEF CommitSegment
      <4>2. Merges \/ Reopen \/ UNCHANGED vars
        BY <4>1 DEF PacedNext
      <4> QED
        BY <4>2
           DEF Merges, vars, PrepareMergeFromIncoming, CommitMergeFromIncoming,
               PrepareMerge, CommitMerge, Reopen
    <3> QED
      BY <3>1, <3>3 DEF Store!vars
  <2>3. CASE commits' # commits
    <3>1. PICK seg \in NewSegments : CommitSegment(seg)
      BY <2>3 DEF PacedNext, Merges, vars, PrepareMergeFromIncoming, Reopen,
                  CommitMergeFromIncoming, PrepareMerge, CommitMerge
    <3> QED
      BY <2>1, <3>1, CommitSegmentWrites
  <2> QED
    BY <2>2, <2>3
<1> QED
  BY <1>1, <1>2, InitStore, PTL DEF PacedSpec, ImplementsKvStore, Store!Spec

-----------------------------------------------------------------------------
(* The process that runs.                                                  *)

\* A step of a running process is a step of LsmTree, or changes nothing of the
\* header and of the merges under way.
LEMMA RunningStep == [Running]_runningVars => [Next]_vars
<1> SUFFICES ASSUME [Running]_runningVars
             PROVE  [Next]_vars
  OBVIOUS
<1>1. ASSUME NEW seg \in NewSegments, WriterCommits(seg)
      PROVE  Next
  BY <1>1 DEF WriterCommits, Next
<1>2. CASE IncomingPrepares
  BY <1>2 DEF IncomingPrepares, Next, Merges
<1>3. CASE IncomingCommits
  BY <1>3 DEF IncomingCommits, Next, Merges
<1>4. CASE IncomingHeldBack
  BY <1>4 DEF IncomingHeldBack
<1>5. ASSUME NEW t \in Thread, ThreadPrepares(t)
      PROVE  Next
  BY <1>5 DEF ThreadPrepares, Next, Merges
<1>6. ASSUME NEW t \in Thread, ThreadCommits(t)
      PROVE  Next
  BY <1>6 DEF ThreadCommits, Next, Merges
<1>7. ASSUME NEW t \in Thread, ThreadHeldBack(t) \/ MeetsPoisonedLock(t)
      PROVE  UNCHANGED vars
  BY <1>7 DEF ThreadHeldBack, MeetsPoisonedLock
<1>8. CASE LastPanics
  BY <1>8 DEF LastPanics
<1>9. CASE ReopenAll
  BY <1>9 DEF ReopenAll, Next
<1>10. CASE UNCHANGED runningVars
  BY <1>10 DEF runningVars
<1> QED
  BY <1>1, <1>2, <1>3, <1>4, <1>5, <1>6, <1>7, <1>8, <1>9, <1>10 DEF Running

\* Threads that wait until they are told, hold each other back and panic make
\* fewer merges than LsmTree allows, never others: whatever is proved of LsmTree
\* holds of the process that runs.  (merge_loop, merge)
THEOREM RunningIsLsmTree == RunningSpec => Spec
<1>1. RunningInit => Init
  BY DEF RunningInit
<1> QED
  BY <1>1, RunningStep, PTL DEF RunningSpec, Spec

\* Of the process that runs: no merge is committed from segments that are no
\* longer there, none drops a tombstone that still hides something, and only a
\* commit of a writer changes what is read.
THEOREM RunningIsSafe ==
    RunningSpec => /\ []PendingIsCurrent
                   /\ []DroppedTombstonesHideNothing
                   /\ []NoTombstoneInLastLevel
                   /\ MergesPreserveView
BY RunningIsLsmTree, PendingStaysCurrent, DroppingIsSafe, LastLevelClean,
   ReadersUndisturbed, PTL
=============================================================================
