------------------------------ MODULE LsmTree ------------------------------
(***************************************************************************)
(* The segment lists of the database header and the merges that move pairs *)
(* down them: lsm/src/lib.rs, InnerPart.  A reader searches incoming, then *)
(* waiting, then the regular levels, and the first segment that has a key  *)
(* decides.  Writers put segments in front of incoming; the merge threads  *)
(* move runs of segments from incoming to waiting and ranges of keys from  *)
(* waiting to regular level 0 and from each regular level to the next.     *)
(*                                                                         *)
(* A merge is prepared from a snapshot of the header and committed later:  *)
(* between the two, writers and the other merge threads change the header. *)
(* Here a merge may be prepared whenever its level needs it; which threads *)
(* have been told to look is in RunningTree.  Pages, and the reclaiming of *)
(* the pages of dead segments, are left to Reclaim; channels, locks and    *)
(* sleeping to MergeLevels.                                                *)
(***************************************************************************)
EXTENDS Pairs

CONSTANTS NumRegularLevels,  \* NUM_REGULAR_LEVELS
          DesperateWaiting,  \* settings.desperate_waiting
          MaxCommits         \* bound: segments committed by writers

ASSUME LsmTreeAssumption ==
    /\ NumRegularLevels \in Nat \ {0}
    /\ DesperateWaiting \in Nat
    /\ MaxCommits \in Nat

VARIABLES incoming,         \* header.incoming, newest segment first
          waiting,          \* header.waiting; the last one is merged next
          regular,          \* header.regular, NoSegment for a depleted level
          pendingIncoming,  \* PendingMergeFromIncoming between prepare and commit
          pending,          \* PendingMerge of each other merge thread
          commits,          \* number of segments committed so far
          lastBatch         \* the pairs of the segment committed last

vars == <<incoming, waiting, regular, pendingIncoming, pending, commits, lastBatch>>

Level == 0 .. NumRegularLevels - 1

\* The merge threads other than the incoming one.  Thread t promotes into
\* regular level t: thread 0 from waiting, thread t from regular level t - 1.
Thread == Level

-----------------------------------------------------------------------------
(* Segments.  The root page of a segment is a leaf or a parent, and a      *)
(* parent has at least two children, hence at least two keys.              *)

Segment == [kind : {"leaf", "parent"}, pairs : PairSet]
NoSegment == [kind |-> "none", pairs |-> NoPairs]
MaybeSegment == Segment \cup {NoSegment}

Several(K) == \E a, b \in K : a # b

\* The segments that writing the pairs p can produce.  How many leaves they
\* fill is left open; writing no pairs produces no segment.
SegmentsOf(p) ==
    IF KeysOf(p) = {} THEN {NoSegment}
    ELSE {[kind |-> "leaf", pairs |-> p]} \cup
         (IF Several(KeysOf(p)) THEN {[kind |-> "parent", pairs |-> p]} ELSE {})

-----------------------------------------------------------------------------
Idle == [busy |-> FALSE, from |-> NoSegment, dest |-> NoSegment,
         survivors |-> NoSegment, newDest |-> NoSegment]

PendingMerge == [busy : BOOLEAN, from : MaybeSegment, dest : MaybeSegment,
                 survivors : MaybeSegment, newDest : MaybeSegment]

IdleIncoming == [busy |-> FALSE, segments |-> <<>>, withoutRewrite |-> FALSE,
                 newDest |-> NoSegment]

PendingMergeFromIncoming ==
    [busy : BOOLEAN, segments : Seq(Segment), withoutRewrite : BOOLEAN,
     newDest : MaybeSegment]

TypeOK ==
    /\ incoming \in Seq(Segment)
    /\ waiting \in Seq(Segment)
    /\ regular \in [Level -> MaybeSegment]
    /\ pendingIncoming \in PendingMergeFromIncoming
    /\ pending \in [Thread -> PendingMerge]
    /\ commits \in 0 .. MaxCommits
    /\ lastBatch \in PairSet

Init ==
    /\ incoming = <<>>
    /\ waiting = <<>>
    /\ regular = [l \in Level |-> NoSegment]
    /\ pendingIncoming = IdleIncoming
    /\ pending = [t \in Thread |-> Idle]
    /\ commits = 0
    /\ lastBatch = NoPairs

-----------------------------------------------------------------------------
(* Writers.                                                                *)

CommitSegment(seg) ==
    /\ commits < MaxCommits
    /\ incoming' = <<seg>> \o incoming
    /\ commits' = commits + 1
    /\ lastBatch' = seg.pairs
    /\ UNCHANGED <<waiting, regular, pendingIncoming, pending>>

-----------------------------------------------------------------------------
(* From incoming to waiting.                                               *)

NeedsMergeIncoming ==
    /\ incoming # <<>>
    /\ incoming[Len(incoming)].kind = "parent" \/ Len(incoming) > 1

\* The oldest segments of incoming, as far as they are all of one kind.
RunStart ==
    CHOOSE i \in 1 .. Len(incoming) :
        /\ \A j \in i .. Len(incoming) :
              incoming[j].kind = incoming[Len(incoming)].kind
        /\ i > 1 => incoming[i - 1].kind # incoming[Len(incoming)].kind

OldestRun == SubSeq(incoming, RunStart, Len(incoming))

PrepareMergeFromIncoming ==
    /\ ~pendingIncoming.busy
    /\ NeedsMergeIncoming
    /\ Len(waiting) <= DesperateWaiting
    /\ \/ /\ incoming[Len(incoming)].kind = "parent"
          /\ pendingIncoming' =
                [busy |-> TRUE, segments |-> OldestRun, withoutRewrite |-> TRUE,
                 newDest |-> NoSegment]
       \/ /\ incoming[Len(incoming)].kind = "leaf"
          /\ \E seg \in SegmentsOf(Merged(OldestRun)) :
                pendingIncoming' =
                    [busy |-> TRUE, segments |-> OldestRun,
                     withoutRewrite |-> FALSE, newDest |-> seg]
    /\ UNCHANGED <<incoming, waiting, regular, pending, commits, lastBatch>>

Backwards(s) == [i \in 1 .. Len(s) |-> s[Len(s) + 1 - i]]

WaitingWithMergedLast(pm) ==
    IF pm.withoutRewrite THEN Backwards(pm.segments) \o waiting
    ELSE IF pm.newDest = NoSegment THEN waiting
    ELSE waiting \o <<pm.newDest>>

\* Parents are moved one at a time, each to the front of waiting: the loop
\* takes the newest of the run first, so the run arrives in reverse.
WaitingAfter(pm) ==
    IF pm.withoutRewrite THEN Backwards(pm.segments) \o waiting
    ELSE IF pm.newDest = NoSegment THEN waiting
    ELSE <<pm.newDest>> \o waiting

CommitMergeFromIncoming ==
    /\ pendingIncoming.busy
    /\ incoming' = SubSeq(incoming, 1, Len(incoming) - Len(pendingIncoming.segments))
    /\ waiting' = WaitingAfter(pendingIncoming)
    /\ pendingIncoming' = IdleIncoming
    /\ UNCHANGED <<regular, pending, commits, lastBatch>>

-----------------------------------------------------------------------------
(* From waiting to regular level 0, and from a regular level to the next.  *)

MergeLocksOfSourceOnly(t) == {t}

\* The merge locks of thread t: lock 0 is mergelock_waiting, lock l + 1 is
\* mergelock_regular[l].  They are held from prepare to commit.
MergeLocks(t) == {t, t + 1}

LocksFree(t) ==
    \A u \in Thread : pending[u].busy => MergeLocks(u) \cap MergeLocks(t) = {}

Source(t) ==
    IF t > 0 THEN regular[t - 1]
    ELSE IF waiting = <<>> THEN NoSegment ELSE waiting[Len(waiting)]

NeedsMergeAboveOne(t) ==
    /\ Source(t) # NoSegment
    /\ t = 0 => Len(waiting) > 1
    /\ t > 0 /\ Source(t).kind = "leaf" => HasTombstone(Source(t).pairs)

\* needs_merge.  The size of a regular level is left open: a parent without
\* tombstones may or may not be big enough to be promoted.
NeedsMerge(t) ==
    /\ Source(t) # NoSegment
    /\ t > 0 /\ Source(t).kind = "leaf" => HasTombstone(Source(t).pairs)

\* The keys a merge promotes: all of a leaf, the keys of some contiguous
\* leaves of a parent.
Promotable(seg) ==
    IF seg.kind = "leaf" THEN {KeysOf(seg.pairs)}
    ELSE {{k \in KeysOf(seg.pairs) : lo <= k /\ k <= hi} :
              lo \in KeysOf(seg.pairs), hi \in KeysOf(seg.pairs)} \ {{}}

NecessaryIfInNextLevel(t, k) ==
    \E l \in Level : l = t + 1 /\ regular[l].pairs[k] # Absent

NecessaryIfInDest(t, k) ==
    \E l \in Level : l >= t /\ regular[l].pairs[k] # Absent

\* A tombstone promoted into level t is kept iff a segment behind t has the key.
NecessaryTombstone(t, k) ==
    \E l \in Level : l > t /\ regular[l].pairs[k] # Absent

MergeIntoDestWins(t, promoted) ==
    [k \in Keys |->
        IF regular[t].pairs[k] # Absent THEN regular[t].pairs[k]
        ELSE IF promoted[k] = Tombstone /\ ~NecessaryTombstone(t, k) THEN Absent
        ELSE promoted[k]]

MergeInto(t, promoted) ==
    [k \in Keys |->
        IF promoted[k] = Absent THEN regular[t].pairs[k]
        ELSE IF promoted[k] = Tombstone /\ ~NecessaryTombstone(t, k) THEN Absent
        ELSE promoted[k]]

PrepareMerge(t) ==
    /\ ~pending[t].busy
    /\ LocksFree(t)
    /\ NeedsMerge(t)
    /\ \E K \in Promotable(Source(t)) :
       \E newDest \in SegmentsOf(MergeInto(t, Only(Source(t).pairs, K))),
          survivors \in SegmentsOf(Only(Source(t).pairs, Keys \ K)) :
            pending' = [pending EXCEPT ![t] =
                [busy |-> TRUE, from |-> Source(t), dest |-> regular[t],
                 survivors |-> survivors, newDest |-> newDest]]
    /\ UNCHANGED <<incoming, waiting, regular, pendingIncoming, commits, lastBatch>>

WaitingKeepingEmpty(survivors) ==
    SubSeq(waiting, 1, Len(waiting) - 1) \o <<survivors>>

\* The survivors take the place of the segment they are left of.
WaitingWithSurvivors(survivors) ==
    IF survivors = NoSegment THEN SubSeq(waiting, 1, Len(waiting) - 1)
    ELSE [waiting EXCEPT ![Len(waiting)] = survivors]

CommitMerge(t) ==
    LET pm == pending[t] IN
    /\ pm.busy
    /\ waiting' = IF t = 0 THEN WaitingWithSurvivors(pm.survivors) ELSE waiting
    /\ regular' = [l \in Level |-> IF l = t THEN pm.newDest
                                   ELSE IF l = t - 1 THEN pm.survivors
                                   ELSE regular[l]]
    /\ pending' = [pending EXCEPT ![t] = Idle]
    /\ UNCHANGED <<incoming, pendingIncoming, commits, lastBatch>>

-----------------------------------------------------------------------------
(* The process dies and the file is opened again: the header survives,     *)
(* prepared merges do not.                                                 *)
Reopen ==
    /\ pendingIncoming' = IdleIncoming
    /\ pending' = [t \in Thread |-> Idle]
    /\ UNCHANGED <<incoming, waiting, regular, commits, lastBatch>>

NewSegments == (UNION {SegmentsOf(p) : p \in PairSet}) \ {NoSegment}

Merges ==
    \/ PrepareMergeFromIncoming
    \/ CommitMergeFromIncoming
    \/ \E t \in Thread : PrepareMerge(t)
    \/ \E t \in Thread : CommitMerge(t)

Next ==
    \/ \E seg \in NewSegments : CommitSegment(seg)
    \/ Merges
    \/ Reopen

Spec == Init /\ [][Next]_vars

\* Writers that commit a parent segment only when incoming holds no other
\* parent, so that no run of several parents is ever promoted at once.
NoParentIn(segs) == \A i \in DOMAIN segs : segs[i].kind # "parent"

PacedNext ==
    \/ \E seg \in NewSegments :
          /\ seg.kind = "parent" => NoParentIn(incoming)
          /\ CommitSegment(seg)
    \/ Merges
    \/ Reopen

PacedSpec == Init /\ [][PacedNext]_vars

-----------------------------------------------------------------------------
(* What a cursor opened now would show: open_cursor chains incoming,       *)
(* waiting and the regular levels, in this order.                          *)
RegularList == [i \in 1 .. NumRegularLevels |-> regular[i - 1]]

Chain == incoming \o waiting \o RegularList

View == Living(Merged(Chain))

-----------------------------------------------------------------------------
(* Properties.                                                             *)

\* The commit that takes several parent segments out of incoming at once.
CommitsRunOfParents ==
    /\ CommitMergeFromIncoming
    /\ pendingIncoming.withoutRewrite
    /\ Len(pendingIncoming.segments) > 1

\* What a reader sees changes only when a writer commits a segment: no merge,
\* however long ago its input was read, and no restart, changes the living
\* value of any key.  The one merge step left out is the one
\* NoStepButCommitChangesView is about.  (prepare_merge, commit_merge)
MergesPreserveView ==
    [][commits' = commits /\ ~CommitsRunOfParents => View' = View]_vars

\* The same of every merge step.  A reader that has seen the last value
\* written to a key keeps seeing it until the next write.
NoStepButCommitChangesView ==
    [][commits' = commits => View' = View]_vars

\* The assertions of commit_merge and find_segments_in_list: what a merge was
\* prepared from is still where it was when the merge is committed, whatever
\* writers and the other threads committed meanwhile.
PendingIsCurrent ==
    /\ \A t \in Thread : pending[t].busy =>
          /\ pending[t].from # NoSegment
          /\ pending[t].from = Source(t)
          /\ pending[t].dest = regular[t]
    /\ pendingIncoming.busy =>
          LET n == Len(pendingIncoming.segments) IN
          /\ n \in 1 .. Len(incoming)
          /\ \A i \in 1 .. n :
                pendingIncoming.segments[i] = incoming[Len(incoming) - n + i]

\* The tombstones a prepared merge drops.
Dropped(t) ==
    {k \in Keys : /\ pending[t].from.pairs[k] = Tombstone
                  /\ pending[t].survivors.pairs[k] = Absent
                  /\ pending[t].newDest.pairs[k] = Absent}

\* A tombstone is dropped because nothing behind the destination had its key
\* when the merge was prepared.  Nothing has it at any time until the merge is
\* committed either, though deeper merges commit in between and the read locks
\* on the segments behind are long released.  (necessary_tombstone)
DroppedTombstonesHideNothing ==
    \A t \in Thread : pending[t].busy =>
        \A k \in Dropped(t) : \A l \in Level :
            l > t => regular[l].pairs[k] = Absent

\* The last level, which is never a source, never holds a tombstone, so no
\* tombstone is kept for ever.
NoTombstoneInLastLevel == ~HasTombstone(regular[NumRegularLevels - 1].pairs)

\* The header lists implement a plain map, when no run of parents is promoted
\* at once: a commit writes its batch, every other step changes nothing.
Store == INSTANCE KvStore WITH store <- View, last <- lastBatch
ImplementsKvStore == Store!Spec
=============================================================================
