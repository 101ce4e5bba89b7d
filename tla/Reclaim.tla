------------------------------ MODULE Reclaim ------------------------------
(***************************************************************************)
(* When the pages of a dead segment may be used again: lsm/src/lib.rs,     *)
(* Space (rlocks, zombies, dependencies) with the header, the cursors, the *)
(* writers and the merges that use it.                                     *)
(*                                                                         *)
(* A merge replaces segments of the header by new ones, which go on using  *)
(* some of the old pages, and the rest becomes inactive.  A cursor opened  *)
(* earlier still reads all of the old pages.  Space knows segments by      *)
(* their root page number only, and root pages too are used again.         *)
(*                                                                         *)
(* Which level a segment is on is left to LsmTree, and how free pages are  *)
(* grouped in blocks to BlockAllocator.                                    *)
(***************************************************************************)
EXTENDS Integers, FiniteSets

CONSTANTS Page,      \* page numbers of the file
          Reader,    \* readers, each with at most one cursor open
          Merger,    \* merge threads
          MaxFresh   \* bound: pages that one segment is newly written to

ASSUME ReclaimAssumption ==
    /\ Reader \cap Merger = {}
    /\ MaxFresh \in Nat

Holder == Reader \cup Merger

Segment == {s \in [root : Page, pages : SUBSET Page] : s.root \in s.pages}

AllPages(S) == UNION {s.pages : s \in S}
Roots(S) == {s.root : s \in S}

VARIABLES live,          \* the segments of the header
          written,       \* segments written and not (or never) committed
          merges,        \* each merge thread: what it reads, what it has written
          held,          \* segments each read lock was taken on (rlocks has their roots)
          zombies,       \* inactive pages by root of their last segment
          dependencies,  \* roots of old segments a segment's pages may be shared with
          free,          \* free_blocks, recent_free and the pages beyond next_page
         leaked         \* pages of old segments that nobody remembers

vars == <<live, written, merges, held, zombies, dependencies, free, leaked>>

\* A merge reads its sources, the segments that are promoted and the one they
\* are merged into.  Then it holds what it has written until it is committed:
\* the new segments, for each the sources it may share pages with, the pages
\* of each source that none of them uses, and those that are in neither.
Idle == [stage |-> "idle", from |-> {}, into |-> {}, outputs |-> {},
         dependsOn |-> [p \in Page |-> {}], inactive |-> [p \in Page |-> {}],
         forgotten |-> {}]

MergeState ==
    [stage : {"idle", "reading", "written"},
     from : SUBSET Segment, into : SUBSET Segment, outputs : SUBSET Segment,
     dependsOn : [Page -> SUBSET Page], inactive : [Page -> SUBSET Page],
     forgotten : SUBSET Page]

Sources(pm) == pm.from \cup pm.into

TypeOK ==
    /\ live \subseteq Segment
    /\ written \subseteq Segment
    /\ merges \in [Merger -> MergeState]
    /\ held \in [Holder -> SUBSET Segment]
    /\ zombies \in [Page -> SUBSET Page]
    /\ dependencies \in [Page -> SUBSET Page]
    /\ free \subseteq Page
    /\ leaked \subseteq Page

Init ==
    /\ live = {}
    /\ written = {}
    /\ merges = [m \in Merger |-> Idle]
    /\ held = [h \in Holder |-> {}]
    /\ zombies = [p \in Page |-> {}]
    /\ dependencies = [p \in Page |-> {}]
    /\ free = Page
    /\ leaked = {}

-----------------------------------------------------------------------------
(* Space.                                                                  *)

\* has_rlock, of the holders in H.
LockedBy(H) == UNION {Roots(held[h]) : h \in H}

Pinned(root) == dependencies[root] # {} \/ root \in LockedBy(Holder)

\* R has every segment that releasing R releases: those with no dependency
\* outside R, unless they are locked themselves.
ClosedUnderRelease(R, locked) ==
    \A o \in Page :
        dependencies[o] # {} /\ dependencies[o] \subseteq R /\ o \notin locked
            => o \in R

ReleasedWithoutWaiters(start, locked) == start

\* maybe_release_segment, called for all of start: what its recursion reaches
\* is the least such set.
Released(start, locked) ==
    {p \in Page : \A R \in SUBSET Page :
        start \subseteq R /\ ClosedUnderRelease(R, locked) => p \in R}

UnpinnedIgnoringDependencies(h) == Roots(held[h]) \ LockedBy(Holder \ {h})

\* The segments of a dropped read lock that nothing else pins.
Unpinned(h) ==
    {r \in Roots(held[h]) :
        dependencies[r] = {} /\ r \notin LockedBy(Holder \ {h})}

\* release_rlock.
ReleaseRlock(h) ==
    LET R == Released(Unpinned(h), LockedBy(Holder \ {h})) IN
    /\ held' = [held EXCEPT ![h] = {}]
    /\ zombies' = [p \in Page |-> IF p \in R THEN {} ELSE zombies[p]]
    /\ dependencies' = [p \in Page |-> dependencies[p] \ R]
    /\ free' = free \cup UNION {zombies[p] : p \in R}

-----------------------------------------------------------------------------
(* Readers and writers.                                                    *)

OpenCursor(r) ==
    /\ held[r] = {}
    /\ live # {}
    /\ held' = [held EXCEPT ![r] = live]
    /\ UNCHANGED <<live, written, merges, zombies, dependencies, free, leaked>>

CloseCursor(r) ==
    /\ held[r] # {}
    /\ ReleaseRlock(r)
    /\ UNCHANGED <<live, written, merges, leaked>>

Fresh == {P \in SUBSET free : Cardinality(P) <= MaxFresh}

\* A segment that is written need not be committed: then its pages are lost
\* until the file is opened again (release_pending_segment does nothing).
WriteSegment ==
    /\ \E P \in Fresh : \E root \in P :
          /\ written' = written \cup {[root |-> root, pages |-> P]}
          /\ free' = free \ P
    /\ UNCHANGED <<live, merges, held, zombies, dependencies, leaked>>

CommitSegment(s) ==
    /\ s \in written
    /\ written' = written \ {s}
    /\ live' = live \cup {s}
    /\ UNCHANGED <<merges, held, zombies, dependencies, free, leaked>>

-----------------------------------------------------------------------------
(* Merges.  The merge locks keep two of them from reading the same source. *)

Busy == UNION {Sources(merges[m]) : m \in Merger}

Reading(from, into) ==
    [Idle EXCEPT !.stage = "reading", !.from = from, !.into = into]

\* Some segments of incoming, all of them leaves, are promoted together.
PrepareMergeFromIncoming(m) ==
    /\ merges[m].stage = "idle"
    /\ \E S \in SUBSET (live \ Busy) :
          /\ S # {}
          /\ merges' = [merges EXCEPT ![m] = Reading(S, {})]
    /\ UNCHANGED <<live, written, held, zombies, dependencies, free, leaked>>

\* One segment is promoted into the next level, if that has one.  Only the
\* segments behind it are read under a read lock.
PrepareMerge(m) ==
    /\ merges[m].stage = "idle"
    /\ \E s \in live \ Busy : \E into \in SUBSET (live \ (Busy \cup {s})) :
          /\ Cardinality(into) <= 1
          /\ merges' = [merges EXCEPT ![m] = Reading({s}, into)]
          /\ \E behind \in SUBSET (live \ ({s} \cup into)) :
                held' = [held EXCEPT ![m] = behind]
    /\ UNCHANGED <<live, written, zombies, dependencies, free, leaked>>

\* The read lock on the segments behind is released before the merge is
\* committed.
ReleaseBehind(m) ==
    /\ held[m] # {}
    /\ ReleaseRlock(m)
    /\ UNCHANGED <<live, written, merges, leaked>>

NonRoots(S) == UNION {s.pages \ {s.root} : s \in S}

\* The segment on these pages, none if there are none.
SegmentsOn(pages, roots) ==
    IF pages = {} THEN {{}} ELSE {{[root |-> r, pages |-> pages]} : r \in roots}

InactiveRootsOnly(S, used) ==
    [p \in Page |-> UNION {{s.root} : s \in {x \in S : x.root = p}}]

\* What becomes of the pages of each source: those that are in no new segment
\* are inactive.
InactiveFor(S, used) ==
    [p \in Page |-> UNION {s.pages \ used : s \in {x \in S : x.root = p}}]

\* The new segment may go on using pages of any source, what is left of the
\* promoted one only pages of that.
DependsOn(pm, dest, survivors) ==
    [p \in Page |-> IF p \in Roots(dest) THEN Roots(Sources(pm))
                    ELSE IF p \in Roots(survivors) THEN Roots(pm.from) ELSE {}]

\* The end of prepare_merge.  The new segment keeps pages of the segment it
\* replaces and overflows moved out of the promoted pairs; a part of a
\* promoted parent is left over.  The overflow that holds the key of a promoted
\* tombstone is forgotten when the tombstone is dropped.  Root pages are always
\* rewritten; a page that is left over may become a root, while write_merge
\* asserts that it wrote its.  The fresh pages are taken here all at once; the
\* code takes them while it writes, out of what is free then.
FinishMerge(m) ==
    LET pm == merges[m] IN
    /\ pm.stage = "reading"
    /\ held[m] = {}
    /\ \E kept \in SUBSET NonRoots(pm.into), moved \in SUBSET NonRoots(pm.from) :
       \E left \in SUBSET (NonRoots(pm.from) \ moved), f \in Fresh, g \in Fresh :
       \E dropped \in SUBSET (NonRoots(pm.from) \ (moved \cup left)) :
          /\ f \cap g = {}
          /\ Cardinality(pm.from) > 1 => left = {} /\ g = {} /\ dropped = {}
          /\ \E dest \in SegmentsOn(kept \cup moved \cup f, f),
                survivors \in SegmentsOn(left \cup g, left \cup g) :
                merges' = [merges EXCEPT ![m] =
                    [pm EXCEPT !.stage = "written",
                               !.outputs = dest \cup survivors,
                               !.dependsOn = DependsOn(pm, dest, survivors),
                               !.inactive = InactiveFor(Sources(pm),
                                                AllPages(dest \cup survivors) \cup dropped),
                               !.forgotten = dropped]]
          /\ free' = free \ (f \cup g)
    /\ UNCHANGED <<live, written, held, zombies, dependencies, leaked>>

\* add_dependencies: only what is pinned is worth waiting for.
AddDependencies(pm) ==
    [p \in Page |-> LET waitsFor == {r \in pm.dependsOn[p] : Pinned(r)} IN
                    IF waitsFor # {} THEN waitsFor ELSE dependencies[p]]

PinnedByLockOnly(root) == root \in LockedBy(Holder)
PinnedAtCommit(root) == dependencies'[root] # {} \/ root \in LockedBy(Holder)

\* add_inactive: the pages of a pinned source become zombies, the others free.
CommitMerge(m) ==
    LET pm == merges[m]
        roots == Roots(Sources(pm))
    IN
    /\ pm.stage = "written"
    /\ live' = (live \ Sources(pm)) \cup pm.outputs
    /\ dependencies' = AddDependencies(pm)
    /\ zombies' = [p \in Page |-> IF p \in roots /\ PinnedAtCommit(p)
                                  THEN pm.inactive[p] ELSE zombies[p]]
    /\ free' = free \cup UNION {pm.inactive[p] : p \in {r \in roots : ~PinnedAtCommit(r)}}
    /\ leaked' = leaked \cup pm.forgotten
    /\ merges' = [merges EXCEPT ![m] = Idle]
    /\ UNCHANGED <<written, held>>

\* The process dies and the file is opened again: every page that no segment
\* of the header uses is free.
Reopen ==
    /\ written' = {}
    /\ merges' = [m \in Merger |-> Idle]
    /\ held' = [h \in Holder |-> {}]
    /\ zombies' = [p \in Page |-> {}]
    /\ dependencies' = [p \in Page |-> {}]
    /\ free' = Page \ AllPages(live)
    /\ leaked' = {}
    /\ UNCHANGED live

Next ==
    \/ \E r \in Reader : OpenCursor(r)
    \/ \E r \in Reader : CloseCursor(r)
    \/ WriteSegment
    \/ \E s \in written : CommitSegment(s)
    \/ \E m \in Merger : PrepareMergeFromIncoming(m)
    \/ \E m \in Merger : PrepareMerge(m)
    \/ \E m \in Merger : ReleaseBehind(m)
    \/ \E m \in Merger : FinishMerge(m)
    \/ \E m \in Merger : CommitMerge(m)
    \/ Reopen

Spec == Init /\ [][Next]_vars

-----------------------------------------------------------------------------
(* Properties.                                                             *)

InUse ==
    AllPages(live) \cup AllPages(written)
    \cup (UNION {AllPages(held[h]) : h \in Holder})
    \cup UNION {AllPages(Sources(merges[m]) \cup merges[m].outputs) : m \in Merger}

\* A page that somebody can still read is never given out again: not while a
\* cursor is open on any segment that has it, though that segment has been
\* merged away and the one that took the page over as well, not while a merge
\* reads it, and not while it is in the header.  (add_inactive,
\* maybe_release_segment)
NothingInUseIsFree == free \cap InUse = {}

\* Every page is free, or in a segment, or waits as a zombie, unless its
\* tombstone was dropped; none is two of these, so none is freed twice, and
\* none is lost in another way.
\* (now_inactive of prepare_merge, add_inactive)
EveryPageHasOnePlace ==
    LET kept == AllPages(live) \cup AllPages(written)
                \cup UNION {AllPages(merges[m].outputs) : m \in Merger}
        waiting == UNION {zombies[p] : p \in Page}
    IN  /\ free \cup kept \cup waiting \cup leaked = Page
        /\ free \cap (kept \cup waiting \cup leaked) = {}
        /\ kept \cap waiting = {}
        /\ \A p, q \in Page : p # q => zombies[p] \cap zombies[q] = {}

\* Once the last cursor is dropped nothing is held back any more: the order in
\* which the cursors were dropped and the merges were committed leaves no
\* zombie and no dependency that nobody will release.
NothingWaitsForNobody ==
    (\A h \in Holder : held[h] = {})
        => \A p \in Page : zombies[p] = {} /\ dependencies[p] = {}

\* The assertions of add_dependencies and add_inactive: a merge that is about
\* to be committed finds no entry under the root of a segment it made, and no
\* zombies under the root of one it replaces, though root pages are reused.
NoEntryIsOverwritten ==
    \A m \in Merger : merges[m].stage = "written" =>
        /\ \A p \in Roots(merges[m].outputs) : dependencies[p] = {}
        /\ \A p \in Roots(Sources(merges[m])) : zombies[p] = {}

\* What a comment in prepare_merge says of the pages of the promoted segment
\* and of the one it is merged into: all of them end up in the new segment, in
\* what survives of the promoted one, or inactive.
SourcePagesAreAccountedFor ==
    \A m \in Merger : LET pm == merges[m] IN
        pm.stage = "written" =>
            AllPages(Sources(pm)) =
                UNION {pm.inactive[p] : p \in Roots(Sources(pm))}
                \cup (AllPages(Sources(pm)) \cap AllPages(pm.outputs))
=============================================================================
