---------------------------- MODULE Space_proofs ----------------------------
(***************************************************************************)
(* Proofs about Reclaim and BlockAllocator, the two sides of Space: when   *)
(* the pages of a dead segment may be used again, for any pages, readers   *)
(* and merge threads, and which pages are handed out, for any number of    *)
(* page writers, any sizes of blocks and any bounds.                       *)
(***************************************************************************)
EXTENDS Reclaim, BlockAllocator, FiniteSetTheorems, SequenceTheorems, TLAPS

-----------------------------------------------------------------------------
(* Reclaim: the inductive invariant.                                       *)

\* What waits for root: the least set that has it and, with any root, those
\* whose dependencies have that one.
ClosedUnderWaiting(S) ==
    \A o \in Page : dependencies[o] \cap S # {} => o \in S

WaitsFor(root) ==
    {p \in Page : \A S \in SUBSET Page : root \in S /\ ClosedUnderWaiting(S) => p \in S}

Apart(s, t) == s.pages \cap t.pages = {}

\* The segments of the header and those that wait to be committed share no page.
SegmentsAreApart ==
    /\ live \cap written = {}
    /\ \A s, t \in live \cup written : s # t => Apart(s, t)

\* A merge reads segments of the header, its own.
SourcesAreLive ==
    /\ \A m \in Merger : Sources(merges[m]) \subseteq live
    /\ \A m, n \in Merger : m # n => Sources(merges[m]) \cap Sources(merges[n]) = {}
    /\ \A m \in Merger : merges[m].from \cap merges[m].into = {}
    /\ \A m \in Merger : merges[m].stage = "idle" => Sources(merges[m]) = {}

\* What a merge has written shares pages with what it has read, and with nothing
\* else.
OutputsAreApart ==
    /\ \A m \in Merger : merges[m].stage # "written" => merges[m].outputs = {}
    /\ \A m \in Merger : \A o \in merges[m].outputs :
          \A s \in (live \cup written) \ Sources(merges[m]) : Apart(o, s)
    /\ \A m, n \in Merger : \A o \in merges[m].outputs, q \in merges[n].outputs :
          m # n \/ o # q => Apart(o, q)

\* What becomes of the pages of the sources of a merge that is about to be
\* committed.  No root page is kept; a new segment depends on each source it
\* shares pages with.
IsSplit(pm) ==
    /\ \A s \in Sources(pm) :
          /\ s.root \notin AllPages(pm.outputs) \cup pm.forgotten
          /\ pm.inactive[s.root] = s.pages \ (AllPages(pm.outputs) \cup pm.forgotten)
          /\ \A o \in pm.outputs : ~Apart(o, s) => s.root \in pm.dependsOn[o.root]
    /\ pm.forgotten \subseteq AllPages(Sources(pm)) \ AllPages(pm.outputs)
    /\ \A p \in Page : pm.dependsOn[p] # {} => p \in Roots(pm.outputs)
    /\ \A p \in Page : pm.dependsOn[p] \subseteq Roots(Sources(pm))

SourcesAreSplit ==
    \A m \in Merger : merges[m].stage = "written" => IsSplit(merges[m])

IsKept(p) ==
    \/ \E s \in live \cup written : p \in s.pages
    \/ \E m \in Merger : \E o \in merges[m].outputs : p \in o.pages

IsZombie(p) == \E r \in Page : p \in zombies[r]

\* EveryPageHasOnePlace page by page, and nobody remembers a page that is leaked.
PagesHaveOnePlace ==
    /\ \A p \in Page : p \in free \/ IsKept(p) \/ IsZombie(p) \/ p \in leaked
    /\ \A p \in Page : p \in free => ~IsKept(p) /\ ~IsZombie(p) /\ p \notin leaked
    /\ \A p \in Page : p \in leaked => ~IsKept(p) /\ ~IsZombie(p)
    /\ \A p \in Page : IsZombie(p) => ~IsKept(p)
    /\ \A q, r \in Page : q # r => zombies[q] \cap zombies[r] = {}

\* Zombies are kept for a reason, and the root of their segment is one of them.
ZombiesArePinned ==
    \A r \in Page : zombies[r] # {} => r \in zombies[r] /\ Pinned(r)

\* Who waits is a segment of the header or has zombies, who is waited for has
\* zombies, and there are no circles.
WaitingMakesSense ==
    /\ \A r \in Page : dependencies[r] # {} => r \in Roots(live) \/ r \in zombies[r]
    /\ \A r \in Page : \A d \in dependencies[r] : d \in zombies[d]
    /\ \A S \in SUBSET Page : S # {} => \E r \in S : dependencies[r] \cap S = {}

\* A page of a segment under a read lock is in the header, or a zombie, where it
\* waits for that lock, or leaked.
IsKeptFor(p, root) ==
    \/ \E s \in live : p \in s.pages /\ s.root \in WaitsFor(root)
    \/ \E r \in WaitsFor(root) : p \in zombies[r]
    \/ p \in leaked

HeldIsKept ==
    \A h \in Holder : \A s \in held[h] : \A p \in s.pages : IsKeptFor(p, s.root)

\* A merge has a read lock only while it reads.
LockedWhileReading ==
    \A m \in Merger : merges[m].stage # "reading" => held[m] = {}

IInv ==
    /\ TypeOK
    /\ SegmentsAreApart
    /\ SourcesAreLive
    /\ OutputsAreApart
    /\ SourcesAreSplit
    /\ PagesHaveOnePlace
    /\ ZombiesArePinned
    /\ WaitingMakesSense
    /\ HeldIsKept
    /\ LockedWhileReading

-----------------------------------------------------------------------------
(* Sets of segments, what is released and what waits.                      *)

\* The root of a segment is one of its pages.
LEMMA SegmentType ==
    ASSUME NEW s \in Segment
    PROVE  s.root \in Page /\ s.pages \subseteq Page /\ s.root \in s.pages
BY DEF Segment

\* The pages of segments.
LEMMA InPages ==
    ASSUME NEW S, NEW p
    PROVE  p \in AllPages(S) <=> \E s \in S : p \in s.pages
BY DEF AllPages

\* The roots of segments.
LEMMA InRoots ==
    ASSUME NEW S, NEW r
    PROVE  r \in Roots(S) <=> \E s \in S : s.root = r
BY DEF Roots

\* The roots that holders of read locks hold.
LEMMA InLocked ==
    ASSUME NEW H, NEW r
    PROVE  r \in LockedBy(H) <=> \E h \in H : \E s \in held[h] : s.root = r
BY InRoots DEF LockedBy

\* Released is the least set that is closed, so each root in it was released
\* first or after all it depends on.
LEMMA ReleasedProperties ==
    ASSUME NEW start \in SUBSET Page, NEW locked
    PROVE  LET R == Released(start, locked) IN
           /\ R \subseteq Page
           /\ start \subseteq R
           /\ ClosedUnderRelease(R, locked)
           /\ \A T \in SUBSET Page :
                 start \subseteq T /\ ClosedUnderRelease(T, locked) => R \subseteq T
           /\ \A r \in R : \/ r \in start
                           \/ /\ dependencies[r] # {} /\ dependencies[r] \subseteq R
                              /\ r \notin locked
<1> DEFINE R == Released(start, locked)
<1>1. R \subseteq Page /\ start \subseteq R
  BY DEF Released
<1>2. \A T \in SUBSET Page :
         start \subseteq T /\ ClosedUnderRelease(T, locked) => R \subseteq T
  BY DEF Released
<1>3. ClosedUnderRelease(R, locked)
  <2> SUFFICES ASSUME NEW o \in Page, dependencies[o] # {}, dependencies[o] \subseteq R,
                      o \notin locked
               PROVE  o \in R
    BY DEF ClosedUnderRelease
  <2> SUFFICES ASSUME NEW T \in SUBSET Page, start \subseteq T,
                      ClosedUnderRelease(T, locked)
               PROVE  o \in T
    BY DEF Released
  <2>1. dependencies[o] \subseteq T
    BY <1>2
  <2> QED
    BY <2>1 DEF ClosedUnderRelease
<1> HIDE DEF R
<1>4. ASSUME NEW r \in R, r \notin start
      PROVE  dependencies[r] # {} /\ dependencies[r] \subseteq R /\ r \notin locked
  <2> SUFFICES ASSUME ~(/\ dependencies[r] # {} /\ dependencies[r] \subseteq R
                        /\ r \notin locked)
               PROVE  FALSE
    OBVIOUS
  <2>1. ClosedUnderRelease(R \ {r}, locked)
    BY <1>3 DEF ClosedUnderRelease
  <2>2. R \subseteq R \ {r}
    BY <1>1, <1>2, <1>4, <2>1
  <2> QED
    BY <2>2
<1> QED
  BY <1>1, <1>2, <1>3, <1>4 DEF R

\* What a root waits for is a set of pages that is closed, with the root in it.
LEMMA WaitsForProperties ==
    ASSUME NEW root \in Page
    PROVE  LET W == WaitsFor(root) IN
           /\ W \subseteq Page
           /\ root \in W
           /\ ClosedUnderWaiting(W)
           /\ \A T \in SUBSET Page : root \in T /\ ClosedUnderWaiting(T) => W \subseteq T
           /\ \A r \in W : r = root \/ dependencies[r] \cap W # {}
<1> DEFINE W == WaitsFor(root)
<1>1. W \subseteq Page /\ root \in W
  BY DEF WaitsFor
<1>2. \A T \in SUBSET Page : root \in T /\ ClosedUnderWaiting(T) => W \subseteq T
  BY DEF WaitsFor
<1>3. ClosedUnderWaiting(W)
  <2> SUFFICES ASSUME NEW o \in Page, dependencies[o] \cap W # {},
                      NEW T \in SUBSET Page, root \in T, ClosedUnderWaiting(T)
               PROVE  o \in T
    BY DEF ClosedUnderWaiting, WaitsFor
  <2>1. dependencies[o] \cap T # {}
    BY <1>2
  <2> QED
    BY <2>1 DEF ClosedUnderWaiting
<1> HIDE DEF W
<1>4. ASSUME NEW r \in W, r # root, dependencies[r] \cap W = {}
      PROVE  FALSE
  <2>1. ClosedUnderWaiting(W \ {r})
    BY <1>3, <1>4 DEF ClosedUnderWaiting
  <2>2. W \subseteq W \ {r}
    BY <1>1, <1>2, <1>4, <2>1
  <2> QED
    BY <2>2
<1> QED
  BY <1>1, <1>2, <1>3, <1>4 DEF W

\* A step that takes no dependency away among those that wait for a root leaves
\* all of them waiting.
LEMMA WaitsForGrows ==
    ASSUME NEW root \in Page,
           \A o \in Page : dependencies[o] \cap WaitsFor(root) \subseteq dependencies'[o]
    PROVE  WaitsFor(root) \subseteq WaitsFor(root)'
<1> DEFINE W == WaitsFor(root)
<1>1. SUFFICES ASSUME NEW T \in SUBSET Page, root \in T,
                      \A o \in Page : dependencies'[o] \cap T # {} => o \in T
               PROVE  W \subseteq T
  BY WaitsForProperties DEF WaitsFor, ClosedUnderWaiting
<1>2. ClosedUnderWaiting(W \cap T)
  BY <1>1, WaitsForProperties DEF ClosedUnderWaiting
<1>3. W \cap T \in SUBSET Page /\ root \in W \cap T
  BY <1>1, WaitsForProperties
<1> HIDE DEF W
<1>4. W \subseteq W \cap T
  BY <1>2, <1>3, WaitsForProperties DEF W
<1> QED
  BY <1>4

-----------------------------------------------------------------------------
(* Initial states.                                                         *)

\* A merger with nothing to do holds nothing.
LEMMA IdleType == Idle \in MergeState /\ Sources(Idle) = {} /\ Idle.from \cap Idle.into = {}
BY DEF Idle, MergeState, Sources

\* An empty file.
LEMMA InitInv == Init => IInv
<1> SUFFICES ASSUME Init PROVE IInv
  OBVIOUS
<1> USE DEF Init
<1>1. TypeOK
  BY IdleType DEF TypeOK
<1>2. \A m \in Merger : merges[m] = Idle /\ merges[m].stage = "idle" /\ merges[m].outputs = {}
  BY DEF Idle
<1>3. SegmentsAreApart /\ SourcesAreLive /\ OutputsAreApart /\ SourcesAreSplit
  BY <1>2, IdleType DEF SegmentsAreApart, SourcesAreLive, OutputsAreApart, SourcesAreSplit
<1>4. PagesHaveOnePlace
  BY <1>2 DEF PagesHaveOnePlace, IsKept, IsZombie
<1>5. ZombiesArePinned /\ WaitingMakesSense
  BY DEF ZombiesArePinned, WaitingMakesSense
<1>6. HeldIsKept /\ LockedWhileReading
  BY DEF HeldIsKept, LockedWhileReading, Holder
<1> QED
  BY <1>1, <1>3, <1>4, <1>5, <1>6 DEF IInv

-----------------------------------------------------------------------------
(* Readers and writers.                                                    *)

\* What a root keeps stays kept when the lists of Space stay.
LEMMA KeptForSame ==
    ASSUME NEW p, NEW root, IsKeptFor(p, root),
           live \subseteq live', UNCHANGED <<zombies, dependencies, leaked>>
    PROVE  IsKeptFor(p, root)'
<1>1. WaitsFor(root)' = WaitsFor(root)
  BY DEF WaitsFor, ClosedUnderWaiting
<1> QED
  BY <1>1 DEF IsKeptFor

\* More read locks pin no less.
LEMMA MoreLocksPin ==
    ASSUME NEW root, Pinned(root), UNCHANGED dependencies,
           \A h \in Holder : held[h] \subseteq held'[h]
    PROVE  Pinned(root)'
<1>1. root \in LockedBy(Holder) => root \in LockedBy(Holder)'
  BY DEF LockedBy, Roots
<1> QED
  BY <1>1 DEF Pinned

\* A reader takes a read lock (add_rlock).
LEMMA OpenCursorInv ==
    ASSUME IInv, NEW r \in Reader, OpenCursor(r)
    PROVE  IInv'
<1> USE DEF IInv, OpenCursor
<1>1. r \in Holder /\ r \notin Merger
  BY ReclaimAssumption DEF Holder
<1>2. TypeOK'
  BY <1>1 DEF TypeOK
<1>3. held' \in [Holder -> SUBSET Segment] /\ held'[r] = live
      /\ \A h \in Holder \ {r} : held'[h] = held[h]
  BY <1>1, <1>2 DEF TypeOK
<1>4. SegmentsAreApart' /\ SourcesAreLive' /\ OutputsAreApart' /\ SourcesAreSplit'
  <2>1. SegmentsAreApart' /\ OutputsAreApart'
    BY DEF SegmentsAreApart, OutputsAreApart, Apart
  <2>2. SourcesAreLive' /\ SourcesAreSplit'
    BY DEF SourcesAreLive, SourcesAreSplit
  <2> QED
    BY <2>1, <2>2
<1>5. PagesHaveOnePlace' /\ WaitingMakesSense'
  BY DEF PagesHaveOnePlace, IsKept, IsZombie, WaitingMakesSense
<1>6. ZombiesArePinned'
  BY <1>3, MoreLocksPin DEF ZombiesArePinned
<1>7. HeldIsKept'
  <2> SUFFICES ASSUME NEW h \in Holder, NEW s \in held'[h], NEW p \in s.pages
               PROVE  IsKeptFor(p, s.root)'
    BY DEF HeldIsKept
  <2>1. CASE h = r
    <3>1. s \in live /\ s.root \in Page
      BY <1>3, <2>1, SegmentType DEF TypeOK
    <3> QED
      BY <3>1, WaitsForProperties, KeptForSame DEF IsKeptFor
  <2>2. CASE h # r
    BY <1>3, <2>2, KeptForSame DEF HeldIsKept
  <2> QED
    BY <2>1, <2>2
<1>8. LockedWhileReading'
  BY <1>1, <1>3 DEF LockedWhileReading, Holder
<1> QED
  BY <1>2, <1>4, <1>5, <1>6, <1>7, <1>8

\* A writer writes a segment to free pages (get_block).
LEMMA WriteSegmentInv ==
    ASSUME IInv, WriteSegment
    PROVE  IInv'
<1> USE DEF IInv
<1>0. PICK P \in SUBSET free : \E root \in P :
         /\ written' = written \cup {[root |-> root, pages |-> P]}
         /\ free' = free \ P
         /\ UNCHANGED <<live, merges, held, zombies, dependencies, leaked>>
  BY DEF WriteSegment, Fresh
<1>1. PICK root \in P :
         /\ written' = written \cup {[root |-> root, pages |-> P]}
         /\ free' = free \ P
         /\ UNCHANGED <<live, merges, held, zombies, dependencies, leaked>>
  BY <1>0
<1> DEFINE s == [root |-> root, pages |-> P]
<1>2. s \in Segment /\ s.pages = P /\ s.root = root
  BY DEF Segment, TypeOK
<1> HIDE DEF s
<1>3. written' = written \cup {s}
  BY <1>1 DEF s
<1>4. \A p \in P : p \in Page /\ ~IsKept(p) /\ ~IsZombie(p) /\ p \notin leaked
  BY DEF PagesHaveOnePlace, TypeOK
<1>5. /\ \A t \in live \cup written : Apart(s, t) /\ Apart(t, s)
      /\ \A m \in Merger : \A o \in merges[m].outputs : Apart(o, s)
      /\ s \notin live
  BY <1>2, <1>4 DEF Apart, IsKept
<1>6. TypeOK'
  BY <1>1, <1>2, <1>3 DEF TypeOK
<1>7. SegmentsAreApart'
  BY <1>1, <1>3, <1>5 DEF SegmentsAreApart, Apart
<1>8. SourcesAreLive' /\ OutputsAreApart' /\ SourcesAreSplit'
  <2>1. SourcesAreLive' /\ SourcesAreSplit'
    BY <1>1 DEF SourcesAreLive, SourcesAreSplit
  <2>2. OutputsAreApart'
    BY <1>1, <1>3, <1>5 DEF OutputsAreApart, Apart
  <2> QED
    BY <2>1, <2>2
<1>9. PagesHaveOnePlace'
  <2>1. \A p \in Page : IsKept(p)' <=> IsKept(p) \/ p \in P
    BY <1>1, <1>2, <1>3 DEF IsKept
  <2>2. \A p \in Page : IsZombie(p)' <=> IsZombie(p)
    BY <1>1 DEF IsZombie
  <2> QED
    BY <1>1, <1>4, <2>1, <2>2 DEF PagesHaveOnePlace
<1>10. ZombiesArePinned' /\ WaitingMakesSense'
  BY <1>1 DEF ZombiesArePinned, WaitingMakesSense, Pinned, LockedBy, Roots
<1>11. HeldIsKept' /\ LockedWhileReading'
  BY <1>1, KeptForSame DEF HeldIsKept, LockedWhileReading
<1> QED
  BY <1>6, <1>7, <1>8, <1>9, <1>10, <1>11

\* commit_segment.
LEMMA CommitSegmentInv ==
    ASSUME IInv, NEW s \in written, CommitSegment(s)
    PROVE  IInv'
<1> USE DEF IInv, CommitSegment
<1>1. TypeOK'
  BY DEF TypeOK
<1>2. SegmentsAreApart'
  BY DEF SegmentsAreApart, Apart
<1>3. SourcesAreLive' /\ SourcesAreSplit'
  BY DEF SourcesAreLive, SourcesAreSplit
<1>4. OutputsAreApart'
  BY DEF OutputsAreApart, Apart
<1>5. PagesHaveOnePlace'
  <2>1. \A p \in Page : IsKept(p)' <=> IsKept(p)
    BY DEF IsKept
  <2>2. \A p \in Page : IsZombie(p)' <=> IsZombie(p)
    BY DEF IsZombie
  <2> QED
    BY <2>1, <2>2 DEF PagesHaveOnePlace
<1>6. ZombiesArePinned' /\ WaitingMakesSense'
  BY DEF ZombiesArePinned, WaitingMakesSense, Pinned, LockedBy, Roots
<1>7. HeldIsKept' /\ LockedWhileReading'
  BY KeptForSame DEF HeldIsKept, LockedWhileReading
<1> QED
  BY <1>1, <1>2, <1>3, <1>4, <1>5, <1>6, <1>7

-----------------------------------------------------------------------------
(* Merges that begin to read.                                              *)

\* prepare_merge, of any levels: the sources are live and in no other merge.
LEMMA PrepareInv ==
    ASSUME IInv, NEW m \in Merger, NEW from, NEW into, NEW behind,
           merges[m].stage = "idle",
           from \cup into \subseteq live \ Busy, from \cap into = {}, behind \subseteq live,
           merges' = [merges EXCEPT ![m] = Reading(from, into)],
           held' = [held EXCEPT ![m] = behind],
           UNCHANGED <<live, written, zombies, dependencies, free, leaked>>
    PROVE  IInv'
<1> USE DEF IInv
<1> DEFINE pm == Reading(from, into)
<1>1. /\ pm \in MergeState /\ pm.stage = "reading" /\ Sources(pm) = from \cup into
      /\ pm.outputs = {} /\ pm.from \cap pm.into = {}
  BY DEF Reading, Idle, MergeState, Sources, TypeOK
<1>2. m \in Holder /\ held[m] = {}
  BY DEF Holder, LockedWhileReading
<1> HIDE DEF pm
<1>3. merges'[m] = pm /\ \A n \in Merger \ {m} : merges'[n] = merges[n]
  BY DEF TypeOK, pm
<1>4. held'[m] = behind /\ \A h \in Holder \ {m} : held'[h] = held[h]
  BY <1>2 DEF TypeOK
<1>5. TypeOK'
  BY <1>1, <1>2 DEF TypeOK, pm
<1>6. \A n \in Merger : merges'[n].outputs = merges[n].outputs
  BY <1>1, <1>3 DEF OutputsAreApart
<1>7. SourcesAreLive'
  <2>1. \A n \in Merger : Sources(merges[n]) \cap (from \cup into) = {}
    BY DEF Busy
  <2>2. Sources(merges'[m]) = from \cup into /\ merges'[m].from \cap merges'[m].into = {}
    BY <1>1, <1>3
  <2> QED
    BY <1>1, <1>3, <2>1, <2>2 DEF SourcesAreLive
<1>8. SegmentsAreApart'
  BY DEF SegmentsAreApart, Apart
<1>9. OutputsAreApart'
  BY <1>1, <1>3, <1>6 DEF OutputsAreApart, Apart
<1>10. SourcesAreSplit'
  BY <1>1, <1>3 DEF SourcesAreSplit
<1>11. PagesHaveOnePlace'
  <2>1. \A p \in Page : (IsKept(p)' <=> IsKept(p)) /\ (IsZombie(p)' <=> IsZombie(p))
    BY <1>6 DEF IsKept, IsZombie
  <2> QED
    BY <2>1 DEF PagesHaveOnePlace
<1>12. ZombiesArePinned'
  BY <1>2, <1>4, MoreLocksPin DEF ZombiesArePinned
<1>13. WaitingMakesSense'
  BY DEF WaitingMakesSense
<1>14. HeldIsKept'
  <2> SUFFICES ASSUME NEW h \in Holder, NEW s \in held'[h], NEW p \in s.pages
               PROVE  IsKeptFor(p, s.root)'
    BY DEF HeldIsKept
  <2>1. CASE h = m
    <3>1. s \in live /\ s.root \in Page
      BY <1>4, <2>1, SegmentType DEF TypeOK
    <3> QED
      BY <3>1, WaitsForProperties, KeptForSame DEF IsKeptFor
  <2>2. CASE h # m
    BY <1>4, <2>2, KeptForSame DEF HeldIsKept
  <2> QED
    BY <2>1, <2>2
<1>15. LockedWhileReading'
  BY <1>1, <1>3, <1>4 DEF LockedWhileReading, Holder
<1> QED
  BY <1>5, <1>7, <1>8, <1>9, <1>10, <1>11, <1>12, <1>13, <1>14, <1>15

\* prepare_merge of incoming.
LEMMA PrepareMergeFromIncomingInv ==
    ASSUME IInv, NEW m \in Merger, PrepareMergeFromIncoming(m)
    PROVE  IInv'
<1>1. PICK S \in SUBSET (live \ Busy) : merges' = [merges EXCEPT ![m] = Reading(S, {})]
  BY DEF PrepareMergeFromIncoming
<1>2. held[m] = {}
  BY DEF IInv, LockedWhileReading, PrepareMergeFromIncoming
<1>3. held' = [held EXCEPT ![m] = {}]
  BY <1>2 DEF PrepareMergeFromIncoming, IInv, TypeOK
<1>4. /\ S \cup {} \subseteq live \ Busy /\ S \cap {} = {} /\ {} \subseteq live
      /\ merges[m].stage = "idle"
      /\ UNCHANGED <<live, written, zombies, dependencies, free, leaked>>
  BY DEF PrepareMergeFromIncoming
<1> QED
  BY <1>1, <1>3, <1>4, PrepareInv

\* prepare_merge of the other levels.
LEMMA PrepareMergeInv ==
    ASSUME IInv, NEW m \in Merger, PrepareMerge(m)
    PROVE  IInv'
<1>1. PICK s \in live \ Busy, into \in SUBSET (live \ Busy) :
         /\ s \notin into
         /\ merges' = [merges EXCEPT ![m] = Reading({s}, into)]
         /\ \E behind \in SUBSET (live \ ({s} \cup into)) :
               held' = [held EXCEPT ![m] = behind]
  BY DEF PrepareMerge
<1>2. PICK behind \in SUBSET live : held' = [held EXCEPT ![m] = behind]
  BY <1>1
<1>3. {s} \cup into \subseteq live \ Busy /\ {s} \cap into = {}
  BY <1>1
<1>4. /\ merges[m].stage = "idle"
      /\ UNCHANGED <<live, written, zombies, dependencies, free, leaked>>
  BY DEF PrepareMerge
<1>5. merges' = [merges EXCEPT ![m] = Reading({s}, into)]
  BY <1>1
<1> QED
  BY <1>2, <1>3, <1>4, <1>5, PrepareInv

-----------------------------------------------------------------------------
(* A read lock is dropped.                                                 *)

\* Nothing that waits for a lock that is still held is released.
LEMMA WaitersStay ==
    ASSUME TypeOK, NEW start \in SUBSET Page, NEW locked, start \cap locked = {},
           \A r \in start : dependencies[r] = {},
           NEW root \in locked, root \in Page
    PROVE  WaitsFor(root) \cap Released(start, locked) = {}
<1> DEFINE W == WaitsFor(root)
           R == Released(start, locked)
<1>1. /\ W \subseteq Page /\ root \in W /\ ClosedUnderWaiting(W)
      /\ \A r \in W : r = root \/ dependencies[r] \cap W # {}
  BY WaitsForProperties
<1>2. /\ R \subseteq Page /\ start \subseteq R /\ ClosedUnderRelease(R, locked)
      /\ \A T \in SUBSET Page :
            start \subseteq T /\ ClosedUnderRelease(T, locked) => R \subseteq T
  BY ReleasedProperties
<1> HIDE DEF W, R
<1>3. start \subseteq R \ W
  BY <1>1, <1>2
<1>4. ClosedUnderRelease(R \ W, locked)
  <2> SUFFICES ASSUME NEW o \in Page, dependencies[o] # {},
                      dependencies[o] \subseteq R \ W, o \notin locked
               PROVE  o \in R \ W
    BY DEF ClosedUnderRelease
  <2>1. o \in R
    BY <1>2 DEF ClosedUnderRelease
  <2>2. o \notin W
    BY <1>1
  <2> QED
    BY <2>1, <2>2
<1>5. R \subseteq R \ W
  <2>1. R \ W \in SUBSET Page
    BY <1>2
  <2> QED
    BY <1>2, <1>3, <1>4, <2>1
<1> QED
  BY <1>5 DEF W, R

\* release_rlock: what only this holder kept is free again.
LEMMA ReleaseInv ==
    ASSUME IInv, NEW h \in Holder, ReleaseRlock(h),
           UNCHANGED <<live, written, merges, leaked>>
    PROVE  IInv'
<1> USE DEF IInv
<1> DEFINE start == Unpinned(h)
           locked == LockedBy(Holder \ {h})
           R == Released(start, locked)
<1>1. /\ start \in SUBSET Page /\ start \cap locked = {}
      /\ \A r \in start : dependencies[r] = {}
  BY InRoots, SegmentType DEF Unpinned, TypeOK
<1>2. \A r \in Roots(held[h]) : r \in start \/ dependencies[r] # {} \/ r \in locked
  BY DEF Unpinned
<1> HIDE DEF start, locked
<1>3. /\ R \subseteq Page /\ start \subseteq R /\ ClosedUnderRelease(R, locked)
      /\ \A r \in R : \/ r \in start
                      \/ /\ dependencies[r] # {} /\ dependencies[r] \subseteq R
                         /\ r \notin locked
  BY <1>1, ReleasedProperties
<1>4. \A root \in locked : root \in Page => WaitsFor(root) \cap R = {}
  BY <1>1, WaitersStay
<1>5. /\ held' = [held EXCEPT ![h] = {}]
      /\ zombies' = [p \in Page |-> IF p \in R THEN {} ELSE zombies[p]]
      /\ dependencies' = [p \in Page |-> dependencies[p] \ R]
      /\ free' = free \cup UNION {zombies[p] : p \in R}
  BY DEF ReleaseRlock, start, locked
<1>6. /\ held'[h] = {} /\ \A g \in Holder \ {h} : held'[g] = held[g]
      /\ \A r \in Page : zombies'[r] = IF r \in R THEN {} ELSE zombies[r]
      /\ \A r \in Page : dependencies'[r] = dependencies[r] \ R
      /\ \A p : p \in free' <=> p \in free \/ \E r \in R : p \in zombies[r]
  BY <1>5 DEF TypeOK
<1>7. /\ \A r : r \in LockedBy(Holder)' <=> r \in locked
      /\ \A r : r \in LockedBy(Holder) <=> r \in locked \/ r \in Roots(held[h])
  <2>1. LockedBy(Holder)' = locked
    BY <1>6 DEF LockedBy, Roots, locked
  <2> QED
    BY <2>1, InLocked, InRoots DEF locked
<1> HIDE DEF R
<1>8. \A r \in R : dependencies'[r] = {}
  BY <1>1, <1>3, <1>6
<1>9. TypeOK'
  <2>1. free' \subseteq Page
    BY <1>3, <1>6 DEF TypeOK
  <2>2. held' \in [Holder -> SUBSET Segment]
    BY <1>5 DEF TypeOK
  <2>3. zombies' \in [Page -> SUBSET Page] /\ dependencies' \in [Page -> SUBSET Page]
    BY <1>5 DEF TypeOK
  <2> QED
    BY <2>1, <2>2, <2>3 DEF TypeOK
<1>10. SegmentsAreApart' /\ SourcesAreLive' /\ OutputsAreApart' /\ SourcesAreSplit'
  BY DEF SegmentsAreApart, SourcesAreLive, OutputsAreApart, SourcesAreSplit
<1>11. PagesHaveOnePlace'
  <2>1. \A p \in Page : IsKept(p)' <=> IsKept(p)
    BY DEF IsKept
  <2>2. \A p \in Page : IsZombie(p)' <=> \E r \in Page \ R : p \in zombies[r]
    BY <1>6 DEF IsZombie
  <2>3. \A p \in Page : IsZombie(p) <=> \E r \in Page : p \in zombies[r]
    BY DEF IsZombie
  <2>4. \A q, r \in Page : q # r => zombies'[q] \cap zombies'[r] = {}
    BY <1>6 DEF PagesHaveOnePlace
  <2>5. ASSUME NEW p \in Page
        PROVE  /\ p \in free' \/ IsKept(p)' \/ IsZombie(p)' \/ p \in leaked'
               /\ p \in free' => ~IsKept(p)' /\ ~IsZombie(p)' /\ p \notin leaked'
               /\ p \in leaked' => ~IsKept(p)' /\ ~IsZombie(p)'
               /\ IsZombie(p)' => ~IsKept(p)'
    <3>1. ASSUME NEW r \in R, p \in zombies[r] PROVE ~IsZombie(p)'
      BY <1>3, <2>2, <3>1 DEF PagesHaveOnePlace
    <3> QED
      BY <1>3, <1>6, <2>1, <2>2, <2>3, <3>1 DEF PagesHaveOnePlace
  <2> QED
    BY <2>4, <2>5 DEF PagesHaveOnePlace
<1>12. ZombiesArePinned'
  <2> SUFFICES ASSUME NEW r \in Page, zombies'[r] # {}
               PROVE  r \in zombies'[r] /\ Pinned(r)'
    BY DEF ZombiesArePinned
  <2>1. r \notin R /\ zombies'[r] = zombies[r] /\ r \in zombies[r]
    BY <1>6 DEF ZombiesArePinned
  <2>2. dependencies[r] # {} \/ r \in LockedBy(Holder)
    BY <2>1 DEF ZombiesArePinned, Pinned
  <2>3. r \notin locked => dependencies[r] # {}
    BY <1>3, <1>2, <1>7, <2>1, <2>2
  <2>4. r \notin locked => dependencies'[r] # {}
    BY <1>3, <1>6, <2>1, <2>3 DEF ClosedUnderRelease
  <2> QED
    BY <1>7, <2>1, <2>4 DEF Pinned
<1>13. WaitingMakesSense'
  <2>1. \A r \in Page : dependencies'[r] # {} => r \in Roots(live) \/ r \in zombies'[r]
    BY <1>6, <1>8 DEF WaitingMakesSense
  <2>2. \A r \in Page : \A d \in dependencies'[r] : d \in zombies'[d]
    BY <1>6 DEF WaitingMakesSense, TypeOK
  <2>3. \A S \in SUBSET Page : S # {} => \E r \in S : dependencies'[r] \cap S = {}
    BY <1>6 DEF WaitingMakesSense
  <2> QED
    BY <2>1, <2>2, <2>3 DEF WaitingMakesSense
<1>14. HeldIsKept'
  <2> SUFFICES ASSUME NEW g \in Holder, NEW s \in held'[g], NEW p \in s.pages
               PROVE  IsKeptFor(p, s.root)'
    BY DEF HeldIsKept
  <2>1. g # h /\ s \in held[g] /\ s.root \in Page
    BY <1>6, SegmentType DEF TypeOK
  <2>2. s.root \in locked
    BY <2>1, InLocked DEF locked
  <2>3. WaitsFor(s.root) \cap R = {}
    BY <1>4, <2>1, <2>2
  <2>4. WaitsFor(s.root) \subseteq WaitsFor(s.root)'
    BY <1>6, <2>1, <2>3, WaitsForGrows
  <2>5. \A r \in WaitsFor(s.root) : r \in Page /\ zombies'[r] = zombies[r]
    BY <1>6, <2>1, <2>3, WaitsForProperties
  <2>6. IsKeptFor(p, s.root)
    BY <2>1 DEF HeldIsKept
  <2> QED
    BY <2>4, <2>5, <2>6 DEF IsKeptFor
<1>15. LockedWhileReading'
  BY <1>6 DEF LockedWhileReading, Holder
<1> QED
  BY <1>9, <1>10, <1>11, <1>12, <1>13, <1>14, <1>15

\* A reader gives its read lock back.
LEMMA CloseCursorInv ==
    ASSUME IInv, NEW r \in Reader, CloseCursor(r)
    PROVE  IInv'
BY ReleaseInv DEF CloseCursor, Holder

\* A merge gives back the read lock on what is behind it.
LEMMA ReleaseBehindInv ==
    ASSUME IInv, NEW m \in Merger, ReleaseBehind(m)
    PROVE  IInv'
BY ReleaseInv DEF ReleaseBehind, Holder

-----------------------------------------------------------------------------
(* A merge is written.                                                     *)

\* A segment of given pages, with one of the given roots.
LEMMA SegmentsOnPages ==
    ASSUME NEW pages \in SUBSET Page, NEW roots \in SUBSET pages,
           NEW S \in SegmentsOn(pages, roots)
    PROVE  /\ S \subseteq Segment
           /\ AllPages(S) = pages
           /\ \A s \in S : S = {s} /\ s.pages = pages /\ s.root \in roots
<1>1. CASE pages = {}
  BY <1>1 DEF SegmentsOn, AllPages
<1>2. CASE pages # {}
  <2>1. PICK r \in roots : S = {[root |-> r, pages |-> pages]}
    BY <1>2 DEF SegmentsOn
  <2> QED
    BY <2>1 DEF Segment, AllPages
<1> QED
  BY <1>1, <1>2

\* The pages of segments that are not their roots.
LEMMA InNonRoots ==
    ASSUME NEW S, NEW p
    PROVE  p \in NonRoots(S) <=> \E s \in S : p \in s.pages /\ p # s.root
BY DEF NonRoots

\* The sources have no page in common, so no root of one is used by the others.
LEMMA RootsOfSources ==
    ASSUME IInv, NEW m \in Merger, NEW s \in Sources(merges[m])
    PROVE  /\ s \in live /\ s \in Segment
           /\ \A t \in Sources(merges[m]) : t # s => Apart(t, s) /\ t.root # s.root
           /\ s.root \notin NonRoots(Sources(merges[m]))
           /\ \A p \in s.pages : IsKept(p) /\ p \in Page /\ p \notin free
<1>1. s \in live /\ s \in Segment /\ Sources(merges[m]) \subseteq live
  BY DEF IInv, SourcesAreLive, TypeOK
<1>2. \A t \in Sources(merges[m]) : t \in Segment
  BY <1>1 DEF IInv, TypeOK
<1>3. \A t \in Sources(merges[m]) : t # s => Apart(t, s)
  BY <1>1 DEF IInv, SegmentsAreApart
<1>4. \A t \in Sources(merges[m]) : t # s => t.root # s.root /\ s.root \notin t.pages
  BY <1>1, <1>2, <1>3, SegmentType DEF Apart
<1>5. s.root \notin NonRoots(Sources(merges[m]))
  BY <1>4, InNonRoots
<1>6. \A p \in s.pages : IsKept(p) /\ p \in Page /\ p \notin free
  BY <1>1, SegmentType DEF IsKept, IInv, PagesHaveOnePlace
<1> QED
  BY <1>1, <1>3, <1>4, <1>5, <1>6

\* write_merge, write_survivors: the merge has written what it makes.
LEMMA FinishMergeInv ==
    ASSUME IInv, NEW m \in Merger, FinishMerge(m)
    PROVE  IInv'
<1> USE DEF IInv
<1> DEFINE pm == merges[m]
           src == Sources(pm)
<1>1. pm.stage = "reading" /\ pm \in MergeState /\ held[m] = {}
  BY DEF FinishMerge, TypeOK
<1>2. PICK kept \in SUBSET NonRoots(pm.into), moved \in SUBSET NonRoots(pm.from) :
        \E left \in SUBSET (NonRoots(pm.from) \ moved), f \in Fresh, g \in Fresh :
        \E dropped \in SUBSET (NonRoots(pm.from) \ (moved \cup left)) :
          /\ f \cap g = {}
          /\ Cardinality(pm.from) > 1 => left = {} /\ g = {} /\ dropped = {}
          /\ \E dest \in SegmentsOn(kept \cup moved \cup f, f),
                survivors \in SegmentsOn(left \cup g, left \cup g) :
                merges' = [merges EXCEPT ![m] =
                    [pm EXCEPT !.stage = "written",
                               !.outputs = dest \cup survivors,
                               !.dependsOn = DependsOn(pm, dest, survivors),
                               !.inactive = InactiveFor(Sources(pm),
                                                AllPages(dest \cup survivors) \cup dropped),
                               !.forgotten = dropped]]
          /\ free' = free \ (f \cup g)
  BY DEF FinishMerge
<1>3. PICK left \in SUBSET (NonRoots(pm.from) \ moved), f \in Fresh, g \in Fresh :
        \E dropped \in SUBSET (NonRoots(pm.from) \ (moved \cup left)) :
          /\ f \cap g = {}
          /\ Cardinality(pm.from) > 1 => left = {} /\ g = {} /\ dropped = {}
          /\ \E dest \in SegmentsOn(kept \cup moved \cup f, f),
                survivors \in SegmentsOn(left \cup g, left \cup g) :
                merges' = [merges EXCEPT ![m] =
                    [pm EXCEPT !.stage = "written",
                               !.outputs = dest \cup survivors,
                               !.dependsOn = DependsOn(pm, dest, survivors),
                               !.inactive = InactiveFor(Sources(pm),
                                                AllPages(dest \cup survivors) \cup dropped),
                               !.forgotten = dropped]]
          /\ free' = free \ (f \cup g)
  BY <1>2
<1>4. PICK dropped \in SUBSET (NonRoots(pm.from) \ (moved \cup left)),
           dest \in SegmentsOn(kept \cup moved \cup f, f),
           survivors \in SegmentsOn(left \cup g, left \cup g) :
          /\ f \cap g = {}
          /\ merges' = [merges EXCEPT ![m] =
                    [pm EXCEPT !.stage = "written",
                               !.outputs = dest \cup survivors,
                               !.dependsOn = DependsOn(pm, dest, survivors),
                               !.inactive = InactiveFor(Sources(pm),
                                                AllPages(dest \cup survivors) \cup dropped),
                               !.forgotten = dropped]]
          /\ free' = free \ (f \cup g)
  BY <1>3
<1> DEFINE outputs == dest \cup survivors
           needed == AllPages(outputs)
           np == merges'[m]
<1>5. /\ np.stage = "written" /\ np.from = pm.from /\ np.into = pm.into
      /\ Sources(np) = src
      /\ np.outputs = outputs /\ np.dependsOn = DependsOn(pm, dest, survivors)
      /\ np.inactive = InactiveFor(src, needed \cup dropped) /\ np.forgotten = dropped
      /\ \A n \in Merger \ {m} : merges'[n] = merges[n]
  BY <1>1, <1>4 DEF MergeState, Sources, TypeOK
<1>6. UNCHANGED <<live, written, held, zombies, dependencies, leaked>>
  BY DEF FinishMerge
<1>7. f \subseteq free /\ g \subseteq free /\ free \subseteq Page
  BY DEF Fresh, TypeOK
\* The pages that are reused are pages of the sources, but no root.
<1>8. \A p \in NonRoots(pm.from) :
         p \in Page /\ p \notin free /\ p \in NonRoots(src) /\ \E s \in pm.from : p \in s.pages
  BY RootsOfSources, InNonRoots DEF Sources
<1>9. \A p \in NonRoots(pm.into) :
         p \in Page /\ p \notin free /\ p \in NonRoots(src) /\ \E s \in pm.into : p \in s.pages
  BY RootsOfSources, InNonRoots DEF Sources
<1>10. NonRoots(pm.from) \cap NonRoots(pm.into) = {}
  <2> SUFFICES ASSUME NEW p \in NonRoots(pm.from), p \in NonRoots(pm.into)
               PROVE  FALSE
    OBVIOUS
  <2>1. PICK s \in pm.from : p \in s.pages
    BY <1>8
  <2>2. PICK t \in pm.into : p \in t.pages
    BY <1>9
  <2>3. s # t
    BY DEF SourcesAreLive
  <2>4. s \in src /\ t \in src
    BY DEF Sources
  <2> QED
    BY <2>1, <2>2, <2>3, <2>4, RootsOfSources DEF Apart
<1>11. /\ dest \subseteq Segment /\ AllPages(dest) = kept \cup moved \cup f
       /\ \A s \in dest : dest = {s} /\ s.pages = kept \cup moved \cup f /\ s.root \in f
  <2>1. kept \cup moved \cup f \in SUBSET Page
    BY <1>7, <1>8, <1>9
  <2>2. f \in SUBSET (kept \cup moved \cup f)
    OBVIOUS
  <2> QED
    BY <2>1, <2>2, SegmentsOnPages
<1>12. /\ survivors \subseteq Segment /\ AllPages(survivors) = left \cup g
       /\ \A s \in survivors : survivors = {s} /\ s.pages = left \cup g
  <2>1. left \cup g \in SUBSET Page
    BY <1>7, <1>8
  <2>2. left \cup g \in SUBSET (left \cup g)
    OBVIOUS
  <2> QED
    BY <2>1, <2>2, SegmentsOnPages
<1> HIDE DEF np, src
<1>13. outputs \subseteq Segment /\ needed = kept \cup moved \cup f \cup left \cup g
  BY <1>11, <1>12 DEF AllPages
<1>14. \A o, q \in outputs : o # q => Apart(o, q)
  BY <1>4, <1>7, <1>8, <1>9, <1>10, <1>11, <1>12 DEF Apart
<1> HIDE DEF outputs, needed
<1>15. \A p \in needed : p \in f \cup g \/ p \in NonRoots(src)
  BY <1>8, <1>9, <1>13
<1>16. \A o \in outputs : \A p \in o.pages : p \in needed
  BY InPages DEF needed
<1>17. TypeOK'
  <2>1. outputs \in SUBSET Segment /\ dropped \in SUBSET Page
    BY <1>8, <1>13
  <2>2. InactiveFor(src, needed \cup dropped) \in [Page -> SUBSET Page]
    BY RootsOfSources, SegmentType DEF InactiveFor, src
  <2>3. DependsOn(pm, dest, survivors) \in [Page -> SUBSET Page]
    <3>1. \A s \in src : s.root \in Page
      BY RootsOfSources, SegmentType DEF src
    <3>2. Roots(src) \subseteq Page /\ Roots(pm.from) \subseteq Page
      BY <3>1, InRoots DEF src, Sources
    <3> QED
      BY <3>2 DEF DependsOn, src
  <2>4. np \in MergeState
    <3>1. np = [stage |-> "written", from |-> pm.from, into |-> pm.into,
                outputs |-> outputs, dependsOn |-> DependsOn(pm, dest, survivors),
                inactive |-> InactiveFor(src, needed \cup dropped), forgotten |-> dropped]
      BY <1>1, <1>4 DEF MergeState, np, outputs, needed, src, TypeOK
    <3> QED
      BY <1>1, <2>1, <2>2, <2>3, <3>1 DEF MergeState
  <2>5. merges' \in [Merger -> MergeState]
    BY <1>4, <1>5, <2>4 DEF TypeOK, np
  <2> QED
    BY <1>4, <1>6, <2>5 DEF TypeOK
<1>18. SegmentsAreApart'
  BY <1>6 DEF SegmentsAreApart, Apart
<1>19. SourcesAreLive'
  BY <1>1, <1>5, <1>6 DEF SourcesAreLive, np, src
<1>20. OutputsAreApart'
  <2>1. \A n \in Merger : merges'[n].stage # "written" => merges'[n].outputs = {}
    BY <1>5 DEF OutputsAreApart, np
  <2>2. ASSUME NEW o \in outputs, NEW s \in (live \cup written) \ src
        PROVE  Apart(o, s)
    <3>1. \A p \in s.pages : p \notin free
      BY SegmentType DEF PagesHaveOnePlace, IsKept, TypeOK
    <3>2. \A t \in src : Apart(t, s)
      BY <2>2 DEF SegmentsAreApart, SourcesAreLive, src
    <3> QED
      BY <1>7, <1>15, <1>16, <3>1, <3>2, InNonRoots DEF Apart
  <2>3. ASSUME NEW o \in outputs, NEW n \in Merger \ {m}, NEW q \in merges[n].outputs
        PROVE  Apart(o, q) /\ Apart(q, o)
    <3>1. \A p \in q.pages : p \in Page /\ p \notin free
      <4>1. q \in Segment
        BY DEF TypeOK, MergeState
      <4> QED
        BY <4>1, SegmentType DEF PagesHaveOnePlace, IsKept
    <3>2. \A t \in src : Apart(t, q)
      BY DEF OutputsAreApart, SourcesAreLive, src, Apart
    <3> QED
      BY <1>7, <1>15, <1>16, <3>1, <3>2, InNonRoots DEF Apart
  <2>4. ASSUME NEW n \in Merger, NEW o \in merges'[n].outputs,
               NEW s \in (live \cup written) \ Sources(merges'[n])
        PROVE  Apart(o, s)
    BY <1>5, <2>2 DEF OutputsAreApart, np
  <2>5. ASSUME NEW n \in Merger, NEW k \in Merger,
               NEW o \in merges'[n].outputs, NEW q \in merges'[k].outputs, n # k \/ o # q
        PROVE  Apart(o, q)
    BY <1>5, <1>14, <2>3, <2>5 DEF OutputsAreApart, np
  <2> QED
    BY <1>6, <2>1, <2>4, <2>5 DEF OutputsAreApart, Apart
<1>21. SourcesAreSplit'
  <2>1. ASSUME NEW s \in src
        PROVE  /\ s.root \notin needed \cup dropped
               /\ np.inactive[s.root] = s.pages \ (needed \cup dropped)
               /\ \A o \in outputs : ~Apart(o, s) => s.root \in np.dependsOn[o.root]
    <3>1. /\ s.root \in Page /\ s.root \in s.pages /\ s.root \notin NonRoots(src)
          /\ s.root \notin free /\ \A t \in src : t.root = s.root => t = s
      BY RootsOfSources, SegmentType DEF src
    <3>2. s.root \notin needed \cup dropped
      BY <1>7, <1>8, <1>15, <3>1
    <3>3. np.inactive[s.root] = s.pages \ (needed \cup dropped)
      <4>1. {x \in src : x.root = s.root} = {s}
        BY <3>1
      <4> QED
        BY <1>5, <3>1, <4>1 DEF InactiveFor
    <3>4. ASSUME NEW o \in outputs, ~Apart(o, s)
          PROVE  s.root \in np.dependsOn[o.root]
      <4>1. o.root \in Page /\ s.root \in Roots(src)
        BY <1>13, SegmentType, InRoots
      <4>2. CASE o.root \in Roots(dest)
        BY <1>5, <4>1, <4>2 DEF DependsOn, src
      <4>3. CASE o.root \notin Roots(dest)
        <5>1. o \in survivors /\ o.root \in Roots(survivors) /\ o.pages = left \cup g
          BY <1>12, <4>3, InRoots DEF outputs
        <5>2. PICK p \in s.pages : p \in left \cup g
          BY <3>4, <5>1 DEF Apart
        <5>3. p \in left
          BY <1>7, <5>2, RootsOfSources DEF src
        <5>4. PICK t \in pm.from : p \in t.pages
          BY <1>8, <5>3
        <5>5. t = s
          BY <5>2, <5>4, RootsOfSources DEF Apart, src, Sources
        <5>6. s.root \in Roots(pm.from)
          BY <5>4, <5>5, InRoots
        <5> QED
          BY <1>5, <4>1, <4>3, <5>1, <5>6 DEF DependsOn
      <4> QED
        BY <4>2, <4>3
    <3> QED
      BY <3>2, <3>3, <3>4
  <2>2. dropped \subseteq AllPages(src) \ needed
    <3>1. \A p \in dropped : p \in AllPages(src)
      BY <1>8, InPages, InNonRoots
    <3>2. \A p \in dropped : p \notin needed
      BY <1>7, <1>8, <1>10, <1>13
    <3> QED
      BY <3>1, <3>2
  <2>3. \A p \in Page : /\ np.dependsOn[p] # {} => p \in Roots(outputs)
                        /\ np.dependsOn[p] \subseteq Roots(src)
    <3>1. Roots(dest) \cup Roots(survivors) = Roots(outputs) /\ Roots(pm.from) \subseteq Roots(src)
      BY DEF Roots, outputs, src, Sources
    <3> QED
      BY <1>5, <3>1 DEF DependsOn, src
  <2>4. AllPages(np.outputs) = needed
    BY <1>5 DEF needed
  <2>5. IsSplit(np)
    BY <1>5, <2>1, <2>2, <2>3, <2>4 DEF IsSplit
  <2> QED
    BY <1>5, <2>5 DEF SourcesAreSplit, np
<1>22. PagesHaveOnePlace'
  <2>1. \A p \in Page : p \in f \cup g => IsKept(p)'
    <3>1. \A p \in f \cup g : p \in AllPages(outputs)
      BY <1>13 DEF needed
    <3> QED
      BY <1>5, <3>1, InPages DEF IsKept, np
  <2>2. \A p \in Page : IsKept(p) => IsKept(p)'
    BY <1>1, <1>5, <1>6 DEF IsKept, OutputsAreApart, np
  <2>3. \A p \in Page : IsKept(p)' => IsKept(p) \/ p \in f \cup g
    <3>1. ASSUME NEW p \in Page, NEW o \in outputs, p \in o.pages
          PROVE  IsKept(p) \/ p \in f \cup g
      BY <1>15, <1>16, <3>1, InNonRoots, RootsOfSources DEF src
    <3> QED
      BY <1>5, <1>6, <3>1 DEF IsKept, np
  <2>4. \A p \in Page : IsZombie(p)' <=> IsZombie(p)
    BY <1>6 DEF IsZombie
  <2> QED
    BY <1>4, <1>6, <1>7, <2>1, <2>2, <2>3, <2>4 DEF PagesHaveOnePlace
<1>23. ZombiesArePinned' /\ WaitingMakesSense'
  BY <1>6 DEF ZombiesArePinned, WaitingMakesSense, Pinned, LockedBy, Roots
<1>24. HeldIsKept' /\ LockedWhileReading'
  <2>1. HeldIsKept'
    BY <1>6, KeptForSame DEF HeldIsKept
  <2>2. LockedWhileReading'
    BY <1>1, <1>5, <1>6 DEF LockedWhileReading
  <2> QED
    BY <2>1, <2>2
<1> QED
  BY <1>17, <1>18, <1>19, <1>20, <1>21, <1>22, <1>23, <1>24

-----------------------------------------------------------------------------
(* A merge is committed.                                                   *)

\* commit_merge: add_inactive and add_dependencies.
LEMMA CommitMergeInv ==
    ASSUME IInv, NEW m \in Merger, CommitMerge(m)
    PROVE  IInv'
<1> USE DEF IInv
<1> DEFINE pm == merges[m]
           src == Sources(pm)
           out == pm.outputs
           gone(p) == (\E s \in src : p \in s.pages) /\ ~ \E o \in out : p \in o.pages
<1>1. /\ pm.stage = "written" /\ pm \in MergeState
      /\ live' = (live \ src) \cup out
      /\ dependencies' = AddDependencies(pm)
      /\ zombies' = [p \in Page |-> IF p \in Roots(src) /\ PinnedAtCommit(p)
                                    THEN pm.inactive[p] ELSE zombies[p]]
      /\ free' = free \cup UNION {pm.inactive[p] :
                                     p \in {r \in Roots(src) : ~PinnedAtCommit(r)}}
      /\ leaked' = leaked \cup pm.forgotten
      /\ merges' = [merges EXCEPT ![m] = Idle]
      /\ written' = written /\ held' = held
  BY DEF CommitMerge, TypeOK
<1>2. out \subseteq Segment /\ src \subseteq live /\ src \subseteq Segment
  BY <1>1 DEF MergeState, SourcesAreLive, TypeOK
<1>3. /\ merges'[m] = Idle /\ \A n \in Merger \ {m} : merges'[n] = merges[n]
      /\ Idle.stage = "idle" /\ Idle.outputs = {} /\ Sources(Idle) = {}
  BY <1>1, IdleType DEF Idle, TypeOK
\* What IInv says of this merge.
<1>4. ASSUME NEW s \in src
      PROVE  /\ s.root \in Page /\ s.root \in s.pages /\ s \in live
             /\ \A t \in src : t.root = s.root => t = s
             /\ \A t \in live \cup written : t # s => Apart(s, t) /\ Apart(t, s)
             /\ \A p \in s.pages : p \in Page /\ IsKept(p) /\ p \notin free
  BY <1>2, RootsOfSources, SegmentType DEF SegmentsAreApart
<1>5. ASSUME NEW s \in src
      PROVE  /\ gone(s.root) /\ s.root \notin pm.forgotten
             /\ \A p : p \in pm.inactive[s.root]
                       <=> p \in s.pages /\ gone(p) /\ p \notin pm.forgotten
             /\ s.root \in pm.inactive[s.root]
  <2>1. /\ s.root \notin AllPages(out) \cup pm.forgotten
        /\ pm.inactive[s.root] = s.pages \ (AllPages(out) \cup pm.forgotten)
    BY <1>1 DEF SourcesAreSplit, IsSplit
  <2> QED
    BY <1>4, <2>1, InPages
<1>6. /\ \A p \in pm.forgotten : gone(p)
      /\ \A p \in Page : pm.dependsOn[p] # {} => \E o \in out : p = o.root
      /\ \A p \in Page : \A r \in pm.dependsOn[p] : \E s \in src : r = s.root
      /\ \A o \in out : \A s \in src : ~Apart(o, s) => s.root \in pm.dependsOn[o.root]
  <2>1. IsSplit(pm)
    BY <1>1 DEF SourcesAreSplit
  <2> QED
    BY <2>1, InPages, InRoots DEF IsSplit
<1>7. ASSUME NEW o \in out
      PROVE  /\ o.root \in Page /\ o.root \in o.pages
             /\ \A t \in (live \cup written) \ src : Apart(o, t) /\ Apart(t, o)
             /\ \A p \in o.pages : p \in Page /\ IsKept(p)
  <2>1. \A p \in o.pages : IsKept(p)
    BY DEF IsKept
  <2> QED
    BY <1>2, <2>1, SegmentType DEF OutputsAreApart, Apart
<1> HIDE DEF src, out
\* No page of a new segment is a root that anything waits for, or that waits.
<1>8. \A o \in out : /\ o.root \notin Roots(live)
                     /\ zombies[o.root] = {} /\ dependencies[o.root] = {}
                     /\ \A r \in Page : o.root \notin dependencies[r]
  <2> SUFFICES ASSUME NEW o \in out
               PROVE  /\ o.root \notin Roots(live)
                      /\ zombies[o.root] = {} /\ dependencies[o.root] = {}
                      /\ \A r \in Page : o.root \notin dependencies[r]
    OBVIOUS
  <2>1. o.root \notin Roots(live)
    <3>1. ASSUME NEW s \in live, s.root = o.root PROVE FALSE
      <4>1. s.root \in s.pages
        BY SegmentType DEF TypeOK
      <4>2. s \in src
        BY <1>7, <3>1, <4>1 DEF Apart
      <4> QED
        BY <1>5, <1>7, <3>1, <4>2
    <3> QED
      BY <3>1, InRoots
  <2>2. \A r \in Page : o.root \notin zombies[r]
    BY <1>7 DEF PagesHaveOnePlace, IsZombie
  <2>3. zombies[o.root] = {} /\ dependencies[o.root] = {}
    BY <1>7, <2>1, <2>2 DEF ZombiesArePinned, WaitingMakesSense
  <2>4. \A r \in Page : o.root \notin dependencies[r]
    BY <1>7, <2>2 DEF WaitingMakesSense
  <2> QED
    BY <2>1, <2>3, <2>4
<1>9. ASSUME NEW p \in Page
      PROVE  /\ dependencies[p] \subseteq dependencies'[p]
             /\ dependencies'[p] \subseteq Page
             /\ ~(\E o \in out : o.root = p) => dependencies'[p] = dependencies[p]
             /\ \A d \in dependencies'[p] :
                   d \in dependencies[p] \/ \E s \in src : d = s.root /\ Pinned(d)
             /\ \A r \in pm.dependsOn[p] : Pinned(r) => r \in dependencies'[p]
  <2>1. dependencies'[p] = LET waitsFor == {r \in pm.dependsOn[p] : Pinned(r)} IN
                           IF waitsFor # {} THEN waitsFor ELSE dependencies[p]
    BY <1>1 DEF AddDependencies
  <2>2. pm.dependsOn[p] # {} => dependencies[p] = {}
    BY <1>6, <1>8
  <2>3. dependencies[p] \subseteq Page /\ pm.dependsOn[p] \subseteq Page
    BY <1>1 DEF TypeOK, MergeState
  <2>4. \A d \in pm.dependsOn[p] : \E s \in src : d = s.root
    BY <1>6
  <2>5. pm.dependsOn[p] # {} => \E o \in out : o.root = p
    BY <1>6
  <2> HIDE DEF pm
  <2> QED
    BY <2>1, <2>2, <2>3, <2>4, <2>5
\* What is pinned is known before and after.
<1>10. \A s \in src : /\ PinnedAtCommit(s.root) <=> Pinned(s.root)
                      /\ zombies[s.root] = {}
  <2> SUFFICES ASSUME NEW s \in src
               PROVE  (PinnedAtCommit(s.root) <=> Pinned(s.root)) /\ zombies[s.root] = {}
    OBVIOUS
  <2>1. \A o \in out : o.root # s.root
    BY <1>5, <1>7
  <2>2. dependencies'[s.root] = dependencies[s.root]
    BY <1>4, <1>9, <2>1
  <2>3. s.root \notin zombies[s.root]
    BY <1>4 DEF PagesHaveOnePlace, IsZombie
  <2> QED
    BY <1>4, <2>2, <2>3 DEF PinnedAtCommit, Pinned, ZombiesArePinned
<1>11. \A r \in Page : Pinned(r) => Pinned(r)'
  <2>1. LockedBy(Holder)' = LockedBy(Holder)
    BY <1>1 DEF LockedBy, Roots
  <2> QED
    BY <1>9, <2>1 DEF Pinned
<1>12. /\ \A s \in src : Pinned(s.root) => zombies'[s.root] = pm.inactive[s.root]
       /\ \A s \in src : ~Pinned(s.root) => zombies'[s.root] = {}
       /\ \A r \in Page : ~(\E s \in src : s.root = r) => zombies'[r] = zombies[r]
       /\ \A r \in Page : zombies[r] \subseteq zombies'[r]
       /\ \A p : p \in free' <=> \/ p \in free
                                 \/ \E s \in src : ~Pinned(s.root) /\ p \in pm.inactive[s.root]
  <2>1. \A r : r \in Roots(src) <=> \E s \in src : s.root = r
    BY InRoots
  <2>2. \A r \in Page : zombies'[r] = IF r \in Roots(src) /\ PinnedAtCommit(r)
                                      THEN pm.inactive[r] ELSE zombies[r]
    BY <1>1
  <2>3. \A s \in src : s.root \in Page
    BY <1>4
  <2>4. \A p : p \in free' <=> \/ p \in free
                               \/ \E r \in Roots(src) : ~PinnedAtCommit(r) /\ p \in pm.inactive[r]
    BY <1>1
  <2> HIDE DEF pm
  <2> QED
    BY <1>10, <2>1, <2>2, <2>3, <2>4
<1>13. TypeOK'
  <2>1. live' \subseteq Segment /\ leaked' \subseteq Page
    BY <1>1, <1>2 DEF TypeOK, MergeState
  <2>2. merges' \in [Merger -> MergeState]
    BY <1>1, IdleType DEF TypeOK
  <2>3. \A r \in Page : pm.inactive[r] \subseteq Page
    BY <1>1 DEF MergeState
  <2>4. zombies' \in [Page -> SUBSET Page]
    BY <1>1, <2>3 DEF TypeOK
  <2>5. dependencies' \in [Page -> SUBSET Page]
    <3>1. dependencies' = [p \in Page |-> dependencies'[p]]
      BY <1>1 DEF AddDependencies
    <3> QED
      BY <1>9, <3>1
  <2>6. free' \subseteq Page
    BY <1>4, <1>12, <2>3 DEF TypeOK
  <2> QED
    BY <1>1, <2>1, <2>2, <2>4, <2>5, <2>6 DEF TypeOK
<1>14. SegmentsAreApart'
  <2>1. out \cap written = {}
    BY <1>2, <1>7 DEF Apart, SegmentsAreApart
  <2>2. \A o, q \in out : o # q => Apart(o, q)
    BY DEF OutputsAreApart, out
  <2>3. \A s, t \in live' \cup written : s # t => Apart(s, t)
    BY <1>1, <1>2, <1>7, <2>2 DEF SegmentsAreApart
  <2>4. live' \cap written = {}
    BY <1>1, <2>1 DEF SegmentsAreApart
  <2> QED
    BY <1>1, <2>3, <2>4 DEF SegmentsAreApart, Apart
<1>15. SourcesAreLive'
  BY <1>1, <1>3, IdleType DEF SourcesAreLive, src
<1>16. OutputsAreApart'
  <2>1. \A n \in Merger : merges'[n].stage # "written" => merges'[n].outputs = {}
    BY <1>3 DEF OutputsAreApart
  <2>2. ASSUME NEW n \in Merger, NEW o \in merges'[n].outputs,
               NEW s \in (live' \cup written) \ Sources(merges'[n])
        PROVE  Apart(o, s)
    <3>1. n # m /\ o \in merges[n].outputs /\ Sources(merges'[n]) = Sources(merges[n])
      BY <1>3
    <3>2. CASE s \in out
      BY <3>1, <3>2 DEF OutputsAreApart, out
    <3>3. CASE s \notin out
      BY <1>1, <3>1, <3>3 DEF OutputsAreApart
    <3> QED
      BY <3>2, <3>3
  <2>3. ASSUME NEW n \in Merger, NEW k \in Merger,
               NEW o \in merges'[n].outputs, NEW q \in merges'[k].outputs, n # k \/ o # q
        PROVE  Apart(o, q)
    BY <1>3, <2>3 DEF OutputsAreApart
  <2> QED
    BY <1>1, <2>1, <2>2, <2>3 DEF OutputsAreApart, Apart
<1>17. SourcesAreSplit'
  BY <1>3 DEF SourcesAreSplit, IsSplit, Apart
\* The pages that are gone were in one source only and are in one place now.
<1>18. PagesHaveOnePlace'
  <2>1. \A p \in Page : gone(p) => IsKept(p) /\ ~IsKept(p)'
    <3> SUFFICES ASSUME NEW p \in Page, NEW s \in src, p \in s.pages,
                        ~ \E o \in out : p \in o.pages
                 PROVE  IsKept(p) /\ ~IsKept(p)'
      OBVIOUS
    <3>1. \A t \in live' \cup written' : p \notin t.pages
      <4> SUFFICES ASSUME NEW t \in live' \cup written', p \in t.pages
                   PROVE  FALSE
        OBVIOUS
      <4>1. t \in (live \cup written) /\ t \notin src
        BY <1>1, <1>4 DEF SegmentsAreApart, out
      <4>2. Apart(s, t)
        BY <1>4, <4>1
      <4> QED
        BY <4>2 DEF Apart
    <3>2. ASSUME NEW n \in Merger, NEW o \in merges'[n].outputs, p \in o.pages
          PROVE  FALSE
      <4>1. n # m /\ o \in merges[n].outputs
        BY <1>3
      <4>2. s \in live \ Sources(merges[n])
        BY <1>4, <4>1 DEF SourcesAreLive, src
      <4>3. Apart(o, s)
        BY <4>1, <4>2 DEF OutputsAreApart
      <4> QED
        BY <3>2, <4>3 DEF Apart
    <3> QED
      BY <1>4, <3>1, <3>2 DEF IsKept
  <2>2. \A p \in Page : IsKept(p)' => IsKept(p)
    BY <1>1, <1>3, <1>7 DEF IsKept
  <2>3. \A p \in Page : IsKept(p) => IsKept(p)' \/ gone(p)
    <3>1. \A p \in Page : (\E o \in out : p \in o.pages) => IsKept(p)'
      BY <1>1 DEF IsKept
    <3>2. ASSUME NEW p \in Page, NEW n \in Merger \ {m}, NEW o \in merges[n].outputs, p \in o.pages
          PROVE  IsKept(p)'
      BY <1>3, <3>2 DEF IsKept
    <3>3. ASSUME NEW p \in Page, NEW s \in (live \cup written) \ src, p \in s.pages
          PROVE  IsKept(p)'
      BY <1>1, <3>3 DEF IsKept
    <3> QED
      BY <1>2, <3>1, <3>2, <3>3 DEF IsKept, out
  <2>4. \A p \in Page : IsZombie(p)' <=>
           IsZombie(p) \/ \E s \in src : Pinned(s.root) /\ p \in pm.inactive[s.root]
    <3>1. ASSUME NEW p \in Page, IsZombie(p)'
          PROVE  IsZombie(p) \/ \E s \in src : Pinned(s.root) /\ p \in pm.inactive[s.root]
      <4>1. PICK r \in Page : p \in zombies'[r]
        BY <3>1 DEF IsZombie
      <4>2. CASE \E s \in src : s.root = r
        BY <1>12, <4>1, <4>2
      <4>3. CASE ~ \E s \in src : s.root = r
        BY <1>12, <4>1, <4>3 DEF IsZombie
      <4> QED
        BY <4>2, <4>3
    <3>2. ASSUME NEW p \in Page, IsZombie(p)
          PROVE  IsZombie(p)'
      BY <1>12, <3>2 DEF IsZombie
    <3>3. ASSUME NEW p \in Page, NEW s \in src, Pinned(s.root), p \in pm.inactive[s.root]
          PROVE  IsZombie(p)'
      BY <1>4, <1>12, <3>3 DEF IsZombie
    <3> QED
      BY <3>1, <3>2, <3>3
  <2>5. \A p : p \in leaked' <=> p \in leaked \/ p \in pm.forgotten
    BY <1>1
  <2>6. \A p \in Page : gone(p) => p \in pm.forgotten \/ \E s \in src : p \in pm.inactive[s.root]
    BY <1>5
  <2>7. \A s, t \in src : s # t => pm.inactive[s.root] \cap pm.inactive[t.root] = {}
    <3> SUFFICES ASSUME NEW s \in src, NEW t \in src, NEW p, s # t,
                        p \in pm.inactive[s.root], p \in pm.inactive[t.root]
                 PROVE  FALSE
      OBVIOUS
    <3>1. p \in s.pages /\ p \in t.pages
      BY <1>5
    <3>2. Apart(s, t)
      BY <1>4
    <3> QED
      BY <3>1, <3>2 DEF Apart
  <2>8. \A s \in src : \A p \in pm.inactive[s.root] : p \in Page /\ gone(p) /\ p \notin pm.forgotten
    BY <1>4, <1>5
  <2>9. \A p : gone(p) => p \in Page
    BY <1>4
  <2>10. \A q, r \in Page : q # r => zombies'[q] \cap zombies'[r] = {}
    <3> SUFFICES ASSUME NEW q \in Page, NEW r \in Page, NEW p \in Page, q # r,
                        p \in zombies'[q], p \in zombies'[r]
                 PROVE  FALSE
      BY <1>13 DEF TypeOK
    <3>1. \A x \in Page : p \in zombies'[x] =>
             p \in zombies[x] \/ \E s \in src : s.root = x /\ p \in pm.inactive[x]
      BY <1>12
    <3>2. \A x \in Page : p \in zombies[x] => ~IsKept(p)
      BY DEF PagesHaveOnePlace, IsZombie
    <3>3. \A s \in src : p \in pm.inactive[s.root] => IsKept(p)
      BY <2>1, <2>8
    <3> QED
      BY <2>7, <3>1, <3>2, <3>3 DEF PagesHaveOnePlace
  <2> HIDE DEF gone, pm
  <2>11. ASSUME NEW p \in Page
         PROVE  /\ p \in free' \/ IsKept(p)' \/ IsZombie(p)' \/ p \in leaked'
                /\ p \in free' => ~IsKept(p)' /\ ~IsZombie(p)' /\ p \notin leaked'
                /\ p \in leaked' => ~IsKept(p)' /\ ~IsZombie(p)'
                /\ IsZombie(p)' => ~IsKept(p)'
    <3>1. CASE gone(p)
      BY <1>6, <1>12, <2>1, <2>4, <2>5, <2>6, <2>7, <2>8, <3>1 DEF PagesHaveOnePlace
    <3>2. CASE ~gone(p)
      BY <1>6, <1>12, <2>2, <2>3, <2>4, <2>5, <2>8, <3>2 DEF PagesHaveOnePlace
    <3> QED
      BY <3>1, <3>2
  <2> QED
    BY <2>10, <2>11 DEF PagesHaveOnePlace
<1>19. ZombiesArePinned'
  <2> SUFFICES ASSUME NEW r \in Page, zombies'[r] # {}
               PROVE  r \in zombies'[r] /\ Pinned(r)'
    BY DEF ZombiesArePinned
  <2>1. CASE zombies[r] # {}
    BY <1>11, <1>12, <2>1 DEF ZombiesArePinned
  <2>2. CASE zombies[r] = {}
    <3>1. PICK s \in src : s.root = r
      BY <1>12, <2>2
    <3>2. Pinned(r)
      BY <1>12, <3>1
    <3> QED
      BY <1>5, <1>11, <1>12, <3>1, <3>2
  <2> QED
    BY <2>1, <2>2
<1>20. WaitingMakesSense'
  <2>1. \A r \in Page : dependencies'[r] # {} => r \in Roots(live') \/ r \in zombies'[r]
    <3> SUFFICES ASSUME NEW r \in Page, dependencies'[r] # {}, r \notin Roots(live')
                 PROVE  r \in zombies'[r]
      OBVIOUS
    <3>1. ~ \E o \in out : o.root = r
      BY <1>1, InRoots
    <3>2. dependencies[r] # {}
      BY <1>9, <3>1
    <3>3. CASE \E s \in src : s.root = r
      <4>1. PICK s \in src : s.root = r
        BY <3>3
      <4>2. Pinned(s.root)
        BY <3>2, <4>1 DEF Pinned
      <4>3. zombies'[s.root] = pm.inactive[s.root]
        BY <1>12, <4>2
      <4>4. s.root \in pm.inactive[s.root]
        BY <1>5
      <4> QED
        BY <4>1, <4>3, <4>4
    <3>4. CASE ~ \E s \in src : s.root = r
      BY <1>1, <1>12, <3>2, <3>4, InRoots DEF WaitingMakesSense
    <3> QED
      BY <3>3, <3>4
  <2>2. \A r \in Page : \A d \in dependencies'[r] : d \in zombies'[d]
    <3> SUFFICES ASSUME NEW r \in Page, NEW d \in dependencies'[r]
                 PROVE  d \in zombies'[d]
      OBVIOUS
    <3>1. CASE d \in dependencies[r]
      BY <1>9, <1>12, <3>1 DEF WaitingMakesSense
    <3>2. CASE \E s \in src : d = s.root /\ Pinned(d)
      BY <1>5, <1>12, <3>2
    <3> QED
      BY <1>9, <3>1, <3>2
  <2>3. ASSUME NEW S \in SUBSET Page, S # {}
        PROVE  \E r \in S : dependencies'[r] \cap S = {}
    <3> DEFINE old == {r \in S : ~ \E o \in out : o.root = r}
    <3>1. CASE old # {}
      <4>1. PICK r \in old : dependencies[r] \cap old = {}
        BY <3>1 DEF WaitingMakesSense
      <4>2. dependencies'[r] = dependencies[r]
        BY <1>9
      <4>3. \A o \in out : o.root \notin dependencies[r]
        BY <1>8
      <4> QED
        BY <4>1, <4>2, <4>3
    <3>2. CASE old = {}
      <4>1. PICK r \in S : TRUE
        BY <2>3
      <4>2. \A q \in S : \E o \in out : o.root = q
        BY <3>2
      <4>3. dependencies[r] = {}
        BY <1>8, <4>2
      <4>4. \A d \in dependencies'[r] : d \notin S
        BY <1>5, <1>7, <1>9, <4>2, <4>3
      <4> QED
        BY <4>4
    <3> QED
      BY <3>1, <3>2
  <2> QED
    BY <2>1, <2>2, <2>3 DEF WaitingMakesSense
\* What a reader still reads of a source is in the new segments, which wait for
\* the source, or among its zombies, or leaked.
<1>21. HeldIsKept'
  <2> SUFFICES ASSUME NEW h \in Holder, NEW s \in held[h], NEW p \in s.pages
               PROVE  IsKeptFor(p, s.root)'
    BY <1>1 DEF HeldIsKept
  <2>1. s.root \in Page /\ s.root \in LockedBy(Holder)
    BY SegmentType, InLocked DEF TypeOK
  <2>2. WaitsFor(s.root) \subseteq WaitsFor(s.root)'
    BY <1>9, <2>1, WaitsForGrows
  <2>3. \A r \in WaitsFor(s.root) : r \in Page /\ Pinned(r)
    BY <2>1, WaitsForProperties DEF Pinned
  <2>4. CASE \E r \in WaitsFor(s.root) : p \in zombies[r]
    BY <1>12, <2>2, <2>3, <2>4 DEF IsKeptFor
  <2>5. CASE p \in leaked
    BY <1>1, <2>5 DEF IsKeptFor
  <2>6. CASE \E x \in live \ src : p \in x.pages /\ x.root \in WaitsFor(s.root)
    BY <1>1, <2>2, <2>6 DEF IsKeptFor
  <2>7. ASSUME NEW x \in src, p \in x.pages, x.root \in WaitsFor(s.root)
        PROVE  IsKeptFor(p, s.root)'
    <3>1. Pinned(x.root)
      BY <2>3, <2>7
    <3>2. CASE gone(p) /\ p \in pm.forgotten
      BY <1>1, <3>2 DEF IsKeptFor
    <3>3. CASE gone(p) /\ p \notin pm.forgotten
      <4>1. p \in zombies'[x.root]
        BY <1>5, <1>12, <2>7, <3>1, <3>3
      <4> QED
        BY <2>2, <2>7, <4>1 DEF IsKeptFor
    <3>4. CASE ~gone(p)
      <4>1. PICK o \in out : p \in o.pages
        BY <2>7, <3>4
      <4>2. x.root \in dependencies'[o.root]
        BY <1>6, <1>7, <1>9, <2>7, <3>1, <4>1 DEF Apart
      <4>3. o.root \in WaitsFor(s.root)'
        <5>1. ClosedUnderWaiting(WaitsFor(s.root))'
          <6> SUFFICES ASSUME NEW q \in Page, dependencies'[q] \cap WaitsFor(s.root)' # {},
                              NEW T \in SUBSET Page, s.root \in T, ClosedUnderWaiting(T)'
                       PROVE  q \in T
            BY DEF ClosedUnderWaiting, WaitsFor
          <6>1. WaitsFor(s.root)' \subseteq T
            BY DEF WaitsFor
          <6>2. dependencies'[q] \cap T # {}
            BY <6>1
          <6> QED
            BY <6>2 DEF ClosedUnderWaiting
        <5> QED
          BY <1>7, <2>2, <2>7, <4>2, <5>1 DEF ClosedUnderWaiting
      <4> QED
        BY <1>1, <4>1, <4>3 DEF IsKeptFor
    <3> QED
      BY <3>2, <3>3, <3>4
  <2>8. IsKeptFor(p, s.root)
    BY DEF HeldIsKept
  <2> QED
    BY <2>4, <2>5, <2>6, <2>7, <2>8 DEF IsKeptFor
<1>22. LockedWhileReading'
  BY <1>1, <1>3 DEF LockedWhileReading
<1> QED
  BY <1>13, <1>14, <1>15, <1>16, <1>17, <1>18, <1>19, <1>20, <1>21, <1>22

-----------------------------------------------------------------------------
(* The process dies and the file is opened again.                          *)

\* The database is opened again: what the header does not list is free.
LEMMA ReopenInv ==
    ASSUME IInv, Reopen
    PROVE  IInv'
<1> USE DEF IInv, Reopen
<1>1. \A m \in Merger : merges'[m] = Idle /\ merges'[m].stage = "idle" /\ merges'[m].outputs = {}
  BY DEF Idle
<1>2. \A p \in Page : zombies'[p] = {} /\ dependencies'[p] = {}
  OBVIOUS
<1>3. \A h \in Holder : held'[h] = {}
  OBVIOUS
<1>4. TypeOK'
  BY IdleType DEF TypeOK
<1>5. SegmentsAreApart'
  BY DEF SegmentsAreApart, Apart
<1>6. SourcesAreLive' /\ OutputsAreApart' /\ SourcesAreSplit'
  BY <1>1, IdleType DEF SourcesAreLive, OutputsAreApart, SourcesAreSplit
<1>7. PagesHaveOnePlace'
  <2>1. \A p \in Page : IsKept(p)' <=> p \in AllPages(live)
    BY <1>1, InPages DEF IsKept
  <2>2. \A p \in Page : ~IsZombie(p)'
    BY <1>2 DEF IsZombie
  <2> QED
    BY <1>2, <2>1, <2>2 DEF PagesHaveOnePlace
<1>8. ZombiesArePinned' /\ WaitingMakesSense'
  BY <1>2 DEF ZombiesArePinned, WaitingMakesSense
<1>9. HeldIsKept' /\ LockedWhileReading'
  BY <1>3 DEF HeldIsKept, LockedWhileReading, Holder
<1> QED
  BY <1>4, <1>5, <1>6, <1>7, <1>8, <1>9

-----------------------------------------------------------------------------
(* The theorems.                                                           *)

\* Every action keeps the invariant.
LEMMA StepInv == IInv /\ [Next]_vars => IInv'
<1> SUFFICES ASSUME IInv, [Next]_vars PROVE IInv'
  OBVIOUS
<1>1. ASSUME NEW r \in Reader, OpenCursor(r) PROVE IInv'
  BY <1>1, OpenCursorInv
<1>2. ASSUME NEW r \in Reader, CloseCursor(r) PROVE IInv'
  BY <1>2, CloseCursorInv
<1>3. CASE WriteSegment
  BY <1>3, WriteSegmentInv
<1>4. ASSUME NEW s \in written, CommitSegment(s) PROVE IInv'
  BY <1>4, CommitSegmentInv
<1>5. ASSUME NEW m \in Merger, PrepareMergeFromIncoming(m) PROVE IInv'
  BY <1>5, PrepareMergeFromIncomingInv
<1>6. ASSUME NEW m \in Merger, PrepareMerge(m) PROVE IInv'
  BY <1>6, PrepareMergeInv
<1>7. ASSUME NEW m \in Merger, ReleaseBehind(m) PROVE IInv'
  BY <1>7, ReleaseBehindInv
<1>8. ASSUME NEW m \in Merger, FinishMerge(m) PROVE IInv'
  BY <1>8, FinishMergeInv
<1>9. ASSUME NEW m \in Merger, CommitMerge(m) PROVE IInv'
  BY <1>9, CommitMergeInv
<1>10. CASE Reopen
  BY <1>10, ReopenInv
<1>11. CASE UNCHANGED vars
  <2>1. TypeOK'
    BY <1>11 DEF vars, IInv, TypeOK
  <2>2. SegmentsAreApart' /\ SourcesAreLive'
    BY <1>11 DEF vars, IInv, SegmentsAreApart, SourcesAreLive, Apart
  <2>3. OutputsAreApart' /\ SourcesAreSplit'
    BY <1>11 DEF vars, IInv, OutputsAreApart, SourcesAreSplit, Apart
  <2>4. PagesHaveOnePlace' /\ ZombiesArePinned'
    BY <1>11 DEF vars, IInv, PagesHaveOnePlace, IsKept, IsZombie, ZombiesArePinned,
                 Pinned, LockedBy, Roots
  <2>5. WaitingMakesSense' /\ LockedWhileReading'
    BY <1>11 DEF vars, IInv, WaitingMakesSense, LockedWhileReading
  <2>6. HeldIsKept'
    BY <1>11, KeptForSame DEF vars, IInv, HeldIsKept
  <2> QED
    BY <2>1, <2>2, <2>3, <2>4, <2>5, <2>6 DEF IInv
<1> QED
  BY <1>1, <1>2, <1>3, <1>4, <1>5, <1>6, <1>7, <1>8, <1>9, <1>10, <1>11 DEF Next

\* The inductive invariant holds in every reachable state.
THEOREM Inductive == Spec => []IInv
BY InitInv, StepInv, PTL DEF Spec

\* No page that a cursor, a merge or the header still uses is given out again,
\* however many readers and merges there are.
THEOREM PagesInUseAreSafe == Spec => []NothingInUseIsFree
<1>1. IInv => NothingInUseIsFree
  <2> SUFFICES ASSUME IInv, NEW p \in free, p \in InUse
               PROVE  FALSE
    BY DEF NothingInUseIsFree
  <2> USE DEF IInv
  <2>1. p \in Page /\ ~IsKept(p) /\ ~IsZombie(p) /\ p \notin leaked
    BY DEF TypeOK, PagesHaveOnePlace
  <2>2. \A s \in live \cup written : p \notin s.pages
    BY <2>1 DEF IsKept
  <2>3. \A m \in Merger : \A s \in Sources(merges[m]) \cup merges[m].outputs : p \notin s.pages
    BY <2>1, <2>2 DEF IsKept, SourcesAreLive
  <2>4. ASSUME NEW h \in Holder, NEW s \in held[h], p \in s.pages
        PROVE  FALSE
    <3>1. s.root \in Page
      BY SegmentType DEF TypeOK
    <3>2. \A r \in WaitsFor(s.root) : p \notin zombies[r]
      BY <2>1, <3>1, WaitsForProperties DEF IsZombie
    <3> QED
      BY <2>1, <2>2, <2>4, <3>2 DEF HeldIsKept, IsKeptFor
  <2>5. p \notin AllPages(live) /\ p \notin AllPages(written)
    BY <2>2, InPages
  <2>6. p \notin UNION {AllPages(held[h]) : h \in Holder}
    BY <2>4, InPages
  <2>7. \A m \in Merger : p \notin AllPages(Sources(merges[m]) \cup merges[m].outputs)
    BY <2>3 DEF AllPages
  <2>8. PICK m \in Merger : p \in AllPages(Sources(merges[m]) \cup merges[m].outputs)
    <3> HIDE DEF IInv
    <3> QED
      BY <2>5, <2>6 DEF InUse
  <2> QED
    BY <2>7, <2>8
<1> QED
  BY <1>1, Inductive, PTL

\* No page is in two places, and none is lost but those of dropped tombstones.
THEOREM OnePlacePerPage == Spec => []EveryPageHasOnePlace
<1>1. IInv => EveryPageHasOnePlace
  <2> SUFFICES ASSUME IInv PROVE EveryPageHasOnePlace
    OBVIOUS
  <2> USE DEF IInv
  <2> DEFINE kept == AllPages(live) \cup AllPages(written)
                     \cup UNION {AllPages(merges[m].outputs) : m \in Merger}
             waiting == UNION {zombies[p] : p \in Page}
  <2>1. \A p : p \in kept <=> IsKept(p)
    BY InPages DEF IsKept
  <2>2. \A p : p \in waiting <=> IsZombie(p)
    BY DEF IsZombie
  <2>3. kept \subseteq Page
    <3>1. \A m \in Merger : merges[m].outputs \subseteq Segment
      BY DEF TypeOK, MergeState
    <3> QED
      BY <2>1, <3>1, SegmentType DEF IsKept, TypeOK
  <2>4. waiting \subseteq Page
    BY DEF TypeOK
  <2> HIDE DEF kept, waiting
  <2>5. /\ free \cup kept \cup waiting \cup leaked = Page
        /\ free \cap (kept \cup waiting \cup leaked) = {}
        /\ kept \cap waiting = {}
    BY <2>1, <2>2, <2>3, <2>4 DEF PagesHaveOnePlace, TypeOK
  <2>6. \A p, q \in Page : p # q => zombies[p] \cap zombies[q] = {}
    BY DEF PagesHaveOnePlace
  <2> QED
    BY <2>5, <2>6 DEF EveryPageHasOnePlace, kept, waiting
<1> QED
  BY <1>1, Inductive, PTL

\* When no read lock is held, nothing is kept back.
THEOREM NothingIsKeptInVain == Spec => []NothingWaitsForNobody
<1>1. IInv => NothingWaitsForNobody
  <2> SUFFICES ASSUME IInv, \A h \in Holder : held[h] = {}
               PROVE  \A p \in Page : zombies[p] = {} /\ dependencies[p] = {}
    BY DEF NothingWaitsForNobody
  <2> USE DEF IInv
  <2> DEFINE stuck == {p \in Page : zombies[p] # {} \/ dependencies[p] # {}}
  <2> SUFFICES ASSUME stuck # {} PROVE FALSE
    OBVIOUS
  <2>1. PICK r \in stuck : dependencies[r] \cap stuck = {}
    BY DEF WaitingMakesSense
  <2>2. dependencies[r] = {}
    <3>1. \A d \in dependencies[r] : d \in Page /\ d \in zombies[d]
      BY DEF TypeOK, WaitingMakesSense
    <3> QED
      BY <2>1, <3>1
  <2>3. Pinned(r)
    BY <2>2 DEF ZombiesArePinned
  <2>4. r \notin LockedBy(Holder)
    BY InLocked
  <2> QED
    BY <2>2, <2>3, <2>4 DEF Pinned
<1> QED
  BY <1>1, Inductive, PTL

\* The assertions of add_dependencies and add_inactive never fail, though root
\* pages are used again.
THEOREM EntriesAreFresh == Spec => []NoEntryIsOverwritten
<1>1. IInv => NoEntryIsOverwritten
  <2> SUFFICES ASSUME IInv, NEW m \in Merger, merges[m].stage = "written"
               PROVE  /\ \A p \in Roots(merges[m].outputs) : dependencies[p] = {}
                      /\ \A p \in Roots(Sources(merges[m])) : zombies[p] = {}
    BY DEF NoEntryIsOverwritten
  <2> USE DEF IInv
  <2>1. ASSUME NEW p \in Page, IsKept(p) PROVE zombies[p] = {} /\ p \notin zombies[p]
    BY <2>1 DEF PagesHaveOnePlace, IsZombie, ZombiesArePinned
  <2>2. ASSUME NEW o \in merges[m].outputs PROVE dependencies[o.root] = {}
    <3>1. o.root \in Page /\ o.root \in o.pages /\ IsKept(o.root)
      <4>1. o \in Segment
        BY DEF TypeOK, MergeState
      <4> QED
        BY <4>1, SegmentType DEF IsKept
    <3>2. ASSUME NEW s \in live, s.root = o.root PROVE FALSE
      <4>1. s.root \in s.pages
        BY SegmentType DEF TypeOK
      <4>2. s \in Sources(merges[m])
        BY <3>1, <3>2, <4>1 DEF OutputsAreApart, Apart
      <4>3. s.root \notin AllPages(merges[m].outputs)
        BY <4>2 DEF SourcesAreSplit, IsSplit
      <4> QED
        BY <3>1, <3>2, <4>3, InPages
    <3> QED
      BY <2>1, <3>1, <3>2, InRoots DEF WaitingMakesSense
  <2>3. ASSUME NEW s \in Sources(merges[m]) PROVE zombies[s.root] = {}
    BY <2>1, RootsOfSources, SegmentType
  <2>4. \A p \in Roots(merges[m].outputs) : dependencies[p] = {}
    BY <2>2 DEF Roots
  <2>5. \A p \in Roots(Sources(merges[m])) : zombies[p] = {}
    BY <2>3 DEF Roots
  <2> QED
    BY <2>4, <2>5
<1> QED
  BY <1>1, Inductive, PTL

-----------------------------------------------------------------------------
(* BlockAllocator: the inductive invariant.                                *)

Beyond(n) == {p \in Nat : p >= n}

\* The pages that can still be handed out of s, those behind the end of the file
\* included.
SpacePages(s) == PagesOf(s.free) \cup (UNION s.recent) \cup Beyond(s.next)

\* A space whose lists share no pages and lie before next_page.
SoundSpace(s) ==
    /\ s \in [free : SUBSET Block, recent : SUBSET SUBSET PageNumber, next : 1..MaxPage + 1]
    /\ \A a, b \in s.free : Pages(a) \cap Pages(b) # {} => a = b
    /\ \A P, Q \in s.recent : P \cap Q # {} => P = Q
    /\ PagesOf(s.free) \cap UNION s.recent = {}
    /\ \A p \in PagesOf(s.free) \cup UNION s.recent : p < s.next

SeqPages(blocks) == PagesOf(SetOf(blocks))

\* The pages in the hands of a writer.
HeldBy(wr) == SeqPages(wr.blocks) \cup SeqPages(wr.inventory) \cup wr.mine

\* A writer holds one block at most of each kind between its steps, and shares no
\* page between them.
SoundWriter(wr) ==
    /\ wr \in PageWriter
    /\ Len(wr.blocks) <= 1 /\ Len(wr.inventory) <= 1
    /\ SeqPages(wr.blocks) \cap SeqPages(wr.inventory) = {}
    /\ SeqPages(wr.blocks) \cap wr.mine = {}
    /\ SeqPages(wr.inventory) \cap wr.mine = {}

\* The first block of a group comes before its other blocks and before what is
\* left to write it into, and its first page is written.
OrderedBlocks(group, inventory, mine) ==
    group # <<>> =>
        /\ group[1].first \in mine
        /\ \A i \in DOMAIN group : i # 1 => group[i].first > group[1].first
        /\ \A b \in SetOf(inventory) : b.first > group[1].first

OrderedGroup(wr) == OrderedBlocks(wr.group, wr.inventory, wr.mine)

\* A group of unknown length has something left once it has begun, and when that
\* is one page it goes on from a block of the group.
UnknownBlocks(group, inventory) ==
    /\ group = <<>> <=> inventory = <<>>
    /\ RunsLow(inventory) => \E i \in DOMAIN group : inventory[1].first = group[i].last + 1

UnknownGroup(wr) == wr.known = 0 => UnknownBlocks(wr.group, wr.inventory)

\* A group of known length is one block and what follows it.
KnownGroup(wr) ==
    wr.known # 0 =>
        \/ /\ wr.group = <<>> /\ wr.inventory # <<>>
           /\ CountPages(wr.inventory[1]) = wr.known
        \/ /\ Len(wr.group) = 1 /\ wr.inventory = <<>>
           /\ CountPages(wr.group[1]) = wr.known
        \/ /\ Len(wr.group) = 1 /\ wr.inventory # <<>>
           /\ wr.inventory[1].first = wr.group[1].last + 1
           /\ CountPages(wr.group[1]) + CountPages(wr.inventory[1]) = wr.known

SoundGroup(wr) ==
    /\ ~wr.inGroup => wr.inventory = <<>> /\ wr.group = <<>> /\ wr.known = 0
    /\ OrderedGroup(wr)
    /\ UnknownGroup(wr)
    /\ KnownGroup(wr)

SoundWriters ==
    /\ writers \in [Writer -> PageWriter]
    /\ \A w \in Writer : SoundWriter(writers[w]) /\ SoundGroup(writers[w])

\* The pages that neither the space nor a writer has.
Kept == {HeaderPage} \cup used \cup PagesOf(overflow) \cup PagesOf(goesOn)

KeptApart ==
    /\ HeaderPage \notin used \cup PagesOf(overflow) \cup PagesOf(goesOn)
    /\ used \cap (PagesOf(overflow) \cup PagesOf(goesOn)) = {}
    /\ PagesOf(overflow) \cap PagesOf(goesOn) = {}

PagesApart ==
    /\ SpacePages(space) \cap Kept = {}
    /\ \A w \in Writer : HeldBy(writers[w]) \cap (Kept \cup SpacePages(space)) = {}
    /\ \A v, w \in Writer : v # w => HeldBy(writers[v]) \cap HeldBy(writers[w]) = {}

NoPageLost ==
    \A p \in Nat \ {0} :
        p \in Kept \cup SpacePages(space) \/ \E w \in Writer : p \in HeldBy(writers[w])

\* What was written is in the file.
WrittenPages ==
    /\ used \subseteq HeaderPage..fileLast
    /\ \A w \in Writer : writers[w].mine \subseteq HeaderPage..fileLast

HeaderBlocks ==
    /\ overflow \subseteq Block /\ goesOn \subseteq Block
    /\ \A a, b \in overflow : a = b
    /\ \A a, b \in goesOn : a = b

\* The inductive invariant: all pages are shared out among the space, the hands of the
\* writers and what is kept, and the lists that hold them are sound.
AllocatorInv ==
    /\ SoundSpace(space)
    /\ SoundWriters
    /\ used \subseteq PageNumber /\ fileLast \in PageNumber
    /\ HeaderBlocks
    /\ KeptApart
    /\ PagesApart
    /\ NoPageLost
    /\ WrittenPages

-----------------------------------------------------------------------------
(* The specification that the theorems are about.                          *)

\* The overflow of the header in the file ends where the file ends, or before.
OverflowIsInFile == PagesOf(overflow) \subseteq HeaderPage..fileLast

\* The file is opened only when that is so: what happens otherwise is a known
\* defect of opening, not of handing out pages.
NextInFile == AllocatorNext /\ (ReopenFile => OverflowIsInFile)

SpecInFile == AllocatorInit /\ [][NextInFile]_allocatorVars

-----------------------------------------------------------------------------
(* Pages and blocks.                                                       *)

\* A set of numbers that is not empty has a least one.
LEMMA LeastNumber ==
    ASSUME NEW S \in SUBSET Nat, S # {}
    PROVE  \E n \in S : \A m \in S : n <= m
<1> DEFINE T == {1..n : n \in S}
<1>1. T \subseteq FiniteSubsetsOf(Nat) /\ T # {}
  <2>1. \A n \in S : 1..n \in SUBSET Nat /\ IsFiniteSet(1..n)
    BY FS_Interval
  <2> QED
    BY <2>1 DEF FiniteSubsetsOf
<1>2. PICK X \in T : \A Y \in T : <<Y, X>> \notin StrictSubsetOrdering(Nat)
  BY <1>1, FS_StrictSubsetOrderingWellFounded, WFMin, Zenon
<1>3. PICK n \in S : X = 1..n
  OBVIOUS
<1>4. ASSUME NEW m \in S, m < n
      PROVE  FALSE
  <2>1. n \in 1..n /\ n \notin 1..m /\ 1..m \subseteq 1..n
    BY <1>4
  <2>2. <<1..m, 1..n>> \in StrictSubsetOrdering(Nat)
    BY <2>1 DEF StrictSubsetOrdering
  <2> QED
    BY <1>2, <1>3, <2>2
<1> QED
  BY <1>4

\* What pages are.
LEMMA PageFacts ==
    /\ MaxPage \in Nat /\ HeaderPage = 1
    /\ PageNumber = 1..MaxPage
    /\ PagesPerBlock \in Nat /\ PagesPerBlock >= 2
    /\ FirstOfGroup \in Nat /\ FirstOfGroup >= 2
    /\ NextOfGroup \in Nat /\ NextOfGroup >= 2
    /\ RecentLimit \in Nat
BY AllocatorAssumption DEF PageNumber, HeaderPage

\* A block has its first and its last page, and those between.
LEMMA BlockFacts ==
    ASSUME NEW b \in Block
    PROVE  /\ b.first \in PageNumber /\ b.last \in PageNumber /\ b.first <= b.last
           /\ b.first \in Nat \ {0} /\ b.last \in Nat \ {0} /\ b.last <= MaxPage
           /\ Pages(b) = b.first..b.last
           /\ Pages(b) \subseteq PageNumber
           /\ b.first \in Pages(b) /\ b.last \in Pages(b)
           /\ CountPages(b) = b.last - b.first + 1
           /\ CountPages(b) \in Nat \ {0} /\ CountPages(b) <= MaxPage
BY PageFacts DEF Block, Pages, CountPages

\* A block is its first and its last page.
LEMMA BlockIsItsEnds ==
    ASSUME NEW a \in Block, NEW b \in Block, a.first = b.first, a.last = b.last
    PROVE  a = b
BY DEF Block

\* A block that is made of two pages in order.
LEMMA MadeBlock ==
    ASSUME NEW f \in PageNumber, NEW l \in PageNumber, f <= l
    PROVE  /\ PageBlock(f, l) \in Block
           /\ PageBlock(f, l).first = f /\ PageBlock(f, l).last = l
BY DEF PageBlock, Block

\* The pages of some blocks are pages.
LEMMA PagesOfBlocks ==
    ASSUME NEW S \in SUBSET Block
    PROVE  /\ PagesOf(S) \subseteq PageNumber
           /\ \A p : p \in PagesOf(S) <=> \E b \in S : p \in Pages(b)
BY BlockFacts DEF PagesOf

\* Blocks that are consolidated cover the same pages, and share none.
LEMMA ConsolidatedBlocks ==
    ASSUME NEW P \in SUBSET PageNumber
    PROVE  /\ Consolidated(P) \subseteq Block
           /\ PagesOf(Consolidated(P)) = P
           /\ \A a, b \in Consolidated(P) : Pages(a) \cap Pages(b) # {} => a = b
<1>1. Consolidated(P) \subseteq Block
  BY DEF Consolidated
<1>2. \A b \in Consolidated(P) :
          /\ b \in Block /\ Pages(b) \subseteq P
          /\ b.first - 1 \notin P /\ b.last + 1 \notin P
  BY DEF Consolidated
<1>3. ASSUME NEW p \in P
      PROVE  \E b \in Consolidated(P) : p \in Pages(b)
  <2> DEFINE below == {n \in Nat : p - n \notin P}
             above == {n \in Nat : p + n \notin P}
  <2>1. p \in Nat /\ 1 <= p /\ p <= MaxPage
    BY PageFacts
  <2>2. p \in below /\ MaxPage + 1 - p \in above /\ 0 \notin below /\ 0 \notin above
    BY <2>1, PageFacts
  <2>3. below \in SUBSET Nat /\ below # {} /\ above \in SUBSET Nat /\ above # {}
    BY <2>2
  <2>4. PICK m \in below : \A n \in below : m <= n
    <3> HIDE DEF below
    <3> QED
      BY <2>3, LeastNumber
  <2>5. PICK k \in above : \A n \in above : k <= n
    <3> HIDE DEF above
    <3> QED
      BY <2>3, LeastNumber
  <2>6. m \in Nat /\ m >= 1 /\ p - m \notin P /\ k \in Nat /\ k >= 1 /\ p + k \notin P
    BY <2>2, <2>4, <2>5
  <2>7. ASSUME NEW q \in Int, p - m < q, q < p + k
        PROVE  q \in P
    <3>1. CASE q <= p
      <4>1. p - q \in Nat /\ p - q < m /\ p - (p - q) = q
        BY <2>1, <2>6, <2>7, <3>1
      <4>2. p - q \notin below
        BY <4>1, <2>4, <2>6
      <4> QED
        BY <4>1, <4>2
    <3>2. CASE q > p
      <4>1. q - p \in Nat /\ q - p < k /\ p + (q - p) = q
        BY <2>1, <2>6, <2>7, <3>2
      <4>2. q - p \notin above
        BY <4>1, <2>5, <2>6
      <4> QED
        BY <4>1, <4>2
    <3> QED
      BY <2>1, <2>7, <3>1, <3>2
  <2> HIDE DEF below, above
  <2> DEFINE f == p - m + 1
             l == p + k - 1
  <2>8. f \in P /\ l \in P /\ f <= p /\ p <= l /\ f \in Int /\ l \in Int
    BY <2>1, <2>6, <2>7
  <2>9. PageBlock(f, l) \in Block /\ PageBlock(f, l).first = f /\ PageBlock(f, l).last = l
    <3>1. f \in PageNumber /\ l \in PageNumber /\ f <= l
      BY <2>1, <2>8
    <3> HIDE DEF f, l
    <3> QED
      BY <3>1, MadeBlock
  <2>10. f - 1 \notin P /\ l + 1 \notin P /\ f..l \subseteq P
    <3>1. f - 1 = p - m /\ l + 1 = p + k
      BY <2>1, <2>6
    <3>2. \A q \in f..l : q \in Int /\ p - m < q /\ q < p + k
      BY <2>1, <2>6
    <3> QED
      BY <3>1, <3>2, <2>6, <2>7
  <2>11. Pages(PageBlock(f, l)) = f..l
    BY <2>9 DEF Pages
  <2>12. PageBlock(f, l) \in Consolidated(P)
    <3> HIDE DEF f, l
    <3> QED
      BY <2>9, <2>10, <2>11 DEF Consolidated
  <2>13. p \in f..l
    BY <2>1, <2>8
  <2> HIDE DEF f, l
  <2> QED
    BY <2>11, <2>12, <2>13
<1>4. ASSUME NEW a \in Consolidated(P), NEW b \in Consolidated(P), NEW x \in Pages(a) \cap Pages(b)
      PROVE  a.first >= b.first /\ a.last <= b.last
  <2>0. a \in Block /\ b \in Block
    BY <1>2
  <2>1. /\ Pages(a) = a.first..a.last /\ Pages(b) = b.first..b.last
        /\ a.first \in Int /\ a.last \in Int /\ b.first \in Int /\ b.last \in Int
    BY <2>0, BlockFacts
  <2>2. x \in Int /\ a.first <= x /\ x <= a.last /\ b.first <= x /\ x <= b.last
    BY <2>1
  <2>4. a.first >= b.first
    <3>1. a.first < b.first => b.first - 1 \in Pages(a)
      BY <2>1, <2>2
    <3> QED
      BY <2>1, <3>1, <1>2
  <2>5. a.last <= b.last
    <3>1. b.last < a.last => b.last + 1 \in Pages(a)
      BY <2>1, <2>2
    <3> QED
      BY <2>1, <3>1, <1>2
  <2> QED
    BY <2>4, <2>5
<1>5. ASSUME NEW a \in Consolidated(P), NEW b \in Consolidated(P), Pages(a) \cap Pages(b) # {}
      PROVE  a = b
  <2>1. PICK x : x \in Pages(a) \cap Pages(b)
    BY <1>5
  <2>2. a.first = b.first /\ a.last = b.last
    <3>0. a \in Block /\ b \in Block
      BY <1>2
    <3>1. /\ a.first \in Int /\ a.last \in Int /\ b.first \in Int /\ b.last \in Int
      BY <3>0, BlockFacts
    <3>2. a.first >= b.first /\ a.last <= b.last
      BY <2>1, <1>4
    <3>3. b.first >= a.first /\ b.last <= a.last
      BY <2>1, <1>4
    <3> QED
      BY <3>1, <3>2, <3>3
  <2> QED
    BY <1>2, <2>2, BlockIsItsEnds
<1> QED
  BY <1>1, <1>2, <1>3, <1>5 DEF PagesOf

\* Among some blocks there is a first one, by size and then by page.
LEMMA FirstFound ==
    ASSUME NEW S \in SUBSET Block, S # {}
    PROVE  FirstOf(S) \in S
<1> DEFINE rooms == {MaxPage - CountPages(b) : b \in S}
<1>1. rooms \in SUBSET Nat /\ rooms # {}
  BY BlockFacts, PageFacts
<1>2. PICK n \in rooms : \A m \in rooms : n <= m
  <2> HIDE DEF rooms
  <2> QED
    BY <1>1, LeastNumber
<1>3. PICK c \in S : n = MaxPage - CountPages(c)
  OBVIOUS
<1>4. \A b \in S : CountPages(b) <= CountPages(c)
  <2> TAKE b \in S
  <2>1. MaxPage - CountPages(c) <= MaxPage - CountPages(b)
    BY <1>2, <1>3
  <2>2. CountPages(b) \in Nat /\ CountPages(c) \in Nat
    BY BlockFacts
  <2> QED
    BY <2>1, <2>2, PageFacts
<1> DEFINE firsts == {b.first : b \in {x \in S : CountPages(x) = CountPages(c)}}
<1>5. firsts \in SUBSET Nat /\ firsts # {}
  BY BlockFacts
<1>6. PICK k \in firsts : \A m \in firsts : k <= m
  <2> HIDE DEF firsts
  <2> QED
    BY <1>5, LeastNumber
<1>7. PICK a \in S : CountPages(a) = CountPages(c) /\ k = a.first
  OBVIOUS
<1>8. \A b \in S : Precedes(a, b)
  <2> TAKE b \in S
  <2>1. CountPages(b) \in Nat /\ CountPages(c) \in Nat /\ CountPages(b) <= CountPages(c)
    BY <1>4, BlockFacts
  <2>2. CountPages(b) = CountPages(c) => a.first <= b.first
    BY <1>6, <1>7
  <2> QED
    BY <1>7, <2>1, <2>2 DEF Precedes
<1> QED
  BY <1>8 DEF FirstOf

-----------------------------------------------------------------------------
(* Space.                                                                  *)

\* The pages behind one.
LEMMA BeyondFacts ==
    ASSUME NEW n \in Nat
    PROVE  \A p : p \in Beyond(n) <=> p \in Nat /\ p >= n
BY DEF Beyond

\* Where a page of a sound space is.
LEMMA InSpace ==
    ASSUME NEW s, s.next \in Nat
    PROVE  \A p : p \in SpacePages(s) <=>
               \/ p \in PagesOf(s.free)
               \/ p \in UNION s.recent
               \/ p \in Nat /\ p >= s.next
<1>1. \A p : p \in SpacePages(s) <=>
          p \in PagesOf(s.free) \/ p \in UNION s.recent \/ p \in Beyond(s.next)
  BY DEF SpacePages
<1>2. \A p : p \in Beyond(s.next) <=> p \in Nat /\ p >= s.next
  BY BeyondFacts
<1> QED
  BY <1>1, <1>2, Zenon

\* What a sound space has.
LEMMA SpaceFacts ==
    ASSUME NEW s, SoundSpace(s)
    PROVE  /\ s.free \in SUBSET Block /\ s.recent \in SUBSET SUBSET PageNumber
           /\ s.next \in Nat /\ 1 <= s.next /\ s.next <= MaxPage + 1
           /\ PagesOf(s.free) \subseteq PageNumber /\ UNION s.recent \subseteq PageNumber
           /\ SpacePages(s) \subseteq Nat \ {0}
           /\ \A p \in Nat : p >= s.next => p \in SpacePages(s)
<1>1. s.free \in SUBSET Block /\ s.recent \in SUBSET SUBSET PageNumber /\ s.next \in 1..MaxPage + 1
  BY DEF SoundSpace
<1>2. PagesOf(s.free) \subseteq PageNumber
  BY <1>1, PagesOfBlocks
<1>3. UNION s.recent \subseteq PageNumber
  BY <1>1
<1> QED
  BY <1>1, <1>2, <1>3, PageFacts, InSpace

\* Sorting and consolidating the lists moves no page in or out.
LEMMA OrganizedSpace ==
    ASSUME NEW s, SoundSpace(s)
    PROVE  SoundSpace(Organized(s)) /\ SpacePages(Organized(s)) = SpacePages(s)
<1> DEFINE P == PagesOf(s.free) \cup UNION s.recent
           blocks == Consolidated(P)
           atEnd == {b \in blocks : b.last = s.next - 1}
           t == Organized(s)
<1>1. P \in SUBSET PageNumber /\ \A p \in P : p < s.next
  BY SpaceFacts DEF SoundSpace
<1>2. /\ blocks \subseteq Block /\ PagesOf(blocks) = P
      /\ \A a, b \in blocks : Pages(a) \cap Pages(b) # {} => a = b
  <2> HIDE DEF P
  <2> QED
    BY <1>1, ConsolidatedBlocks
<1>3. s.next \in Nat /\ 1 <= s.next /\ s.next <= MaxPage + 1
  BY SpaceFacts
<1>4. t = [free |-> blocks \ atEnd, recent |-> {},
           next |-> IF atEnd = {} THEN s.next ELSE FirstOf(atEnd).first]
  BY DEF Organized
<1>5. SpacePages(s) = P \cup Beyond(s.next)
  BY DEF SpacePages
<1>6. \A p : p \in P <=> \E b \in blocks : p \in Pages(b)
  BY <1>2 DEF PagesOf
<1> HIDE DEF P, blocks
<1>7. CASE atEnd = {}
  <2>1. t = [free |-> blocks, recent |-> {}, next |-> s.next]
    BY <1>4, <1>7
  <2> HIDE DEF atEnd, t
  <2>2. t.free = blocks /\ t.recent = {} /\ t.next = s.next
    BY <2>1
  <2>3. SoundSpace(t)
    BY <2>1, <2>2, <1>1, <1>2, <1>3 DEF SoundSpace
  <2>4. SpacePages(t) = P \cup Beyond(s.next)
    BY <2>2, <1>2 DEF SpacePages
  <2> QED
    BY <2>3, <2>4, <1>5 DEF t
<1>8. CASE atEnd # {}
  <2>1. PICK e \in atEnd : TRUE
    BY <1>8
  <2>2. e \in blocks /\ e \in Block /\ e.last = s.next - 1
    BY <2>1, <1>2
  <2>3. /\ e.first \in Nat \ {0} /\ e.first <= e.last /\ e.last \in Nat
        /\ Pages(e) = e.first..e.last
    BY <2>2, BlockFacts
  <2>4. atEnd = {e}
    <3> SUFFICES ASSUME NEW b \in atEnd PROVE b = e
      BY <2>1
    <3>1. b \in blocks /\ b \in Block /\ b.last = e.last
      BY <2>2, <1>2
    <3>2. b.last \in Pages(b) /\ e.last \in Pages(e)
      BY <3>1, <2>2, BlockFacts
    <3> QED
      BY <3>1, <3>2, <2>2, <1>2
  <2>5. FirstOf(atEnd) = e
    <3>1. atEnd \in SUBSET Block
      BY <2>4, <2>2
    <3>2. FirstOf(atEnd) \in atEnd
      <4> HIDE DEF atEnd
      <4> QED
        BY <3>1, <1>8, FirstFound
    <3> QED
      BY <3>2, <2>4
  <2>6. t = [free |-> blocks \ {e}, recent |-> {}, next |-> e.first]
    BY <1>4, <1>8, <2>4, <2>5
  <2> HIDE DEF atEnd, t
  <2>7. t.free = blocks \ {e} /\ t.recent = {} /\ t.next = e.first
    BY <2>6
  <2>8. \A p : p \in PagesOf(blocks \ {e}) <=> p \in P /\ p \notin Pages(e)
    <3>1. \A p : p \in PagesOf(blocks \ {e}) <=> \E b \in blocks \ {e} : p \in Pages(b)
      BY DEF PagesOf
    <3>2. \A b \in blocks \ {e} : Pages(b) \cap Pages(e) = {}
      BY <1>2, <2>2
    <3> QED
      BY <3>1, <3>2, <1>6, <2>2
  <2>9. \A p \in PagesOf(blocks \ {e}) : p < e.first
    <3> TAKE p \in PagesOf(blocks \ {e})
    <3>0. p \in P /\ p \notin Pages(e)
      BY <2>8
    <3>1. p \in Nat
      BY <3>0, <1>1, PageFacts
    <3>2. p < s.next
      BY <3>0, <1>1
    <3> QED
      BY <3>0, <3>1, <3>2, <2>2, <2>3, <1>3
  <2>10. e.first \in 1..MaxPage + 1
    BY <2>2, <2>3, <1>3, PageFacts
  <2>11. SoundSpace(t)
    <3>1. blocks \ {e} \in SUBSET Block
      BY <1>2
    <3>2. t \in [free : SUBSET Block, recent : SUBSET SUBSET PageNumber, next : 1..MaxPage + 1]
      BY <2>6, <3>1, <2>10
    <3>3. \A a, b \in t.free : Pages(a) \cap Pages(b) # {} => a = b
      BY <2>7, <1>2
    <3> QED
      BY <3>2, <3>3, <2>7, <2>9 DEF SoundSpace
  <2>12. \A p : p \in SpacePages(t) <=> p \in P \/ (p \in Nat /\ p >= s.next)
    <3>1. \A p : p \in SpacePages(t) <=> p \in PagesOf(blocks \ {e}) \/ (p \in Nat /\ p >= e.first)
      BY <2>3, <2>7, InSpace
    <3>2. \A p \in Pages(e) : p \in P
      BY <1>6, <2>2
    <3>3. \A p : p \in Pages(e) <=> p \in Nat /\ e.first <= p /\ p < s.next
      BY <2>2, <2>3, <1>3
    <3>4. \A p \in P : p \in Nat /\ p < s.next
      BY <1>1, PageFacts
    <3>5. e.first <= s.next
      BY <2>2, <2>3, <1>3
    <3> QED
      <4>1. \A p \in Nat : p >= e.first <=> p \in Pages(e) \/ p >= s.next
        BY <3>3, <3>5, <2>3, <1>3
      <4>2. \A p \in P : ~(p >= s.next)
        BY <3>4, <1>3
      <4> QED
        BY <3>1, <3>2, <3>3, <2>8, <4>1, <4>2
  <2>13. \A p : p \in SpacePages(s) <=> p \in P \/ (p \in Nat /\ p >= s.next)
    BY <1>3, <1>5, BeyondFacts
  <2> QED
    BY <2>11, <2>12, <2>13 DEF t
<1> QED
  BY <1>7, <1>8

\* Adding pages to the lists.
LEMMA SpaceWithRecent ==
    ASSUME NEW s, SoundSpace(s), NEW P \in SUBSET PageNumber, P \cap SpacePages(s) = {},
           NEW t, t = [s EXCEPT !.recent = @ \cup {P}]
    PROVE  SoundSpace(t) /\ SpacePages(t) = SpacePages(s) \cup P
<1>1. /\ s.free \in SUBSET Block /\ s.recent \in SUBSET SUBSET PageNumber
      /\ s.next \in Nat /\ 1 <= s.next /\ s.next <= MaxPage + 1
      /\ \A p \in Nat : p >= s.next => p \in SpacePages(s)
  BY SpaceFacts
<1>2. t.free = s.free /\ t.next = s.next /\ t.recent = s.recent \cup {P}
  BY DEF SoundSpace
<1>3. \A p \in P : p \in Nat /\ p < s.next /\ p \notin PagesOf(s.free) /\ p \notin UNION s.recent
  BY <1>1, PageFacts, InSpace
<1>4. UNION t.recent = (UNION s.recent) \cup P
  <2> DEFINE R == s.recent
  <2>1. UNION (R \cup {P}) = (UNION R) \cup P
    BY Zenon
  <2> QED
    BY <1>2, <2>1
<1>5. t \in [free : SUBSET Block, recent : SUBSET SUBSET PageNumber, next : 1..MaxPage + 1]
  BY DEF SoundSpace
<1>6. \A Q, R \in t.recent : Q \cap R # {} => Q = R
  <2>1. \A Q \in s.recent : Q \cap P = {}
    BY <1>3
  <2>2. \A Q, R \in s.recent : Q \cap R # {} => Q = R
    BY DEF SoundSpace
  <2> QED
    BY <2>1, <2>2, <1>2
<1>7. SoundSpace(t)
  <2>1. \A a, b \in t.free : Pages(a) \cap Pages(b) # {} => a = b
    BY <1>2 DEF SoundSpace
  <2>2. PagesOf(t.free) \cap UNION t.recent = {}
    BY <1>2, <1>3, <1>4 DEF SoundSpace
  <2>3. \A p \in PagesOf(t.free) \cup UNION t.recent : p < t.next
    BY <1>2, <1>3, <1>4 DEF SoundSpace
  <2> QED
    BY <1>5, <1>6, <2>1, <2>2, <2>3 DEF SoundSpace
<1>8. \A p : p \in SpacePages(t) <=> p \in SpacePages(s) \/ p \in P
  <2>7. t.next \in Nat
    BY <1>1, <1>2
  <2>8. \A p : p \in SpacePages(t) <=>
            \/ p \in PagesOf(t.free) \/ p \in UNION t.recent
            \/ p \in Nat /\ p >= t.next
    BY <2>7, InSpace
  <2>9. \A p : p \in SpacePages(s) <=>
            \/ p \in PagesOf(s.free) \/ p \in UNION s.recent
            \/ p \in Nat /\ p >= s.next
    BY <1>1, InSpace
  <2>1. \A p : p \in UNION t.recent <=> p \in UNION s.recent \/ p \in P
    BY <1>4
  <2> QED
    BY <2>1, <2>8, <2>9, <1>2
<1> QED
  BY <1>7, <1>8

\* Pages that are given back are in the space again, and nothing else changes.
LEMMA WithFreeSpace ==
    ASSUME NEW s, SoundSpace(s), NEW P \in SUBSET PageNumber, P \cap SpacePages(s) = {}
    PROVE  SoundSpace(WithFree(s, P)) /\ SpacePages(WithFree(s, P)) = SpacePages(s) \cup P
<1> DEFINE t == [s EXCEPT !.recent = @ \cup {P}]
<1>1. SoundSpace(t) /\ SpacePages(t) = SpacePages(s) \cup P
  BY SpaceWithRecent
<1>2. WithFree(s, P) = t \/ WithFree(s, P) = Organized(t)
  BY DEF WithFree
<1> HIDE DEF t
<1> QED
  BY <1>1, <1>2, OrganizedSpace

\* A block from the end of the file.
LEMMA TakenAtEnd ==
    ASSUME NEW s, SoundSpace(s), NEW n \in Nat \ {0}, s.next + n <= MaxPage + 1,
           NEW t, t = [s EXCEPT !.next = @ + n],
           NEW b, b = PageBlock(s.next, s.next + n - 1)
    PROVE  /\ b \in Block /\ b.first = s.next /\ CountPages(b) = n
           /\ Pages(b) \subseteq SpacePages(s)
           /\ SoundSpace(t) /\ SpacePages(t) = SpacePages(s) \ Pages(b)
<1>1. /\ s.next \in Nat /\ 1 <= s.next
      /\ SpacePages(s) \subseteq Nat \ {0}
  BY SpaceFacts
<1>2. s.next \in PageNumber /\ s.next + n - 1 \in PageNumber /\ s.next <= s.next + n - 1
  BY <1>1, PageFacts
<1>3. b \in Block /\ b.first = s.next /\ b.last = s.next + n - 1
  BY <1>2, MadeBlock
<1>4. Pages(b) = s.next..s.next + n - 1 /\ CountPages(b) = n
  BY <1>1, <1>3 DEF Pages, CountPages
<1>5. t.free = s.free /\ t.recent = s.recent /\ t.next = s.next + n
  BY DEF SoundSpace
<1>6. t \in [free : SUBSET Block, recent : SUBSET SUBSET PageNumber, next : 1..MaxPage + 1]
  BY <1>1 DEF SoundSpace
<1>7. \A p \in PagesOf(s.free) \cup UNION s.recent : p \in Nat /\ p < s.next
  <2>1. PagesOf(s.free) \cup UNION s.recent \subseteq PageNumber
    BY SpaceFacts
  <2>2. \A p \in PagesOf(s.free) \cup UNION s.recent : p < s.next
    BY DEF SoundSpace
  <2> QED
    BY <2>1, <2>2, PageFacts
<1>8. SoundSpace(t)
  <2>1. \A p \in PagesOf(t.free) \cup UNION t.recent : p < t.next
    BY <1>1, <1>5, <1>7
  <2> QED
    BY <1>5, <1>6, <2>1 DEF SoundSpace
<1>9. \A p : p \in SpacePages(t) <=> p \in SpacePages(s) /\ p \notin Pages(b)
  <2>7. t.next \in Nat
    BY <1>1, <1>5
  <2>8. \A p : p \in SpacePages(t) <=>
            \/ p \in PagesOf(t.free) \/ p \in UNION t.recent
            \/ p \in Nat /\ p >= t.next
    BY <2>7, InSpace
  <2>9. \A p : p \in SpacePages(s) <=>
            \/ p \in PagesOf(s.free) \/ p \in UNION s.recent
            \/ p \in Nat /\ p >= s.next
    BY <1>1, InSpace
  <2>1. \A p : p \in Pages(b) <=> p \in Nat /\ p >= s.next /\ p < s.next + n
    BY <1>1, <1>4
  <2>2. \A p \in Nat : p >= s.next + n <=> p >= s.next /\ ~(p < s.next + n)
    BY <1>1
  <2>3. \A p : p \in PagesOf(s.free) \/ p \in UNION s.recent => p \notin Pages(b)
    BY <1>7, <2>1, <1>1
  <2> QED
    BY <2>1, <2>2, <2>3, <2>8, <2>9, <1>5
<1>10. Pages(b) \subseteq SpacePages(s)
  BY <1>1, <1>4, InSpace
<1> QED
  BY <1>3, <1>4, <1>8, <1>9, <1>10

\* A free block.
LEMMA TakenFree ==
    ASSUME NEW s, SoundSpace(s), NEW b \in s.free, NEW t, t = [s EXCEPT !.free = @ \ {b}]
    PROVE  /\ b \in Block /\ Pages(b) \subseteq SpacePages(s)
           /\ SoundSpace(t) /\ SpacePages(t) = SpacePages(s) \ Pages(b)
<1>1. s.free \in SUBSET Block /\ s.recent \in SUBSET SUBSET PageNumber /\ s.next \in Nat
  BY SpaceFacts
<1>2. t.free = s.free \ {b} /\ t.recent = s.recent /\ t.next = s.next
  BY DEF SoundSpace
<1>3. t \in [free : SUBSET Block, recent : SUBSET SUBSET PageNumber, next : 1..MaxPage + 1]
  BY DEF SoundSpace
<1>4. \A p : p \in PagesOf(t.free) <=> p \in PagesOf(s.free) /\ p \notin Pages(b)
  <2>1. \A a \in s.free : Pages(a) \cap Pages(b) # {} => a = b
    BY DEF SoundSpace
  <2>2. \A p : p \in PagesOf(t.free) <=> \E a \in s.free \ {b} : p \in Pages(a)
    BY <1>2 DEF PagesOf
  <2>3. \A p : p \in PagesOf(s.free) <=> \E a \in s.free : p \in Pages(a)
    BY DEF PagesOf
  <2> QED
    BY <2>1, <2>2, <2>3
<1>5. b \in Block /\ \A p \in Pages(b) : p \in PagesOf(s.free)
  BY <1>1 DEF PagesOf
<1>6. \A p \in Pages(b) : p \notin UNION s.recent /\ p < s.next /\ p \in Nat
  BY <1>5, BlockFacts, PageFacts DEF SoundSpace
<1>7. SoundSpace(t)
  <2>1. \A x, y \in t.free : Pages(x) \cap Pages(y) # {} => x = y
    BY <1>2 DEF SoundSpace
  <2>2. PagesOf(t.free) \cap UNION t.recent = {}
    BY <1>2, <1>4 DEF SoundSpace
  <2>3. \A p \in PagesOf(t.free) \cup UNION t.recent : p < t.next
    BY <1>2, <1>4 DEF SoundSpace
  <2>4. \A P, Q \in t.recent : P \cap Q # {} => P = Q
    BY <1>2 DEF SoundSpace
  <2> QED
    BY <1>3, <2>1, <2>2, <2>3, <2>4 DEF SoundSpace
<1>8. \A p : p \in SpacePages(t) <=> p \in SpacePages(s) /\ p \notin Pages(b)
  <2>7. t.next \in Nat
    BY <1>1, <1>2
  <2>8. \A p : p \in SpacePages(t) <=>
            \/ p \in PagesOf(t.free) \/ p \in UNION t.recent
            \/ p \in Nat /\ p >= t.next
    BY <2>7, InSpace
  <2>9. \A p : p \in SpacePages(s) <=>
            \/ p \in PagesOf(s.free) \/ p \in UNION s.recent
            \/ p \in Nat /\ p >= s.next
    BY <1>1, InSpace
  <2>1. \A p \in Pages(b) : ~(p >= s.next)
    BY <1>1, <1>6
  <2> QED
    BY <2>1, <2>8, <2>9, <1>2, <1>4, <1>6
<1> QED
  <2>1. Pages(b) \subseteq SpacePages(s)
    BY <1>5 DEF SpacePages
  <2> QED
    BY <1>5, <1>7, <1>8, <2>1

\* Requests that page writers and the header make.
Request(req) ==
    /\ req.size \in Nat /\ req.after \in Nat
    /\ req.kind \in {"exact", "early"} => req.size # 0 /\ req.starts = {}

\* A block of the size that was asked for, or one that begins where the caller
\* wanted it, or behind the page that it had to come after.
Granted(req, b) ==
    /\ b.first \in req.starts \/ b.first > req.after
    /\ req.kind = "minimum" /\ req.size >= 2 => b.first \in req.starts \/ CountPages(b) >= 2
    /\ req.kind = "early" => CountPages(b) = req.size
    /\ req.kind = "exact" /\ req.size = PagesPerBlock => CountPages(b) = req.size

\* A block that is handed out leaves the space, and nothing else does.
Taken(s, b, t) ==
    /\ b \in Block /\ Pages(b) \subseteq SpacePages(s)
    /\ SoundSpace(t) /\ SpacePages(t) = SpacePages(s) \ Pages(b)

\* A block of n pages from the end of the file.
LEMMA GotAtEnd ==
    ASSUME NEW s, SoundSpace(s), NEW req, Request(req),
           NEW n, n = EndSize(s.free, s.next, req), s.next + n <= MaxPage + 1,
           req.after \notin SpacePages(s)
    PROVE  LET b == PageBlock(s.next, s.next + n - 1)
           IN  Taken(s, b, [s EXCEPT !.next = @ + n]) /\ Granted(req, b)
<1> DEFINE b == PageBlock(s.next, s.next + n - 1)
           t == [s EXCEPT !.next = @ + n]
<1>1. s.next \in Nat /\ req.size \in Nat /\ req.after \in Nat
  BY SpaceFacts DEF Request
<1>2. /\ n \in Nat \ {0}
      /\ req.kind = "minimum" /\ req.size >= 2 => n >= 2
      /\ req.kind = "early" => n = req.size
      /\ req.kind = "exact" /\ req.size = PagesPerBlock => n = req.size
  BY <1>1, PageFacts DEF EndSize, Request
<1>3. /\ b \in Block /\ b.first = s.next /\ CountPages(b) = n
      /\ Pages(b) \subseteq SpacePages(s)
      /\ SoundSpace(t) /\ SpacePages(t) = SpacePages(s) \ Pages(b)
  BY <1>2, TakenAtEnd
<1>4. s.next > req.after
  <2>1. req.after >= s.next => req.after \in SpacePages(s)
    BY <1>1, SpaceFacts
  <2> QED
    BY <1>1, <2>1
<1> HIDE DEF b, t
<1>5. Taken(s, b, t)
  BY <1>3 DEF Taken
<1>6. Granted(req, b)
  BY <1>2, <1>3, <1>4 DEF Granted
<1> QED
  BY <1>5, <1>6 DEF b, t

\* The front of a free block.
LEMMA SplitFree ==
    ASSUME NEW s, SoundSpace(s), NEW c \in s.free, NEW n \in Nat \ {0}, n <= CountPages(c),
           NEW t, t = [s EXCEPT !.free = @ \ {c},
                                !.recent = IF Split(c, n).rest = {} THEN @
                                           ELSE @ \cup {Split(c, n).rest}]
    PROVE  Taken(s, Split(c, n).block, t) /\ CountPages(Split(c, n).block) = n
           /\ Split(c, n).block.first = c.first
<1> DEFINE b == Split(c, n).block
           rest == Split(c, n).rest
           u == [s EXCEPT !.free = @ \ {c}]
<1>1. c \in Block
  BY SpaceFacts
<1>2. /\ c.first \in Nat \ {0} /\ c.last \in Nat /\ c.first <= c.last /\ c.last <= MaxPage
      /\ n <= c.last - c.first + 1
      /\ Pages(c) = c.first..c.last /\ Pages(c) \subseteq PageNumber
  BY <1>1, BlockFacts
<1>3. b = PageBlock(c.first, c.first + n - 1) /\ rest = c.first + n..c.last
  BY DEF Split
<1>4. c.first \in PageNumber /\ c.first + n - 1 \in PageNumber /\ c.first <= c.first + n - 1
  BY <1>2, PageFacts
<1> HIDE DEF b, rest
<1>5. b \in Block /\ b.first = c.first /\ b.last = c.first + n - 1
  BY <1>3, <1>4, MadeBlock
<1>6. Pages(b) = c.first..c.first + n - 1 /\ CountPages(b) = n
  BY <1>2, <1>5 DEF Pages, CountPages
<1>7. /\ SoundSpace(u) /\ SpacePages(u) = SpacePages(s) \ Pages(c)
      /\ Pages(c) \subseteq SpacePages(s)
  BY TakenFree
<1>8. rest \in SUBSET PageNumber /\ rest \cap SpacePages(u) = {}
      /\ Pages(c) = Pages(b) \cup rest /\ Pages(b) \cap rest = {}
  <2>1. \A p : p \in rest <=> p \in Pages(c) /\ p \notin Pages(b)
    BY <1>2, <1>3, <1>6
  <2>2. \A p \in Pages(b) : p \in Pages(c)
    BY <1>2, <1>6
  <2> QED
    BY <2>1, <2>2, <1>2, <1>7
<1>9. CASE rest = {}
  <2>1. t = u
    BY <1>9 DEF rest, SoundSpace
  <2> QED
    BY <2>1, <1>5, <1>6, <1>7, <1>8, <1>9 DEF Taken, b
<1>10. CASE rest # {}
  <2>1. t = [u EXCEPT !.recent = @ \cup {rest}]
    BY <1>10 DEF rest, SoundSpace
  <2> HIDE DEF u
  <2>2. SoundSpace(t) /\ SpacePages(t) = SpacePages(u) \cup rest
    BY <2>1, <1>7, <1>8, SpaceWithRecent
  <2> QED
    BY <2>2, <1>5, <1>6, <1>7, <1>8 DEF Taken, b
<1> QED
  BY <1>9, <1>10

\* A block that get_block hands out is taken from the space, whole or in part, and
\* is what was asked for.
LEMMA GotBlock ==
    ASSUME NEW s0, SoundSpace(s0), NEW req, Request(req),
           NEW got, got = GetBlock(s0, req),
           got.space.next <= MaxPage + 1,
           req.after \notin SpacePages(s0)
    PROVE  Taken(s0, got.block, got.space) /\ Granted(req, got.block)
<1> DEFINE s == IF s0.free = {} /\ s0.recent # {} THEN Organized(s0) ELSE s0
           candidates == Candidates(s.free, req)
           fromEnd == s.free = {} \/ s.next \in req.starts \/ candidates = {}
           n == EndSize(s.free, s.next, req)
           chosen == FirstOf(candidates)
           split == Split(chosen, req.size)
           atEnd == [s EXCEPT !.next = @ + n]
           front == [s EXCEPT !.free = @ \ {chosen},
                              !.recent = IF split.rest = {} THEN @ ELSE @ \cup {split.rest}]
           whole == [s EXCEPT !.free = @ \ {chosen}]
<1>1. SoundSpace(s) /\ SpacePages(s) = SpacePages(s0)
  BY OrganizedSpace
<1>2. got = IF fromEnd
            THEN [block |-> PageBlock(s.next, s.next + n - 1), space |-> atEnd]
            ELSE IF req.kind \in {"exact", "early"}
            THEN [block |-> split.block, space |-> front]
            ELSE [block |-> chosen, space |-> whole]
  BY DEF GetBlock
<1> HIDE DEF s
<1>3. s.free \in SUBSET Block /\ s.next \in Nat
  BY <1>1, SpaceFacts
<1>4. SUFFICES Taken(s, got.block, got.space) /\ Granted(req, got.block)
  BY <1>1 DEF Taken
<1>5. CASE fromEnd
  <2>1. got.block = PageBlock(s.next, s.next + n - 1) /\ got.space = atEnd
    BY <1>2, <1>5
  <2>2. s.next + n <= MaxPage + 1
    BY <2>1, <1>1 DEF SoundSpace
  <2> HIDE DEF n
  <2>3. n = EndSize(s.free, s.next, req)
    BY DEF n
  <2> QED
    BY <2>1, <2>2, <2>3, <1>1, GotAtEnd
<1>6. CASE ~fromEnd
  <2>1. candidates # {} /\ candidates \in SUBSET s.free
    BY <1>6 DEF Candidates
  <2>2. chosen \in candidates
    <3> HIDE DEF candidates
    <3> QED
      BY <2>1, <1>3, FirstFound
  <2>3. chosen \in s.free /\ chosen \in Block
    BY <2>1, <2>2, <1>3
  <2>4. \/ chosen.first \in req.starts
        \/ CountPages(chosen) >= req.size /\ chosen.first > req.after
    BY <2>2 DEF Candidates
  <2> HIDE DEF candidates, fromEnd, chosen, n
  <2>5. CountPages(chosen) \in Nat /\ req.size \in Nat
    BY <2>3, BlockFacts DEF Request
  <2>6. CASE req.kind \in {"exact", "early"}
    <3>1. got.block = split.block /\ got.space = front
      BY <1>2, <1>6, <2>6
    <3>2. req.size # 0 /\ req.size <= CountPages(chosen) /\ chosen.first > req.after
      BY <2>4, <2>5, <2>6 DEF Request
    <3>3. /\ Taken(s, split.block, front) /\ CountPages(split.block) = req.size
          /\ split.block.first = chosen.first
      BY <3>2, <2>3, <2>5, <1>1, SplitFree
    <3> HIDE DEF split, front
    <3>4. Granted(req, split.block)
      BY <2>6, <3>2, <3>3 DEF Granted
    <3> QED
      BY <3>1, <3>3, <3>4
  <2>7. CASE req.kind \notin {"exact", "early"}
    <3>1. got.block = chosen /\ got.space = whole
      BY <1>2, <1>6, <2>7
    <3>2. Taken(s, chosen, whole)
      BY <2>3, <1>1, TakenFree DEF Taken
    <3>3. chosen.first \in req.starts \/ (CountPages(chosen) >= req.size /\ chosen.first > req.after)
      BY <2>4
    <3>4. Granted(req, chosen)
      BY <2>5, <2>7, <3>3 DEF Granted
    <3> QED
      BY <3>1, <3>2, <3>4
  <2> QED
    BY <2>6, <2>7
<1> QED
  BY <1>5, <1>6

-----------------------------------------------------------------------------
(* Inventories.                                                            *)

\* The pages of no block, one block and two.
LEMMA PagesOfFew ==
    /\ SeqPages(<<>>) = {}
    /\ \A a : SeqPages(<<a>>) = Pages(a)
    /\ \A a, b : SeqPages(<<a, b>>) = Pages(a) \cup Pages(b)
    /\ SetOf(<<>>) = {} /\ \A a : SetOf(<<a>>) = {a}
<1>1. SetOf(<<>>) = {} /\ \A a : SetOf(<<a>>) = {a}
  BY DEF SetOf
<1>2. \A a, b : SetOf(<<a, b>>) = {a, b}
  BY DEF SetOf
<1> QED
  BY <1>1, <1>2 DEF SeqPages, PagesOf

\* A block behind others.
LEMMA AppendedBlock ==
    ASSUME NEW q \in Seq(Block), NEW e \in Block
    PROVE  /\ Append(q, e) \in Seq(Block)
           /\ Len(Append(q, e)) = Len(q) + 1
           /\ \A i \in 1..Len(q) : Append(q, e)[i] = q[i]
           /\ Append(q, e)[Len(q) + 1] = e
<1> DEFINE S == Block
<1>1. q \in Seq(S) /\ e \in S
  OBVIOUS
<1> HIDE DEF S
<1>2. /\ Append(q, e) \in Seq(S)
      /\ Len(q) \in Nat /\ Len(Append(q, e)) = Len(q) + 1
      /\ \A i \in 1..Len(q) : Append(q, e)[i] = q[i]
      /\ Append(q, e)[Len(q) + 1] = e
  BY <1>1, AppendProperties, LenProperties
<1> QED
  BY <1>2 DEF S

\* A block behind a block.
LEMMA AppendedToOne ==
    ASSUME NEW a \in Block, NEW b \in Block
    PROVE  Append(<<a>>, b) = <<a, b>>
<1>1. <<a>> \in Seq(Block) /\ Len(<<a>>) = 1 /\ <<a>>[1] = a
  OBVIOUS
<1>2. <<a, b>> \in Seq(Block) /\ Len(<<a, b>>) = 2 /\ <<a, b>>[1] = a /\ <<a, b>>[2] = b
  OBVIOUS
<1> DEFINE one == <<a>>
           two == <<a, b>>
           s == Append(one, b)
<1>3. one \in Seq(Block) /\ Len(one) = 1 /\ one[1] = a
  BY <1>1
<1>4. two \in Seq(Block) /\ Len(two) = 2 /\ two[1] = a /\ two[2] = b
  BY <1>2
<1> HIDE DEF one, two
<1>5. /\ s \in Seq(Block) /\ Len(s) = Len(one) + 1
      /\ \A i \in 1..Len(one) : s[i] = one[i]
      /\ s[Len(one) + 1] = b
  BY <1>3, AppendedBlock
<1> HIDE DEF s
<1>6. Len(s) = 2 /\ s[1] = a /\ s[2] = b
  BY <1>3, <1>5
<1>7. s = two
  <2>1. \A i \in 1..Len(s) : s[i] = two[i]
    BY <1>4, <1>6
  <2> QED
    BY <1>4, <1>5, <1>6, <2>1, SeqEqual
<1> QED
  BY <1>7 DEF s, one, two

\* Blocks of which there are no more than one.
LEMMA FewBlocks ==
    ASSUME NEW blocks \in Seq(Block), Len(blocks) <= 1
    PROVE  \/ blocks = <<>>
           \/ blocks # <<>> /\ blocks = <<blocks[1]>> /\ blocks[1] \in Block
<1>1. Len(blocks) \in Nat
  OBVIOUS
<1>2. CASE Len(blocks) = 0
  BY <1>2
<1>3. CASE Len(blocks) = 1
  BY <1>3
<1>4. Len(blocks) = 0 \/ Len(blocks) = 1
  <2> DEFINE n == Len(blocks)
  <2>1. n \in Nat /\ n <= 1
    BY <1>1
  <2> HIDE DEF n
  <2>2. n = 0 \/ n = 1
    BY <2>1
  <2> QED
    BY <2>2 DEF n
<1> QED
  BY <1>2, <1>3, <1>4

\* The first page of an inventory of one block, and what is left of it.
LEMMA RestOfOne ==
    ASSUME NEW b \in Block
    PROVE  /\ Rest(<<b>>) \in Seq(Block) /\ Len(Rest(<<b>>)) <= 1
           /\ CountPages(b) = 1 => Rest(<<b>>) = <<>>
           /\ CountPages(b) > 1 =>
                  /\ Rest(<<b>>) = <<PageBlock(b.first + 1, b.last)>>
                  /\ PageBlock(b.first + 1, b.last) \in Block
                  /\ PageBlock(b.first + 1, b.last).first = b.first + 1
                  /\ PageBlock(b.first + 1, b.last).last = b.last
                  /\ CountPages(PageBlock(b.first + 1, b.last)) = CountPages(b) - 1
           /\ SeqPages(Rest(<<b>>)) = Pages(b) \ {b.first}
<1> DEFINE c == PageBlock(b.first + 1, b.last)
<1>1. /\ b.first \in Nat \ {0} /\ b.last \in Nat /\ b.last <= MaxPage
      /\ b.first <= b.last /\ Pages(b) = b.first..b.last
      /\ CountPages(b) = b.last - b.first + 1
  BY BlockFacts
<1>2. CASE CountPages(b) = 1
  <2>1. Rest(<<b>>) = <<>>
    BY <1>2 DEF Rest
  <2>2. Pages(b) = {b.first}
    BY <1>1, <1>2
  <2> QED
    BY <1>2, <2>1, <2>2, PagesOfFew
<1>3. CASE CountPages(b) # 1
  <2>1. b.first + 1 \in PageNumber /\ b.last \in PageNumber /\ b.first + 1 <= b.last
    BY <1>1, <1>3, PageFacts
  <2>2. c \in Block /\ c.first = b.first + 1 /\ c.last = b.last
    BY <2>1, MadeBlock
  <2>3. [b EXCEPT !.first = @ + 1] = c
    BY DEF Block, PageBlock
  <2>4. Rest(<<b>>) = <<c>>
    <3>1. Rest(<<b>>) = [<<b>> EXCEPT ![1].first = @ + 1]
      BY <1>3 DEF Rest
    <3>2. [<<b>> EXCEPT ![1].first = @ + 1] = <<[b EXCEPT !.first = @ + 1]>>
      OBVIOUS
    <3> QED
      BY <2>3, <3>1, <3>2
  <2> HIDE DEF c
  <2>5. Pages(c) = Pages(b) \ {b.first}
    BY <1>1, <2>2 DEF Pages
  <2>6. CountPages(c) = CountPages(b) - 1
    BY <1>1, <2>2 DEF CountPages
  <2>7. <<c>> \in Seq(Block) /\ Len(<<c>>) = 1
    BY <2>2
  <2> QED
    BY <1>3, <2>2, <2>4, <2>5, <2>6, <2>7, PagesOfFew DEF c
<1> QED
  BY <1>2, <1>3

\* What is left of two blocks when the first has one page.
LEMMA RestOfTwo ==
    ASSUME NEW a \in Block, NEW b \in Block, CountPages(a) = 1
    PROVE  Rest(<<a, b>>) = <<b>>
BY DEF Rest

\* A writer that needs a page has one: it comes out of its inventory or the space,
\* and what is left of both is apart.
StockedFor(blocks, st) ==
    LET pg == st.blocks[1].first
        rest == Rest(st.blocks)
    IN  /\ pg \in PageNumber
        /\ rest \in Seq(Block) /\ Len(rest) <= 1
        /\ SoundSpace(st.space)
        /\ pg \in SeqPages(blocks) \cup SpacePages(space)
        /\ pg \notin SeqPages(rest) \cup SpacePages(st.space)
        /\ SeqPages(rest) \cap SpacePages(st.space) = {}
        /\ \A p : p \in SeqPages(rest) \cup SpacePages(st.space) \cup {pg}
                  <=> p \in SeqPages(blocks) \cup SpacePages(space)

\* What the pages in st.blocks are: the inventory's as long as it has two, otherwise
\* those of a new block, behind or joined to the one page that was left.
LEMMA StockedCases ==
    ASSUME SoundSpace(space), NEW blocks \in Seq(Block), Len(blocks) <= 1,
           SeqPages(blocks) \cap SpacePages(space) = {},
           NEW req, Request(req), req.after \notin SpacePages(space),
           NEW st, st = Stocked(blocks, req), st.space.next <= MaxPage + 1
    PROVE  \/ /\ blocks # <<>> /\ blocks[1] \in Block /\ CountPages(blocks[1]) > 1
              /\ st.blocks = <<blocks[1]>> /\ st.space = space
           \/ /\ blocks = <<>>
              /\ \E b \in Block : /\ st.blocks = <<b>>
                                  /\ Taken(space, b, st.space) /\ Granted(req, b)
           \/ /\ blocks # <<>> /\ blocks[1] \in Block /\ CountPages(blocks[1]) = 1
              /\ \E b \in Block :
                    /\ Taken(space, b, st.space) /\ Granted(req, b)
                    /\ \/ /\ b.first = blocks[1].last + 1
                          /\ st.blocks = <<PageBlock(blocks[1].first, b.last)>>
                       \/ /\ b.first # blocks[1].last + 1
                          /\ st.blocks = <<blocks[1], b>>
<1> DEFINE got == GetBlock(space, req)
<1>1. CASE blocks # <<>> /\ ~RunsLow(blocks)
  <2>1. blocks = <<blocks[1]>> /\ blocks[1] \in Block
    BY <1>1, FewBlocks
  <2>2. CountPages(blocks[1]) \in Nat \ {0}
    BY <2>1, BlockFacts
  <2>3. Len(blocks) = 1
    BY <2>1
  <2>4. CountPages(blocks[1]) > 1
    BY <1>1, <2>2, <2>3 DEF RunsLow
  <2>5. st = [blocks |-> blocks, space |-> space]
    BY <1>1 DEF Stocked
  <2> QED
    BY <1>1, <2>1, <2>4, <2>5
<1>2. CASE blocks = <<>> \/ RunsLow(blocks)
  <2>1. st = [blocks |-> Restocked(blocks, got.block), space |-> got.space]
    BY <1>2 DEF Stocked
  <2>2. st.blocks = Restocked(blocks, got.block) /\ st.space = got.space
    BY <2>1
  <2>3. Taken(space, got.block, got.space) /\ Granted(req, got.block)
    <3> HIDE DEF got
    <3>1. got.space.next <= MaxPage + 1
      BY <2>2
    <3>2. got = GetBlock(space, req)
      BY DEF got
    <3> QED
      BY <3>1, <3>2, GotBlock
  <2> HIDE DEF got
  <2>4. got.block \in Block
    BY <2>3 DEF Taken
  <2>5. CASE blocks = <<>>
    <3>1. st.blocks = <<got.block>>
      BY <2>2, <2>5 DEF Restocked
    <3> QED
      BY <2>2, <2>3, <2>4, <2>5, <3>1
  <2>6. CASE blocks # <<>>
    <3>1. blocks = <<blocks[1]>> /\ blocks[1] \in Block
      BY <2>6, FewBlocks
    <3>2. CountPages(blocks[1]) = 1
      BY <1>2, <2>6 DEF RunsLow
    <3>3. CASE got.block.first = blocks[1].last + 1
      <4>1. st.blocks = <<PageBlock(blocks[1].first, got.block.last)>>
        BY <2>2, <2>6, <3>3 DEF Restocked
      <4> QED
        BY <2>2, <2>3, <2>4, <2>6, <3>1, <3>2, <3>3, <4>1
    <3>4. CASE got.block.first # blocks[1].last + 1
      <4>1. st.blocks = Append(blocks, got.block)
        BY <2>2, <2>6, <3>4 DEF Restocked
      <4>2. Append(<<blocks[1]>>, got.block) = <<blocks[1], got.block>>
        BY <2>4, <3>1, AppendedToOne
      <4>3. st.blocks = <<blocks[1], got.block>>
        BY <3>1, <4>1, <4>2
      <4> QED
        BY <2>2, <2>3, <2>4, <2>6, <3>1, <3>2, <3>4, <4>3
    <3> QED
      BY <3>3, <3>4
  <2> QED
    BY <2>5, <2>6
<1> QED
  BY <1>1, <1>2

\* ensure_inventory and ensure_group_inventory take no page from anybody: what they
\* change is apart, and all there is moves between the inventory and the space.
LEMMA StockedPages ==
    ASSUME SoundSpace(space), NEW blocks \in Seq(Block), Len(blocks) <= 1,
           SeqPages(blocks) \cap SpacePages(space) = {},
           NEW req, Request(req), req.after \notin SpacePages(space),
           NEW st, st = Stocked(blocks, req), st.space.next <= MaxPage + 1
    PROVE  StockedFor(blocks, st)
<1>1. CASE /\ blocks # <<>> /\ blocks[1] \in Block /\ CountPages(blocks[1]) > 1
           /\ st.blocks = <<blocks[1]>> /\ st.space = space
  <2> DEFINE a == blocks[1]
  <2>1. a \in Block /\ st.blocks = <<a>> /\ st.blocks[1] = a
    BY <1>1
  <2>2. blocks = <<a>>
    BY <1>1, FewBlocks
  <2> HIDE DEF a
  <2>3. /\ Rest(<<a>>) \in Seq(Block) /\ Len(Rest(<<a>>)) <= 1
        /\ SeqPages(Rest(<<a>>)) = Pages(a) \ {a.first}
    BY <2>1, RestOfOne
  <2>4. a.first \in PageNumber /\ a.first \in Pages(a)
    BY <2>1, BlockFacts
  <2>5. SeqPages(blocks) = Pages(a)
    BY <2>2, PagesOfFew
  <2> QED
    BY <1>1, <2>1, <2>3, <2>4, <2>5 DEF StockedFor
<1>2. ASSUME blocks = <<>>, NEW b \in Block, st.blocks = <<b>>, Taken(space, b, st.space)
      PROVE  StockedFor(blocks, st)
  <2>1. st.blocks[1] = b
    BY <1>2
  <2>2. /\ Rest(<<b>>) \in Seq(Block) /\ Len(Rest(<<b>>)) <= 1
        /\ SeqPages(Rest(<<b>>)) = Pages(b) \ {b.first}
    BY RestOfOne
  <2>3. b.first \in PageNumber /\ b.first \in Pages(b)
    BY BlockFacts
  <2>4. SeqPages(blocks) = {}
    BY <1>2, PagesOfFew
  <2> QED
    BY <1>2, <2>1, <2>2, <2>3, <2>4 DEF StockedFor, Taken
<1>3. ASSUME blocks # <<>>, blocks[1] \in Block, CountPages(blocks[1]) = 1,
             NEW b \in Block, Taken(space, b, st.space), b.first = blocks[1].last + 1,
             st.blocks = <<PageBlock(blocks[1].first, b.last)>>
      PROVE  StockedFor(blocks, st)
  <2> DEFINE a == blocks[1]
             c == PageBlock(a.first, b.last)
  <2>1. blocks = <<a>> /\ a \in Block
    BY <1>3, FewBlocks
  <2>2. st.blocks = <<c>> /\ st.blocks[1] = c
    BY <1>3
  <2>3. CountPages(a) = 1 /\ b.first = a.last + 1
    BY <1>3
  <2> HIDE DEF a
  <2>4. /\ a.first \in Nat /\ a.last \in Nat /\ a.first \in PageNumber
        /\ a.last = a.first /\ Pages(a) = a.first..a.last
    <3>1. /\ a.first \in Nat /\ a.last \in Nat /\ a.first \in PageNumber
          /\ CountPages(a) = a.last - a.first + 1 /\ Pages(a) = a.first..a.last
      BY <2>1, BlockFacts
    <3> QED
      BY <2>3, <3>1
  <2>5. b.first \in Nat /\ b.last \in Nat /\ b.first <= b.last /\ b.last \in PageNumber /\ Pages(b) = b.first..b.last
    BY BlockFacts
  <2>6. a.first <= b.last
    BY <2>3, <2>4, <2>5
  <2>7. c \in Block /\ c.first = a.first /\ c.last = b.last
    BY <2>4, <2>5, <2>6, MadeBlock
  <2> HIDE DEF c
  <2>8. /\ Rest(<<c>>) \in Seq(Block) /\ Len(Rest(<<c>>)) <= 1
        /\ SeqPages(Rest(<<c>>)) = Pages(c) \ {c.first}
    BY <2>7, RestOfOne
  <2>9. Pages(c) \ {c.first} = Pages(b) /\ Pages(a) = {c.first}
    BY <2>3, <2>4, <2>5, <2>7 DEF Pages
  <2>10. SeqPages(blocks) = {c.first}
    BY <2>1, <2>9, PagesOfFew
  <2>11. c.first \in PageNumber
    BY <2>4, <2>7
  <2> QED
    BY <1>3, <2>2, <2>8, <2>9, <2>10, <2>11 DEF StockedFor, Taken
<1>4. ASSUME blocks # <<>>, blocks[1] \in Block, CountPages(blocks[1]) = 1,
             NEW b \in Block, Taken(space, b, st.space),
             st.blocks = <<blocks[1], b>>
      PROVE  StockedFor(blocks, st)
  <2> DEFINE a == blocks[1]
  <2>1. blocks = <<a>> /\ a \in Block
    BY <1>4, FewBlocks
  <2>2. st.blocks = <<a, b>> /\ st.blocks[1] = a
    BY <1>4
  <2>3. CountPages(a) = 1
    BY <1>4
  <2> HIDE DEF a
  <2>4. Rest(st.blocks) = <<b>>
    BY <2>1, <2>2, <2>3, RestOfTwo
  <2>5. <<b>> \in Seq(Block) /\ Len(<<b>>) <= 1 /\ SeqPages(<<b>>) = Pages(b)
    BY PagesOfFew
  <2>6. a.first \in PageNumber /\ Pages(a) = {a.first}
    <3>1. /\ a.first \in Nat /\ a.last \in Nat /\ a.first \in PageNumber
          /\ CountPages(a) = a.last - a.first + 1 /\ Pages(a) = a.first..a.last
      BY <2>1, BlockFacts
    <3>2. a.last = a.first
      BY <2>3, <3>1
    <3> QED
      BY <3>1, <3>2
  <2>7. SeqPages(blocks) = {a.first}
    BY <2>1, <2>6, PagesOfFew
  <2> QED
    BY <1>4, <2>2, <2>4, <2>5, <2>6, <2>7 DEF StockedFor, Taken
<1> QED
  BY <1>1, <1>2, <1>3, <1>4, StockedCases

\* The same for a group of known length, whose pages are there from its beginning.
LEMMA StockedKnown ==
    ASSUME SoundSpace(space), NEW blocks \in Seq(Block), Len(blocks) <= 1, blocks # <<>>,
           SeqPages(blocks) \cap SpacePages(space) = {},
           NEW st, st = [blocks |-> blocks, space |-> space]
    PROVE  StockedFor(blocks, st)
<1> DEFINE a == blocks[1]
<1>1. blocks = <<a>> /\ a \in Block
  BY FewBlocks
<1>2. st.blocks = blocks /\ st.space = space
  OBVIOUS
<1> HIDE DEF a
<1>3. /\ Rest(<<a>>) \in Seq(Block) /\ Len(Rest(<<a>>)) <= 1
      /\ SeqPages(Rest(<<a>>)) = Pages(a) \ {a.first}
  BY <1>1, RestOfOne
<1>4. a.first \in PageNumber /\ a.first \in Pages(a)
  BY <1>1, BlockFacts
<1>5. SeqPages(blocks) = Pages(a) /\ st.blocks[1] = a
  BY <1>1, <1>2, PagesOfFew
<1> QED
  BY <1>1, <1>2, <1>3, <1>4, <1>5 DEF StockedFor

-----------------------------------------------------------------------------
(* The blocks of a group.                                                  *)

\* A page extends a block that ends before it or is a block of its own behind the
\* others, and no block begins elsewhere for it.
Extended(group, pg, g) ==
    /\ g \in Seq(Block) /\ g # <<>>
    /\ group = <<>> => Len(g) = 1 /\ g[1].first = pg /\ g[1].last = pg
    /\ group # <<>> => g[1].first = group[1].first
    /\ \A i \in DOMAIN g :
          \/ i \in DOMAIN group /\ g[i].first = group[i].first
          \/ g[i].first = pg
    /\ \A i \in DOMAIN group :
          i \in DOMAIN g /\ (group[i].last + 1 # pg => g[i].last = group[i].last)
    /\ \E i \in DOMAIN g : g[i].last = pg
    /\ Len(group) = 1 /\ group[1].last + 1 = pg => Len(g) = 1 /\ g[1].last = pg

\* add_page_no_reorder adds one page to a group, at the end of a block or as a block
\* of its own.
LEMMA GroupWithPage ==
    ASSUME NEW group \in Seq(Block), NEW pg \in PageNumber
    PROVE  Extended(group, pg, WithPage(group, pg))
<1> DEFINE g == WithPage(group, pg)
<1>0. g = WithPage(group, pg)
  OBVIOUS
<1> HIDE DEF g
<1>5. SUFFICES Extended(group, pg, g)
  BY DEF g
<1> DEFINE ends == {i \in DOMAIN group : group[i].last + 1 = pg}
           k == CHOOSE i \in ends : \A j \in ends : i <= j
           own == PageBlock(pg, pg)
<1>1. /\ DOMAIN group = 1..Len(group) /\ Len(group) \in Nat
      /\ \A i \in DOMAIN group : group[i] \in Block
      /\ group # <<>> => 1 \in DOMAIN group
      /\ group = <<>> => DOMAIN group = {} /\ Len(group) = 0
  BY LenProperties
<1>2. own \in Block /\ own.first = pg /\ own.last = pg
  <2>1. pg <= pg
    BY PageFacts
  <2> QED
    BY <2>1, MadeBlock
<1>3. CASE ends = {}
  <2>1. g = Append(group, own)
    BY <1>0, <1>3 DEF WithPage
  <2> HIDE DEF own
  <2>2. /\ g \in Seq(Block) /\ Len(g) = Len(group) + 1
        /\ \A i \in 1..Len(group) : g[i] = group[i]
        /\ g[Len(group) + 1] = own
    BY <1>2, <2>1, AppendedBlock
  <2>3. DOMAIN g = 1..Len(group) + 1 /\ g # <<>>
    BY <2>2, <1>1
  <2>4. \A i \in DOMAIN g : i \in DOMAIN group \/ i = Len(group) + 1
    BY <1>1, <2>3
  <2>5. \A i \in DOMAIN group : i \in DOMAIN g
    BY <1>1, <2>3
  <2>6. Len(group) + 1 \in DOMAIN g
    BY <1>1, <2>3
  <2>7. ~(Len(group) = 1 /\ group[1].last + 1 = pg)
    BY <1>1, <1>3
  <2> HIDE DEF ends
  <2> QED
    BY <1>1, <1>2, <2>2, <2>3, <2>4, <2>5, <2>6, <2>7 DEF Extended
<1>4. CASE ends # {}
  <2>1. ends \in SUBSET Nat
    BY <1>1
  <2>2. k \in ends
    <3> HIDE DEF ends
    <3>1. \E i \in ends : \A j \in ends : i <= j
      BY <2>1, <1>4, LeastNumber
    <3> QED
      BY <3>1
  <2>3. k \in DOMAIN group /\ group[k].last + 1 = pg
    BY <2>2
  <2>4. g = [group EXCEPT ![k].last = pg]
    BY <1>0, <1>4 DEF WithPage
  <2> HIDE DEF k, ends
  <2> DEFINE b == [group[k] EXCEPT !.last = pg]
  <2>5. g = [group EXCEPT ![k] = b]
    BY <2>4
  <2>6. b \in Block /\ b.first = group[k].first /\ b.last = pg
    <3> DEFINE a == group[k]
    <3>1. a \in Block /\ a.last + 1 = pg
      BY <1>1, <2>3
    <3> HIDE DEF a
    <3>2. [a EXCEPT !.last = pg] = PageBlock(a.first, pg)
      BY <3>1 DEF Block, PageBlock
    <3>3. a.first \in PageNumber /\ a.first <= pg
      BY <3>1, BlockFacts, PageFacts
    <3>4. PageBlock(a.first, pg) \in Block /\ PageBlock(a.first, pg).first = a.first /\ PageBlock(a.first, pg).last = pg
      BY <3>3, MadeBlock
    <3> QED
      BY <3>2, <3>4 DEF a
  <2> HIDE DEF b
  <2>7. /\ DOMAIN g = DOMAIN group /\ g[k] = b
        /\ \A i \in DOMAIN group : i # k => g[i] = group[i]
    BY <2>3, <2>5
  <2>8. g \in Seq(Block) /\ Len(g) = Len(group)
    BY <1>1, <2>3, <2>5, <2>6
  <2>9. group # <<>> /\ g # <<>>
    BY <1>1, <2>3, <2>7
  <2>10. Len(group) = 1 => k = 1
    BY <1>1, <2>3
  <2> QED
    BY <1>1, <2>3, <2>6, <2>7, <2>8, <2>9, <2>10 DEF Extended
<1> QED
  BY <1>3, <1>4

-----------------------------------------------------------------------------
(* Steps of page writers.                                                  *)

\* What the invariant says of one writer.
LEMMA WriterFacts ==
    ASSUME AllocatorInv, NEW w \in Writer
    PROVE  /\ writers[w] \in PageWriter
           /\ writers[w].blocks \in Seq(Block) /\ Len(writers[w].blocks) <= 1
           /\ writers[w].inventory \in Seq(Block) /\ Len(writers[w].inventory) <= 1
           /\ writers[w].group \in Seq(Block)
           /\ writers[w].mine \in SUBSET PageNumber
           /\ writers[w].mine \subseteq HeaderPage..fileLast
           /\ SoundWriter(writers[w]) /\ SoundGroup(writers[w])
           /\ SeqPages(writers[w].blocks) \cap SpacePages(space) = {}
           /\ SeqPages(writers[w].inventory) \cap SpacePages(space) = {}
           /\ writers[w].mine \cap SpacePages(space) = {}
<1>1. writers[w] \in PageWriter /\ SoundWriter(writers[w]) /\ SoundGroup(writers[w])
  BY DEF AllocatorInv, SoundWriters
<1>2. /\ writers[w].blocks \in Seq(Block) /\ Len(writers[w].blocks) <= 1
      /\ writers[w].inventory \in Seq(Block) /\ Len(writers[w].inventory) <= 1
      /\ writers[w].group \in Seq(Block)
      /\ writers[w].mine \in SUBSET PageNumber
  BY <1>1 DEF SoundWriter, PageWriter
<1>3. writers[w].mine \subseteq HeaderPage..fileLast
  BY DEF AllocatorInv, WrittenPages
<1>4. HeldBy(writers[w]) \cap SpacePages(space) = {}
  BY DEF AllocatorInv, PagesApart
<1> QED
  BY <1>1, <1>2, <1>3, <1>4 DEF HeldBy

\* Pages that a writer passes to the space or to the used ones, or takes from the
\* space, are still in one place.
LEMMA PagesMove ==
    ASSUME AllocatorInv, NEW w \in Writer, NEW wr, writers' = [writers EXCEPT ![w] = wr],
           UNCHANGED <<overflow, goesOn>>,
           NEW U, U \subseteq HeldBy(writers[w]), used' = used \cup U,
           HeldBy(wr) \cap SpacePages(space') = {},
           HeldBy(wr) \cap U = {}, U \cap SpacePages(space') = {},
           \A p : p \in HeldBy(wr) \cup SpacePages(space') \cup U
                      <=> p \in HeldBy(writers[w]) \cup SpacePages(space)
    PROVE  KeptApart' /\ PagesApart' /\ NoPageLost'
<1>1. /\ writers'[w] = wr /\ \A v \in Writer : v # w => writers'[v] = writers[v]
  BY DEF AllocatorInv, SoundWriters
<1>2. /\ SpacePages(space) \cap Kept = {}
      /\ \A v \in Writer : HeldBy(writers[v]) \cap (Kept \cup SpacePages(space)) = {}
      /\ \A v \in Writer : v # w => HeldBy(writers[v]) \cap HeldBy(writers[w]) = {}
      /\ \A v, x \in Writer : v # x => HeldBy(writers[v]) \cap HeldBy(writers[x]) = {}
  BY DEF AllocatorInv, PagesApart
<1>3. Kept' = Kept \cup U /\ U \cap Kept = {}
  BY <1>2 DEF Kept
<1>4. \A v \in Writer : v # w =>
          /\ HeldBy(writers'[v]) = HeldBy(writers[v])
          /\ HeldBy(writers[v]) \cap (HeldBy(wr) \cup SpacePages(space') \cup U) = {}
  BY <1>1, <1>2
<1>5. KeptApart'
  <2>1. U \cap ({HeaderPage} \cup PagesOf(overflow) \cup PagesOf(goesOn)) = {}
    BY <1>3 DEF Kept
  <2> QED
    BY <2>1 DEF AllocatorInv, KeptApart
<1>6. PagesApart'
  <2>1. SpacePages(space') \cap Kept' = {}
    BY <1>2, <1>3
  <2>2. ASSUME NEW v \in Writer
        PROVE  HeldBy(writers'[v]) \cap (Kept' \cup SpacePages(space')) = {}
    <3>1. CASE v = w
      BY <1>1, <1>2, <1>3, <3>1
    <3>2. CASE v # w
      BY <1>2, <1>3, <1>4, <3>2
    <3> QED
      BY <3>1, <3>2
  <2>3. ASSUME NEW v \in Writer, NEW x \in Writer, v # x
        PROVE  HeldBy(writers'[v]) \cap HeldBy(writers'[x]) = {}
    <3>1. CASE v # w /\ x # w
      BY <1>2, <1>4, <2>3, <3>1
    <3>2. CASE v = w
      BY <1>1, <1>4, <2>3, <3>2
    <3>3. CASE x = w
      BY <1>1, <1>4, <2>3, <3>3
    <3> QED
      BY <3>1, <3>2, <3>3
  <2> QED
    BY <2>1, <2>2, <2>3 DEF PagesApart
<1>7. NoPageLost'
  <2>1. SUFFICES ASSUME NEW p \in Nat \ {0}, p \notin Kept', p \notin SpacePages(space'),
                        \A v \in Writer : p \notin HeldBy(writers'[v])
                 PROVE  FALSE
    BY DEF NoPageLost
  <2>2. p \notin HeldBy(writers[w]) /\ p \notin SpacePages(space) /\ p \notin Kept
    BY <1>1, <1>3, <2>1
  <2>3. \A v \in Writer : p \notin HeldBy(writers[v])
    BY <1>4, <2>1, <2>2
  <2> QED
    BY <2>2, <2>3 DEF AllocatorInv, NoPageLost
<1> QED
  BY <1>5, <1>6, <1>7

\* A step of a writer keeps the invariant when what it makes of the writer and the
\* space is sound and moves pages only between them.
LEMMA WriterStepKeeps ==
    ASSUME AllocatorInv, NEW w \in Writer, NEW wr, writers' = [writers EXCEPT ![w] = wr],
           UNCHANGED <<overflow, goesOn>>,
           SoundSpace(space'), SoundWriter(wr), SoundGroup(wr),
           fileLast' \in PageNumber, fileLast <= fileLast',
           wr.mine \subseteq HeaderPage..fileLast',
           NEW U, U \subseteq writers[w].mine, used' = used \cup U,
           HeldBy(wr) \cap SpacePages(space') = {},
           HeldBy(wr) \cap U = {}, U \cap SpacePages(space') = {},
           \A p : p \in HeldBy(wr) \cup SpacePages(space') \cup U
                      <=> p \in HeldBy(writers[w]) \cup SpacePages(space)
    PROVE  AllocatorInv'
<1>1. U \subseteq HeldBy(writers[w])
  BY DEF HeldBy
<1>2. KeptApart' /\ PagesApart' /\ NoPageLost'
  BY <1>1, PagesMove
<1>3. wr \in PageWriter /\ writers \in [Writer -> PageWriter]
  BY DEF AllocatorInv, SoundWriters, SoundWriter
<1>4. SoundWriters'
  <2>1. writers' \in [Writer -> PageWriter]
    BY <1>3
  <2>2. \A v \in Writer : SoundWriter(writers'[v]) /\ SoundGroup(writers'[v])
    BY <1>3 DEF AllocatorInv, SoundWriters
  <2> QED
    BY <2>1, <2>2 DEF SoundWriters
<1>5. used \subseteq PageNumber /\ fileLast \in PageNumber /\ writers[w].mine \subseteq HeaderPage..fileLast
      /\ used \subseteq HeaderPage..fileLast
  BY DEF AllocatorInv, WrittenPages
<1>6. HeaderPage..fileLast \subseteq HeaderPage..fileLast' /\ HeaderPage..fileLast \subseteq PageNumber
  BY <1>5, PageFacts
<1>7. used' \subseteq PageNumber /\ used' \subseteq HeaderPage..fileLast'
  BY <1>5, <1>6
<1>8. WrittenPages'
  <2>1. ASSUME NEW v \in Writer
        PROVE  writers'[v].mine \subseteq HeaderPage..fileLast'
    <3>1. CASE v = w
      BY <1>3, <3>1
    <3>2. CASE v # w
      BY <1>3, <1>6, <3>2 DEF AllocatorInv, WrittenPages
    <3> QED
      BY <3>1, <3>2
  <2> QED
    BY <1>7, <2>1 DEF WrittenPages
<1>9. HeaderBlocks'
  BY DEF AllocatorInv, HeaderBlocks
<1> QED
  BY <1>2, <1>4, <1>7, <1>8, <1>9 DEF AllocatorInv

\* A writer whose inventory is another and that has written a page more.
Wrote(wr, rest, pg) == [wr EXCEPT !.blocks = rest, !.mine = @ \cup {pg}]

\* What a writer is after write_page.
LEMMA WriterWithPage ==
    ASSUME NEW wr \in PageWriter, NEW rest \in Seq(Block), NEW pg \in PageNumber
    PROVE  /\ Wrote(wr, rest, pg) \in PageWriter
           /\ Wrote(wr, rest, pg).blocks = rest
           /\ Wrote(wr, rest, pg).mine = wr.mine \cup {pg}
           /\ Wrote(wr, rest, pg).inventory = wr.inventory
           /\ Wrote(wr, rest, pg).group = wr.group
           /\ Wrote(wr, rest, pg).known = wr.known
           /\ Wrote(wr, rest, pg).inGroup = wr.inGroup
<1> DEFINE ur == Wrote(wr, rest, pg)
           vr == [wr EXCEPT !.blocks = rest]
<1>1. /\ vr \in PageWriter /\ vr.blocks = rest /\ vr.mine = wr.mine
      /\ vr.inventory = wr.inventory /\ vr.group = wr.group
      /\ vr.known = wr.known /\ vr.inGroup = wr.inGroup
  BY DEF PageWriter
<1>2. ur = [vr EXCEPT !.mine = @ \cup {pg}]
  BY DEF PageWriter, Wrote
<1> HIDE DEF vr, ur
<1>3. vr.mine \cup {pg} \in SUBSET PageNumber
  BY <1>1 DEF PageWriter
<1> QED
  BY <1>1, <1>2, <1>3 DEF PageWriter, ur

\* A writer that begins or ends a group.
Grouped(wr, inGroup, known, inventory) ==
    [wr EXCEPT !.inGroup = inGroup, !.known = known, !.group = <<>>, !.inventory = inventory]

\* What a writer is after begin_group and end_group.
LEMMA WriterWithGroup ==
    ASSUME NEW wr \in PageWriter, NEW inGroup \in BOOLEAN, NEW known \in 0..MaxKnown,
           NEW inventory \in Seq(Block)
    PROVE  /\ Grouped(wr, inGroup, known, inventory) \in PageWriter
           /\ Grouped(wr, inGroup, known, inventory).blocks = wr.blocks
           /\ Grouped(wr, inGroup, known, inventory).mine = wr.mine
           /\ Grouped(wr, inGroup, known, inventory).inventory = inventory
           /\ Grouped(wr, inGroup, known, inventory).group = <<>>
           /\ Grouped(wr, inGroup, known, inventory).known = known
           /\ Grouped(wr, inGroup, known, inventory).inGroup = inGroup
<1> DEFINE ur == Grouped(wr, inGroup, known, inventory)
           vr == [wr EXCEPT !.inGroup = inGroup]
           xr == [vr EXCEPT !.known = known]
           yr == [xr EXCEPT !.group = <<>>]
<1>1. /\ vr \in PageWriter /\ vr.blocks = wr.blocks /\ vr.mine = wr.mine
      /\ vr.inGroup = inGroup
  BY DEF PageWriter
<1>2. ur = [yr EXCEPT !.inventory = inventory]
  BY DEF PageWriter, Grouped
<1> HIDE DEF vr, ur
<1>3. /\ xr \in PageWriter /\ xr.blocks = wr.blocks /\ xr.mine = wr.mine
      /\ xr.inGroup = inGroup /\ xr.known = known
  BY <1>1 DEF PageWriter
<1> HIDE DEF xr
<1>4. /\ yr \in PageWriter /\ yr.blocks = wr.blocks /\ yr.mine = wr.mine
      /\ yr.inGroup = inGroup /\ yr.known = known /\ yr.group = <<>>
  <2>0. <<>> \in Seq(Block)
    OBVIOUS
  <2>1. yr \in PageWriter
    BY <1>3, <2>0 DEF PageWriter
  <2>2. yr.group = <<>>
    BY <1>3 DEF PageWriter
  <2>3. /\ yr.blocks = xr.blocks /\ yr.mine = xr.mine
        /\ yr.inGroup = xr.inGroup /\ yr.known = xr.known
    BY <1>3 DEF PageWriter
  <2> QED
    BY <1>3, <2>1, <2>2, <2>3
<1> HIDE DEF yr
<1>5. /\ ur \in PageWriter /\ ur.blocks = wr.blocks /\ ur.mine = wr.mine
      /\ ur.inGroup = inGroup /\ ur.known = known /\ ur.group = <<>>
      /\ ur.inventory = inventory
  BY <1>2, <1>4 DEF PageWriter
<1> QED
  BY <1>5 DEF ur

\* WritePageAt moves the end of the file no further than to a page.
LEMMA FileGrows ==
    ASSUME AllocatorInv, NEW pg \in PageNumber, WritePageAt(pg), NEW mine, mine \subseteq HeaderPage..fileLast
    PROVE  /\ fileLast' \in PageNumber /\ fileLast <= fileLast'
           /\ mine \cup {pg} \subseteq HeaderPage..fileLast'
BY PageFacts DEF AllocatorInv, WritePageAt

\* Nothing is after 0.
LEMMA ZeroIsNoPage ==
    ASSUME SoundSpace(space)
    PROVE  0 \notin SpacePages(space)
BY SpaceFacts

\* A page writer that has just been made.
LEMMA FreshIsSound ==
    FreshWriter \in PageWriter /\ SoundWriter(FreshWriter) /\ SoundGroup(FreshWriter) /\ HeldBy(FreshWriter) = {}
    /\ FreshWriter.mine = {}
<1>1. /\ FreshWriter.blocks = <<>> /\ FreshWriter.mine = {} /\ ~FreshWriter.inGroup
      /\ FreshWriter.inventory = <<>> /\ FreshWriter.group = <<>> /\ FreshWriter.known = 0
  BY DEF FreshWriter
<1>2. FreshWriter \in PageWriter
  <2>1. 0 \in 0..MaxKnown /\ <<>> \in Seq(Block)
    BY AllocatorAssumption
  <2> QED
    BY <2>1 DEF FreshWriter, PageWriter
<1>3. SeqPages(<<>>) = {} /\ Len(<<>>) = 0 /\ ~RunsLow(<<>>)
  BY PagesOfFew DEF RunsLow
<1> QED
  BY <1>1, <1>2, <1>3 DEF SoundWriter, SoundGroup, OrderedGroup, OrderedBlocks, UnknownGroup, UnknownBlocks, KnownGroup, HeldBy

\* write_page.
LEMMA WritePageKeeps ==
    ASSUME AllocatorInv, NEW w \in Writer, WritePage(w)
    PROVE  AllocatorInv'
<1> DEFINE wr == writers[w]
           req == InventoryRequest(wr.blocks)
           st == Stocked(wr.blocks, req)
           rest == Rest(st.blocks)
           pg == st.blocks[1].first
           ur == [wr EXCEPT !.blocks = rest, !.mine = @ \cup {pg}]
<1>1. /\ ~wr.inGroup
      /\ st.space.next <= MaxPage + 1
      /\ space' = st.space
      /\ writers' = [writers EXCEPT ![w] = ur]
      /\ WritePageAt(pg)
      /\ UNCHANGED <<used, overflow, goesOn>>
  BY DEF WritePage
<1>2. /\ wr \in PageWriter /\ wr.blocks \in Seq(Block) /\ Len(wr.blocks) <= 1
      /\ wr.mine \subseteq HeaderPage..fileLast
      /\ SoundWriter(wr) /\ SoundGroup(wr)
      /\ SeqPages(wr.blocks) \cap SpacePages(space) = {}
      /\ SeqPages(wr.inventory) \cap SpacePages(space) = {}
      /\ wr.mine \cap SpacePages(space) = {}
      /\ SoundSpace(space)
  BY WriterFacts DEF AllocatorInv
<1>3. Request(req) /\ req.after = 0
  BY DEF Request, InventoryRequest, MinimumSize, StartOrAny
<1> HIDE DEF wr, req
<1>4. StockedFor(wr.blocks, st)
  <2>1. req.after \notin SpacePages(space)
    BY <1>2, <1>3, ZeroIsNoPage
  <2>2. st = Stocked(wr.blocks, req)
    OBVIOUS
  <2> HIDE DEF st
  <2> QED
    BY <1>1, <1>2, <1>3, <2>1, <2>2, StockedPages
<1>5. /\ pg \in PageNumber
      /\ rest \in Seq(Block) /\ Len(rest) <= 1
      /\ SoundSpace(space')
      /\ pg \in SeqPages(wr.blocks) \cup SpacePages(space)
      /\ pg \notin SeqPages(rest) \cup SpacePages(space')
      /\ SeqPages(rest) \cap SpacePages(space') = {}
      /\ \A p : p \in SeqPages(rest) \cup SpacePages(space') \cup {pg}
                    <=> p \in SeqPages(wr.blocks) \cup SpacePages(space)
  BY <1>1, <1>4 DEF StockedFor
<1>6. ur = Wrote(wr, rest, pg)
  BY DEF Wrote
<1> HIDE DEF st, rest, pg, ur
<1>7. /\ ur.blocks = rest /\ ur.mine = wr.mine \cup {pg}
      /\ ur.inventory = wr.inventory /\ ur.group = wr.group
      /\ ur.known = wr.known /\ ur.inGroup = wr.inGroup
      /\ ur \in PageWriter
  BY <1>2, <1>5, <1>6, WriterWithPage
<1>8. /\ SeqPages(wr.blocks) \cap SeqPages(wr.inventory) = {}
      /\ SeqPages(wr.blocks) \cap wr.mine = {}
      /\ SeqPages(wr.inventory) \cap wr.mine = {}
      /\ Len(wr.inventory) <= 1
      /\ wr.inventory = <<>> /\ wr.group = <<>> /\ wr.known = 0
  BY <1>1, <1>2 DEF SoundWriter, SoundGroup
<1>9. SoundWriter(ur)
  BY <1>2, <1>5, <1>7, <1>8 DEF SoundWriter
<1>10. SoundGroup(ur)
  <2>1. ~RunsLow(ur.inventory)
    BY <1>7, <1>8 DEF RunsLow
  <2> QED
    BY <1>7, <1>8, <2>1 DEF SoundGroup, OrderedGroup, OrderedBlocks, UnknownGroup, UnknownBlocks, KnownGroup
<1>11. /\ fileLast' \in PageNumber /\ fileLast <= fileLast'
       /\ ur.mine \subseteq HeaderPage..fileLast'
  BY <1>1, <1>2, <1>5, <1>7, FileGrows
<1>12. /\ HeldBy(wr) = SeqPages(wr.blocks) \cup wr.mine \cup SeqPages(wr.inventory)
       /\ HeldBy(ur) = SeqPages(rest) \cup (wr.mine \cup {pg}) \cup SeqPages(wr.inventory)
  BY <1>7 DEF HeldBy
<1>13. /\ HeldBy(ur) \cap SpacePages(space') = {}
       /\ HeldBy(ur) \cap {} = {} /\ {} \cap SpacePages(space') = {}
       /\ \A p : p \in HeldBy(ur) \cup SpacePages(space') \cup {}
                     <=> p \in HeldBy(wr) \cup SpacePages(space)
  BY <1>2, <1>5, <1>8, <1>12
<1>14. used' = used \cup {} /\ {} \subseteq wr.mine
  BY <1>1
<1> QED
  BY <1>1, <1>5, <1>9, <1>10, <1>11, <1>13, <1>14, WriterStepKeeps DEF wr

\* begin_group.
LEMMA BeginGroupKeeps ==
    ASSUME AllocatorInv, NEW w \in Writer, NEW known \in 0..MaxKnown, BeginGroup(w, known)
    PROVE  AllocatorInv'
<1> DEFINE wr == writers[w]
           got == GetBlock(space, EarlyExactSize(known))
           new == IF known = 0 THEN <<>> ELSE <<got.block>>
           ur == [wr EXCEPT !.inGroup = TRUE, !.known = known, !.group = <<>>, !.inventory = new]
<1>1. /\ ~wr.inGroup
      /\ IF known = 0 THEN UNCHANGED space
         ELSE got.space.next <= MaxPage + 1 /\ space' = got.space
      /\ writers' = [writers EXCEPT ![w] = ur]
      /\ UNCHANGED <<used, overflow, goesOn, fileLast>>
  BY DEF BeginGroup
<1>2. /\ wr \in PageWriter /\ wr.blocks \in Seq(Block) /\ Len(wr.blocks) <= 1
      /\ wr.mine \subseteq HeaderPage..fileLast
      /\ SoundWriter(wr) /\ SoundGroup(wr)
      /\ SeqPages(wr.blocks) \cap SpacePages(space) = {}
      /\ wr.mine \cap SpacePages(space) = {}
      /\ SoundSpace(space)
  BY WriterFacts DEF AllocatorInv
<1>3. wr.inventory = <<>> /\ SeqPages(wr.inventory) = {}
  BY <1>1, <1>2, PagesOfFew DEF SoundGroup
<1>4. CASE known = 0
  <2>1. new = <<>> /\ space' = space
    BY <1>1, <1>4
  <2>2. ur = Grouped(wr, TRUE, 0, <<>>)
    BY <1>4 DEF Grouped
  <2> HIDE DEF wr, ur
  <2>3. /\ ur \in PageWriter /\ ur.blocks = wr.blocks /\ ur.mine = wr.mine
        /\ ur.inventory = <<>> /\ ur.group = <<>> /\ ur.known = 0 /\ ur.inGroup
    <3>1. 0 \in 0..MaxKnown /\ TRUE \in BOOLEAN /\ <<>> \in Seq(Block)
      BY AllocatorAssumption
    <3>2. /\ Grouped(wr, TRUE, 0, <<>>) \in PageWriter
          /\ Grouped(wr, TRUE, 0, <<>>).blocks = wr.blocks
          /\ Grouped(wr, TRUE, 0, <<>>).mine = wr.mine
          /\ Grouped(wr, TRUE, 0, <<>>).inventory = <<>>
          /\ Grouped(wr, TRUE, 0, <<>>).group = <<>>
          /\ Grouped(wr, TRUE, 0, <<>>).known = 0
          /\ Grouped(wr, TRUE, 0, <<>>).inGroup = TRUE
      BY <1>2, <3>1, WriterWithGroup, Zenon
    <3> QED
      BY <2>2, <3>2
  <2>4. SoundWriter(ur)
    BY <1>2, <1>3, <2>3 DEF SoundWriter
  <2>5. SoundGroup(ur)
    <3>1. ~RunsLow(ur.inventory)
      BY <2>3 DEF RunsLow
    <3> QED
      BY <2>3, <3>1 DEF SoundGroup, OrderedGroup, OrderedBlocks, UnknownGroup, UnknownBlocks, KnownGroup
  <2>6. HeldBy(ur) = HeldBy(wr) /\ HeldBy(wr) \cap SpacePages(space) = {}
    BY <1>2, <1>3, <2>3 DEF HeldBy
  <2>7. fileLast' \in PageNumber /\ fileLast <= fileLast' /\ ur.mine \subseteq HeaderPage..fileLast'
    BY <1>1, <1>2, <2>3, PageFacts DEF AllocatorInv
  <2>8. used' = used \cup {} /\ {} \subseteq wr.mine
    BY <1>1
  <2>9. \A p : p \in HeldBy(ur) \cup SpacePages(space') \cup {}
                   <=> p \in HeldBy(wr) \cup SpacePages(space)
    BY <2>1, <2>6
  <2>10. HeldBy(ur) \cap SpacePages(space') = {} /\ HeldBy(ur) \cap {} = {}
         /\ {} \cap SpacePages(space') = {} /\ SoundSpace(space')
    BY <1>2, <2>1, <2>6
  <2> QED
    BY <1>1, <2>4, <2>5, <2>7, <2>8, <2>9, <2>10, WriterStepKeeps DEF wr
<1>5. CASE known # 0
  <2> DEFINE req == EarlyExactSize(known)
             b == got.block
  <2>1. Request(req) /\ req.after = 0 /\ req.kind = "early" /\ req.size = known
    BY <1>5, PageFacts, AllocatorAssumption DEF Request, EarlyExactSize
  <2>2. got = GetBlock(space, req) /\ new = <<b>> /\ space' = got.space /\ got.space.next <= MaxPage + 1
    BY <1>1, <1>5
  <2> HIDE DEF req, got
  <2>3. Taken(space, b, space') /\ Granted(req, b)
    <3>1. req.after \notin SpacePages(space)
      BY <1>2, <2>1, ZeroIsNoPage
    <3> QED
      BY <1>2, <2>1, <2>2, <3>1, GotBlock
  <2>4. /\ b \in Block /\ Pages(b) \subseteq SpacePages(space)
        /\ SoundSpace(space') /\ SpacePages(space') = SpacePages(space) \ Pages(b)
        /\ CountPages(b) = known
    BY <2>1, <2>3 DEF Taken, Granted
  <2> HIDE DEF b
  <2>5. ur = Grouped(wr, TRUE, known, <<b>>)
    BY <2>2 DEF Grouped
  <2> HIDE DEF wr, ur
  <2>6. /\ ur \in PageWriter /\ ur.blocks = wr.blocks /\ ur.mine = wr.mine
        /\ ur.inventory = <<b>> /\ ur.group = <<>> /\ ur.known = known /\ ur.inGroup
    <3>1. TRUE \in BOOLEAN /\ <<b>> \in Seq(Block)
      BY <2>4
    <3>2. /\ Grouped(wr, TRUE, known, <<b>>) \in PageWriter
          /\ Grouped(wr, TRUE, known, <<b>>).blocks = wr.blocks
          /\ Grouped(wr, TRUE, known, <<b>>).mine = wr.mine
          /\ Grouped(wr, TRUE, known, <<b>>).inventory = <<b>>
          /\ Grouped(wr, TRUE, known, <<b>>).group = <<>>
          /\ Grouped(wr, TRUE, known, <<b>>).known = known
          /\ Grouped(wr, TRUE, known, <<b>>).inGroup = TRUE
      BY <1>2, <3>1, WriterWithGroup, Zenon
    <3> QED
      BY <2>5, <3>2
  <2>7. SeqPages(ur.inventory) = Pages(b)
    BY <2>6, PagesOfFew
  <2>8. SoundWriter(ur)
    <3>1. Len(ur.inventory) = 1
      BY <2>6
    <3> QED
      BY <1>2, <2>4, <2>6, <2>7, <3>1 DEF SoundWriter
  <2>9. SoundGroup(ur)
    <3>1. ur.inventory # <<>> /\ ur.inventory[1] = b
      BY <2>6
    <3> QED
      BY <1>5, <2>4, <2>6, <3>1 DEF SoundGroup, OrderedGroup, OrderedBlocks, UnknownGroup, UnknownBlocks, KnownGroup
  <2>10. HeldBy(ur) = HeldBy(wr) \cup Pages(b) /\ HeldBy(wr) \cap SpacePages(space) = {}
    BY <1>2, <1>3, <2>6, <2>7 DEF HeldBy
  <2>11. fileLast' \in PageNumber /\ fileLast <= fileLast' /\ ur.mine \subseteq HeaderPage..fileLast'
    BY <1>1, <1>2, <2>6, PageFacts DEF AllocatorInv
  <2>12. used' = used \cup {} /\ {} \subseteq wr.mine
    BY <1>1
  <2>13. \A p : p \in HeldBy(ur) \cup SpacePages(space') \cup {}
                   <=> p \in HeldBy(wr) \cup SpacePages(space)
    BY <2>4, <2>10
  <2>14. HeldBy(ur) \cap SpacePages(space') = {} /\ HeldBy(ur) \cap {} = {}
         /\ {} \cap SpacePages(space') = {} /\ SoundSpace(space')
    BY <2>4, <2>10
  <2> QED
    BY <1>1, <2>8, <2>9, <2>11, <2>12, <2>13, <2>14, WriterStepKeeps DEF wr
<1> QED
  BY <1>4, <1>5

\* What is given back to the space.
LEMMA GivenBack ==
    ASSUME SoundSpace(space), NEW blocks \in Seq(Block), Len(blocks) <= 1,
           SeqPages(blocks) \cap SpacePages(space) = {},
           space' = IF blocks = <<>> THEN space ELSE WithFree(space, PagesOf(SetOf(blocks)))
    PROVE  SoundSpace(space') /\ SpacePages(space') = SpacePages(space) \cup SeqPages(blocks)
<1>1. CASE blocks = <<>>
  BY <1>1, PagesOfFew
<1>2. CASE blocks # <<>>
  <2> DEFINE P == SeqPages(blocks)
  <2>1. blocks = <<blocks[1]>> /\ blocks[1] \in Block
    BY <1>2, FewBlocks
  <2>2. P \in SUBSET PageNumber
    <3>1. P = Pages(blocks[1])
      BY <2>1, PagesOfFew
    <3> QED
      BY <2>1, <3>1, BlockFacts
  <2>3. space' = WithFree(space, P)
    BY <1>2 DEF SeqPages
  <2> HIDE DEF P
  <2>4. P \cap SpacePages(space) = {}
    BY DEF P
  <2>5. SoundSpace(WithFree(space, P)) /\ SpacePages(WithFree(space, P)) = SpacePages(space) \cup P
    BY <2>2, <2>4, WithFreeSpace
  <2> QED
    BY <2>3, <2>5 DEF P
<1> QED
  BY <1>1, <1>2

\* end_group.
LEMMA EndGroupKeeps ==
    ASSUME AllocatorInv, NEW w \in Writer, EndGroup(w)
    PROVE  AllocatorInv'
<1> DEFINE wr == writers[w]
           ur == [wr EXCEPT !.inGroup = FALSE, !.inventory = <<>>, !.group = <<>>, !.known = 0]
<1>1. /\ space' = IF wr.inventory = <<>> THEN space
                  ELSE WithFree(space, PagesOf(SetOf(wr.inventory)))
      /\ writers' = [writers EXCEPT ![w] = ur]
      /\ UNCHANGED <<used, overflow, goesOn, fileLast>>
  BY DEF EndGroup
<1>2. /\ wr \in PageWriter /\ wr.inventory \in Seq(Block) /\ Len(wr.inventory) <= 1
      /\ wr.mine \subseteq HeaderPage..fileLast
      /\ SoundWriter(wr)
      /\ SeqPages(wr.blocks) \cap SpacePages(space) = {}
      /\ SeqPages(wr.inventory) \cap SpacePages(space) = {}
      /\ wr.mine \cap SpacePages(space) = {}
      /\ SoundSpace(space)
  BY WriterFacts DEF AllocatorInv
<1>3. ur = [wr EXCEPT !.inGroup = FALSE, !.inventory = <<>>, !.group = <<>>, !.known = 0]
  OBVIOUS
<1> HIDE DEF wr, ur
<1>4. SoundSpace(space') /\ SpacePages(space') = SpacePages(space) \cup SeqPages(wr.inventory)
  BY <1>1, <1>2, GivenBack
<1>5. /\ ur \in PageWriter /\ ur.blocks = wr.blocks /\ ur.mine = wr.mine
      /\ ur.inventory = <<>> /\ ur.group = <<>> /\ ur.known = 0 /\ ~ur.inGroup
  <2> DEFINE vr == Grouped(wr, TRUE, 0, <<>>)
  <2>1. wr \in PageWriter /\ 0 \in 0..MaxKnown /\ TRUE \in BOOLEAN /\ <<>> \in Seq(Block)
    BY <1>2, AllocatorAssumption
  <2>0. /\ Grouped(wr, TRUE, 0, <<>>) \in PageWriter
        /\ Grouped(wr, TRUE, 0, <<>>).blocks = wr.blocks
        /\ Grouped(wr, TRUE, 0, <<>>).mine = wr.mine
        /\ Grouped(wr, TRUE, 0, <<>>).inventory = <<>>
        /\ Grouped(wr, TRUE, 0, <<>>).group = <<>>
        /\ Grouped(wr, TRUE, 0, <<>>).known = 0
        /\ Grouped(wr, TRUE, 0, <<>>).inGroup = TRUE
    BY <2>1, WriterWithGroup, Zenon
  <2>2. /\ vr \in PageWriter /\ vr.blocks = wr.blocks /\ vr.mine = wr.mine
        /\ vr.inventory = <<>> /\ vr.group = <<>> /\ vr.known = 0
    BY <2>0
  <2>3. ur = [vr EXCEPT !.inGroup = FALSE]
    BY <1>2, <1>3 DEF PageWriter, Grouped
  <2> HIDE DEF vr
  <2> QED
    BY <2>2, <2>3 DEF PageWriter
<1>6. SeqPages(ur.inventory) = {}
  BY <1>5, PagesOfFew
<1>7. SoundWriter(ur)
  <2>1. Len(ur.inventory) = 0
    BY <1>5
  <2> QED
    BY <1>2, <1>5, <1>6, <2>1 DEF SoundWriter
<1>8. SoundGroup(ur)
  <2>1. ~RunsLow(ur.inventory)
    BY <1>5 DEF RunsLow
  <2> QED
    BY <1>5, <2>1 DEF SoundGroup, OrderedGroup, OrderedBlocks, UnknownGroup, UnknownBlocks, KnownGroup
<1>9. /\ HeldBy(ur) = SeqPages(wr.blocks) \cup wr.mine
      /\ HeldBy(wr) = SeqPages(wr.blocks) \cup wr.mine \cup SeqPages(wr.inventory)
  BY <1>5, <1>6 DEF HeldBy
<1>10. /\ SeqPages(wr.inventory) \cap SeqPages(wr.blocks) = {}
       /\ SeqPages(wr.inventory) \cap wr.mine = {}
  BY <1>2 DEF SoundWriter
<1>11. fileLast' \in PageNumber /\ fileLast <= fileLast' /\ ur.mine \subseteq HeaderPage..fileLast'
  BY <1>1, <1>2, <1>5, PageFacts DEF AllocatorInv
<1>12. used' = used \cup {} /\ {} \subseteq wr.mine
  BY <1>1
<1>13. \A p : p \in HeldBy(ur) \cup SpacePages(space') \cup {}
                 <=> p \in HeldBy(wr) \cup SpacePages(space)
  BY <1>4, <1>9
<1>14. HeldBy(ur) \cap SpacePages(space') = {} /\ HeldBy(ur) \cap {} = {}
       /\ {} \cap SpacePages(space') = {}
  BY <1>2, <1>4, <1>9, <1>10
<1> QED
  BY <1>1, <1>4, <1>7, <1>8, <1>11, <1>12, <1>13, <1>14, WriterStepKeeps DEF wr

\* PageWriter::end.
LEMMA EndKeeps ==
    ASSUME AllocatorInv, NEW w \in Writer, End(w)
    PROVE  AllocatorInv'
<1> DEFINE wr == writers[w]
<1>1. /\ ~wr.inGroup
      /\ space' = IF wr.blocks = <<>> THEN space
                  ELSE WithFree(space, PagesOf(SetOf(wr.blocks)))
      /\ used' = used \cup wr.mine
      /\ writers' = [writers EXCEPT ![w] = FreshWriter]
      /\ UNCHANGED <<overflow, goesOn, fileLast>>
  BY DEF End, GiveBackInventory
<1>2. /\ wr \in PageWriter /\ wr.blocks \in Seq(Block) /\ Len(wr.blocks) <= 1
      /\ SoundWriter(wr) /\ SoundGroup(wr)
      /\ SeqPages(wr.blocks) \cap SpacePages(space) = {}
      /\ wr.mine \cap SpacePages(space) = {}
      /\ SoundSpace(space)
  BY WriterFacts DEF AllocatorInv
<1> HIDE DEF wr
<1>3. wr.inventory = <<>> /\ SeqPages(wr.inventory) = {} /\ SeqPages(wr.blocks) \cap wr.mine = {}
  BY <1>1, <1>2, PagesOfFew DEF SoundGroup, SoundWriter
<1>4. SoundSpace(space') /\ SpacePages(space') = SpacePages(space) \cup SeqPages(wr.blocks)
  BY <1>1, <1>2, GivenBack
<1>5. SoundWriter(FreshWriter) /\ SoundGroup(FreshWriter) /\ HeldBy(FreshWriter) = {} /\ FreshWriter.mine = {}
  BY FreshIsSound
<1>6. HeldBy(wr) = SeqPages(wr.blocks) \cup wr.mine
  BY <1>3 DEF HeldBy
<1>7. fileLast' \in PageNumber /\ fileLast <= fileLast' /\ FreshWriter.mine \subseteq HeaderPage..fileLast'
  BY <1>1, <1>5, PageFacts DEF AllocatorInv
<1>8. \A p : p \in HeldBy(FreshWriter) \cup SpacePages(space') \cup wr.mine
                 <=> p \in HeldBy(wr) \cup SpacePages(space)
  BY <1>4, <1>5, <1>6
<1>9. HeldBy(FreshWriter) \cap SpacePages(space') = {} /\ HeldBy(FreshWriter) \cap wr.mine = {}
      /\ wr.mine \cap SpacePages(space') = {}
  BY <1>2, <1>3, <1>4, <1>5
<1> QED
  BY <1>1, <1>4, <1>5, <1>7, <1>8, <1>9, WriterStepKeeps DEF wr

\* What a writer asks for that goes on with a group of unknown length.
AsksFor(wr, req) ==
    /\ Request(req) /\ req.kind = "minimum" /\ req.size >= 2
    /\ req.after \notin SpacePages(space)
    /\ wr.inventory = <<>> => req.starts = {}
    /\ wr.inventory # <<>> =>
          /\ wr.group # <<>>
          /\ req.starts = {wr.inventory[1].last + 1} \cup {wr.group[i].last + 1 : i \in DOMAIN wr.group}
          /\ req.after = wr.group[1].first

\* What ensure_group_inventory asks for comes after pages that the writer holds.
LEMMA GroupAsks ==
    ASSUME AllocatorInv, NEW w \in Writer, writers[w].known = 0
    PROVE  AsksFor(writers[w], GroupRequest(writers[w].inventory, writers[w].group))
<1> DEFINE wr == writers[w]
           req == GroupRequest(wr.inventory, wr.group)
<1>1. SoundSpace(space) /\ SoundGroup(wr) /\ wr.mine \cap SpacePages(space) = {}
      /\ wr.group \in Seq(Block)
  BY WriterFacts DEF AllocatorInv
<1>0. req = GroupRequest(wr.inventory, wr.group) /\ wr.known = 0
  OBVIOUS
<1> HIDE DEF wr, req
<1>2. wr.group = <<>> <=> wr.inventory = <<>>
  BY <1>0, <1>1 DEF SoundGroup, UnknownGroup, UnknownBlocks
<1>3. ASSUME wr.inventory = <<>>
      PROVE  AsksFor(wr, req)
  <2>1. req = MinimumSize(FirstOfGroup)
    BY <1>0, <1>3 DEF GroupRequest
  <2>2. req.kind = "minimum" /\ req.size = FirstOfGroup /\ req.starts = {} /\ req.after = 0
    BY <2>1 DEF MinimumSize
  <2> QED
    BY <1>1, <1>3, <2>2, ZeroIsNoPage, PageFacts DEF Request, AsksFor
<1>4. ASSUME wr.inventory # <<>>
      PROVE  AsksFor(wr, req)
  <2>1. wr.group # <<>>
    BY <1>2, <1>4
  <2>2. req.kind = "minimum" /\ req.size = NextOfGroup /\ req.after = wr.group[1].first
        /\ req.starts = {wr.inventory[1].last + 1} \cup {wr.group[i].last + 1 : i \in DOMAIN wr.group}
    BY <1>0, <1>4, <2>1 DEF GroupRequest, StartOrAfterMinimumSize
  <2>3. wr.group[1] \in Block
    BY <1>1, <2>1
  <2>4. wr.group[1].first \in Nat
    BY <2>3, BlockFacts
  <2>5. wr.group[1].first \in wr.mine
    BY <1>1, <2>1 DEF SoundGroup, OrderedGroup, OrderedBlocks
  <2>6. req.after \notin SpacePages(space)
    BY <1>1, <2>2, <2>5
  <2>7. Request(req) /\ req.size >= 2
    BY <2>2, <2>4, PageFacts DEF Request
  <2> QED
    BY <1>4, <2>1, <2>2, <2>6, <2>7 DEF AsksFor
<1> QED
  BY <1>3, <1>4 DEF wr, req

\* What a group of unknown length has left when it has taken a page: blocks that
\* begin after that page, or after a block of the group.
LEMMA UnknownRest ==
    ASSUME AllocatorInv, NEW w \in Writer, NEW wr, wr = writers[w], wr.known = 0,
           NEW st, st = Stocked(wr.inventory, GroupRequest(wr.inventory, wr.group)),
           st.space.next <= MaxPage + 1
    PROVE  /\ StockedFor(wr.inventory, st)
           /\ wr.inventory # <<>> => st.blocks[1].first = wr.inventory[1].first
           /\ Rest(st.blocks) # <<>>
           /\ \/ Rest(st.blocks)[1].first = st.blocks[1].first + 1
              \/ /\ Rest(st.blocks)[1].first # st.blocks[1].first
                 /\ wr.group # <<>>
                 /\ Rest(st.blocks)[1].first > wr.group[1].first
                 /\ RunsLow(Rest(st.blocks)) =>
                        \E i \in DOMAIN wr.group : Rest(st.blocks)[1].first = wr.group[i].last + 1
<1> DEFINE blocks == wr.inventory
           req == GroupRequest(blocks, wr.group)
           pg == st.blocks[1].first
           rest == Rest(st.blocks)
<1>1. /\ SoundSpace(space) /\ SoundGroup(wr)
      /\ blocks \in Seq(Block) /\ Len(blocks) <= 1
      /\ SeqPages(blocks) \cap SpacePages(space) = {}
      /\ wr.group \in Seq(Block)
  BY WriterFacts DEF AllocatorInv
<1>2. /\ Request(req) /\ req.kind = "minimum" /\ req.size >= 2
      /\ req.after \notin SpacePages(space)
      /\ blocks = <<>> => req.starts = {}
      /\ blocks # <<>> =>
            /\ wr.group # <<>>
            /\ req.starts = {blocks[1].last + 1} \cup {wr.group[i].last + 1 : i \in DOMAIN wr.group}
            /\ req.after = wr.group[1].first
  BY GroupAsks DEF AsksFor
<1>3. st = Stocked(blocks, req)
  OBVIOUS
<1> HIDE DEF req, blocks
<1>4. StockedFor(blocks, st)
  BY <1>1, <1>2, <1>3, StockedPages
<1>5. CASE /\ blocks # <<>> /\ blocks[1] \in Block /\ CountPages(blocks[1]) > 1
           /\ st.blocks = <<blocks[1]>>
  <2> DEFINE a == blocks[1]
             c == PageBlock(a.first + 1, a.last)
  <2>1. a \in Block /\ CountPages(a) > 1 /\ st.blocks = <<a>> /\ st.blocks[1] = a
    BY <1>5
  <2> HIDE DEF a
  <2>2. Rest(<<a>>) = <<c>> /\ c.first = a.first + 1
    BY <2>1, RestOfOne
  <2> HIDE DEF c
  <2>3. rest # <<>> /\ rest[1] = c /\ pg = a.first
    BY <2>1, <2>2
  <2> QED
    BY <1>4, <2>2, <2>3 DEF a, blocks
<1>6. ASSUME blocks = <<>>, NEW b \in Block, st.blocks = <<b>>, Granted(req, b)
      PROVE  rest # <<>> /\ rest[1].first = pg + 1
  <2>1. CountPages(b) \in Nat /\ CountPages(b) > 1
    <3>1. CountPages(b) >= 2
      BY <1>2, <1>6 DEF Granted
    <3> QED
      BY <3>1, BlockFacts
  <2> DEFINE c == PageBlock(b.first + 1, b.last)
  <2>2. Rest(<<b>>) = <<c>> /\ c.first = b.first + 1
    BY <2>1, RestOfOne
  <2> HIDE DEF c
  <2>3. rest = <<c>> /\ rest[1] = c /\ pg = b.first
    BY <1>6, <2>2
  <2> QED
    BY <2>2, <2>3
<1>7. ASSUME blocks # <<>>, blocks[1] \in Block, CountPages(blocks[1]) = 1,
             NEW b \in Block, b.first = blocks[1].last + 1,
             st.blocks = <<PageBlock(blocks[1].first, b.last)>>
      PROVE  rest # <<>> /\ rest[1].first = pg + 1 /\ pg = blocks[1].first
  <2> DEFINE a == blocks[1]
             d == PageBlock(a.first, b.last)
             c == PageBlock(d.first + 1, d.last)
  <2>1. a \in Block /\ b.first = a.last + 1 /\ st.blocks = <<d>> /\ st.blocks[1] = d
    BY <1>7
  <2> HIDE DEF a
  <2>2. /\ a.first \in PageNumber /\ a.first \in Nat /\ a.last \in Nat /\ a.first <= a.last
        /\ b.first \in Nat /\ b.last \in Nat /\ b.first <= b.last /\ b.last \in PageNumber
    BY <2>1, BlockFacts
  <2>3. d \in Block /\ d.first = a.first /\ d.last = b.last
    <3>1. a.first <= b.last
      BY <2>1, <2>2
    <3> QED
      BY <2>2, <3>1, MadeBlock
  <2> HIDE DEF d
  <2>4. CountPages(d) > 1
    BY <2>1, <2>2, <2>3 DEF CountPages
  <2>5. Rest(<<d>>) = <<c>> /\ c.first = d.first + 1
    BY <2>3, <2>4, RestOfOne
  <2> HIDE DEF c
  <2>6. rest = <<c>> /\ rest[1] = c /\ pg = d.first
    BY <2>1, <2>5
  <2> QED
    BY <2>3, <2>5, <2>6 DEF a
<1>8. ASSUME blocks # <<>>, blocks[1] \in Block, CountPages(blocks[1]) = 1,
             NEW b \in Block, Taken(space, b, st.space), Granted(req, b),
             b.first # blocks[1].last + 1, st.blocks = <<blocks[1], b>>
      PROVE  /\ rest # <<>> /\ pg = blocks[1].first /\ rest[1].first # pg
             /\ rest[1].first > wr.group[1].first
             /\ RunsLow(rest) => \E i \in DOMAIN wr.group : rest[1].first = wr.group[i].last + 1
  <2> DEFINE a == blocks[1]
  <2>1. a \in Block /\ CountPages(a) = 1 /\ blocks = <<a>> /\ b.first # a.last + 1
        /\ st.blocks = <<a, b>> /\ st.blocks[1] = a
    BY <1>1, <1>8, FewBlocks
  <2>2. rest = <<b>>
    BY <1>8, RestOfTwo
  <2>3. rest # <<>> /\ rest[1] = b /\ Len(rest) = 1 /\ pg = a.first
    BY <2>1, <2>2
  <2>4. b.first # a.first
    <3>1. SeqPages(blocks) = Pages(a) /\ a.first \in Pages(a) /\ b.first \in Pages(b)
      BY <2>1, PagesOfFew, BlockFacts
    <3> QED
      BY <1>1, <1>8, <3>1 DEF Taken
  <2>5. /\ wr.group # <<>> /\ req.after = wr.group[1].first
        /\ b.first \in req.starts => \E i \in DOMAIN wr.group : b.first = wr.group[i].last + 1
    BY <1>2, <1>8
  <2>6. b.first \in req.starts \/ b.first > wr.group[1].first
    BY <1>8, <2>5 DEF Granted
  <2>7. \A i \in DOMAIN wr.group : wr.group[i].last + 1 > wr.group[1].first
    <3> TAKE i \in DOMAIN wr.group
    <3> DEFINE x == wr.group[i]
               y == wr.group[1]
    <3>1. x \in Block /\ y \in Block
      BY <1>1, <2>5
    <3>2. x.first >= y.first
      <4>1. x.first \in Nat /\ y.first \in Nat
        BY <3>1, BlockFacts
      <4>2. i # 1 => x.first > y.first
        BY <1>1, <2>5 DEF SoundGroup, OrderedGroup, OrderedBlocks
      <4> QED
        BY <4>1, <4>2
    <3> HIDE DEF x, y
    <3>3. x.first \in Nat /\ x.last \in Nat /\ x.first <= x.last /\ y.first \in Nat
      BY <3>1, BlockFacts
    <3>4. x.last + 1 > y.first
      BY <3>2, <3>3
    <3> QED
      BY <3>4 DEF x, y
  <2>8. b.first > wr.group[1].first
    BY <2>5, <2>6, <2>7
  <2>9. ASSUME RunsLow(rest)
        PROVE  \E i \in DOMAIN wr.group : b.first = wr.group[i].last + 1
    <3>1. CountPages(b) = 1
      BY <2>3, <2>9 DEF RunsLow
    <3>2. b.first \in req.starts
      BY <1>2, <1>8, <3>1 DEF Granted
    <3> QED
      BY <2>5, <3>2
  <2> QED
    BY <2>3, <2>4, <2>8, <2>9
<1>9. CASE blocks = <<>> /\ \E b \in Block : st.blocks = <<b>> /\ Taken(space, b, st.space) /\ Granted(req, b)
  BY <1>4, <1>6, <1>9 DEF blocks
<1>10. ASSUME blocks # <<>>, blocks[1] \in Block, CountPages(blocks[1]) = 1,
              NEW b \in Block, Taken(space, b, st.space), Granted(req, b),
              \/ /\ b.first = blocks[1].last + 1
                 /\ st.blocks = <<PageBlock(blocks[1].first, b.last)>>
              \/ /\ b.first # blocks[1].last + 1
                 /\ st.blocks = <<blocks[1], b>>
       PROVE  /\ rest # <<>> /\ pg = blocks[1].first
              /\ \/ rest[1].first = pg + 1
                 \/ /\ rest[1].first # pg
                    /\ rest[1].first > wr.group[1].first
                    /\ RunsLow(rest) => \E i \in DOMAIN wr.group : rest[1].first = wr.group[i].last + 1
  <2>1. CASE b.first = blocks[1].last + 1 /\ st.blocks = <<PageBlock(blocks[1].first, b.last)>>
    <3>1. rest # <<>> /\ rest[1].first = pg + 1 /\ pg = blocks[1].first
      BY <1>7, <1>10, <2>1
    <3> QED
      BY <3>1
  <2>2. CASE b.first # blocks[1].last + 1 /\ st.blocks = <<blocks[1], b>>
    BY <1>8, <1>10, <2>2
  <2> QED
    BY <1>10, <2>1, <2>2
<1>11. \/ /\ blocks # <<>> /\ blocks[1] \in Block /\ CountPages(blocks[1]) > 1
          /\ st.blocks = <<blocks[1]>> /\ st.space = space
       \/ /\ blocks = <<>>
          /\ \E b \in Block : /\ st.blocks = <<b>>
                              /\ Taken(space, b, st.space) /\ Granted(req, b)
       \/ /\ blocks # <<>> /\ blocks[1] \in Block /\ CountPages(blocks[1]) = 1
          /\ \E b \in Block :
                /\ Taken(space, b, st.space) /\ Granted(req, b)
                /\ \/ /\ b.first = blocks[1].last + 1
                      /\ st.blocks = <<PageBlock(blocks[1].first, b.last)>>
                   \/ /\ b.first # blocks[1].last + 1
                      /\ st.blocks = <<blocks[1], b>>
  BY <1>1, <1>2, <1>3, StockedCases
<1>12. CASE /\ blocks # <<>> /\ blocks[1] \in Block /\ CountPages(blocks[1]) = 1
            /\ \E b \in Block :
                /\ Taken(space, b, st.space) /\ Granted(req, b)
                /\ \/ /\ b.first = blocks[1].last + 1
                      /\ st.blocks = <<PageBlock(blocks[1].first, b.last)>>
                   \/ /\ b.first # blocks[1].last + 1
                      /\ st.blocks = <<blocks[1], b>>
  <2>1. /\ rest # <<>> /\ pg = blocks[1].first
        /\ \/ rest[1].first = pg + 1
           \/ /\ rest[1].first # pg
              /\ rest[1].first > wr.group[1].first
              /\ RunsLow(rest) => \E i \in DOMAIN wr.group : rest[1].first = wr.group[i].last + 1
    BY <1>10, <1>12
  <2>2. wr.group # <<>>
    BY <1>2, <1>12
  <2> QED
    BY <1>4, <2>1, <2>2 DEF blocks
<1> QED
  BY <1>5, <1>9, <1>11, <1>12

\* A writer that has written a page of a group.
WroteGroup(wr, rest, pg) ==
    [wr EXCEPT !.inventory = rest, !.mine = @ \cup {pg}, !.group = WithPage(wr.group, pg)]

\* What a writer is after write_group_page.
LEMMA WriterWithGroupPage ==
    ASSUME NEW wr \in PageWriter, NEW rest \in Seq(Block), NEW pg \in PageNumber
    PROVE  /\ WroteGroup(wr, rest, pg) \in PageWriter
           /\ WroteGroup(wr, rest, pg).blocks = wr.blocks
           /\ WroteGroup(wr, rest, pg).mine = wr.mine \cup {pg}
           /\ WroteGroup(wr, rest, pg).inventory = rest
           /\ WroteGroup(wr, rest, pg).group = WithPage(wr.group, pg)
           /\ WroteGroup(wr, rest, pg).known = wr.known
           /\ WroteGroup(wr, rest, pg).inGroup = wr.inGroup
<1> DEFINE ur == WroteGroup(wr, rest, pg)
           g == WithPage(wr.group, pg)
           vr == [wr EXCEPT !.inventory = rest]
           xr == [vr EXCEPT !.mine = @ \cup {pg}]
<1>1. g \in Seq(Block)
  <2>1. wr.group \in Seq(Block)
    BY DEF PageWriter
  <2> QED
    BY <2>1, GroupWithPage DEF Extended
<1>2. /\ vr \in PageWriter /\ vr.blocks = wr.blocks /\ vr.mine = wr.mine /\ vr.inventory = rest
      /\ vr.known = wr.known /\ vr.inGroup = wr.inGroup
  BY DEF PageWriter
<1>3. ur = [xr EXCEPT !.group = g]
  BY DEF PageWriter, WroteGroup
<1> HIDE DEF vr, ur, g
<1>4. vr.mine \cup {pg} \in SUBSET PageNumber
  BY <1>2 DEF PageWriter
<1>5. /\ xr \in PageWriter /\ xr.blocks = wr.blocks /\ xr.mine = wr.mine \cup {pg}
      /\ xr.inventory = rest /\ xr.known = wr.known /\ xr.inGroup = wr.inGroup
  BY <1>2, <1>4 DEF PageWriter
<1> HIDE DEF xr
<1>6. /\ ur \in PageWriter /\ ur.blocks = wr.blocks /\ ur.mine = wr.mine \cup {pg}
      /\ ur.inventory = rest /\ ur.known = wr.known /\ ur.inGroup = wr.inGroup
      /\ ur.group = g
  BY <1>1, <1>3, <1>5 DEF PageWriter
<1> QED
  BY <1>6 DEF ur, g

\* A group of unknown length is sound when it has taken a page.
LEMMA UnknownGroupGoesOn ==
    ASSUME AllocatorInv, NEW w \in Writer, NEW wr, wr = writers[w], wr.known = 0, wr.inGroup,
           NEW st, st = Stocked(wr.inventory, GroupRequest(wr.inventory, wr.group)),
           st.space.next <= MaxPage + 1,
           NEW ur, ur = WroteGroup(wr, Rest(st.blocks), st.blocks[1].first)
    PROVE  StockedFor(wr.inventory, st) /\ SoundGroup(ur)
<1> DEFINE rest == Rest(st.blocks)
           pg == st.blocks[1].first
           g == WithPage(wr.group, pg)
<1>1. /\ wr \in PageWriter /\ SoundGroup(wr) /\ wr.group \in Seq(Block)
      /\ wr.inventory \in Seq(Block) /\ Len(wr.inventory) <= 1
  BY WriterFacts
<1>2. /\ StockedFor(wr.inventory, st)
      /\ wr.inventory # <<>> => pg = wr.inventory[1].first
      /\ rest # <<>>
      /\ \/ rest[1].first = pg + 1
         \/ /\ rest[1].first # pg
            /\ wr.group # <<>>
            /\ rest[1].first > wr.group[1].first
            /\ RunsLow(rest) => \E i \in DOMAIN wr.group : rest[1].first = wr.group[i].last + 1
  BY UnknownRest
<1>3. pg \in PageNumber /\ rest \in Seq(Block) /\ Len(rest) <= 1
  BY <1>2 DEF StockedFor
<1>4. ur = WroteGroup(wr, rest, pg)
  OBVIOUS
<1> HIDE DEF rest, pg
<1>5. /\ ur.mine = wr.mine \cup {pg} /\ ur.inventory = rest
      /\ ur.group = g /\ ur.known = 0 /\ ur.inGroup
  BY <1>1, <1>3, <1>4, WriterWithGroupPage
<1>6. /\ g \in Seq(Block) /\ g # <<>>
      /\ wr.group = <<>> => Len(g) = 1 /\ g[1].first = pg /\ g[1].last = pg
      /\ wr.group # <<>> => g[1].first = wr.group[1].first
      /\ \A i \in DOMAIN g :
            \/ i \in DOMAIN wr.group /\ g[i].first = wr.group[i].first
            \/ g[i].first = pg
      /\ \A i \in DOMAIN wr.group :
            i \in DOMAIN g /\ (wr.group[i].last + 1 # pg => g[i].last = wr.group[i].last)
      /\ \E i \in DOMAIN g : g[i].last = pg
  <2>1. Extended(wr.group, pg, g)
    BY <1>1, <1>3, GroupWithPage
  <2> HIDE DEF g
  <2> QED
    BY <2>1 DEF Extended
<1> HIDE DEF g
<1>7. rest = <<rest[1]>> /\ rest[1] \in Block /\ SetOf(rest) = {rest[1]}
  <2>1. rest = <<rest[1]>> /\ rest[1] \in Block
    BY <1>2, <1>3, FewBlocks
  <2>2. SetOf(<<rest[1]>>) = {rest[1]}
    BY PagesOfFew
  <2> QED
    BY <2>1, <2>2
<1>8. pg \in Nat
  BY <1>3, PageFacts
<1>9. wr.group # <<>> =>
          /\ wr.group[1].first \in wr.mine /\ wr.group[1].first < pg
          /\ \A i \in DOMAIN wr.group : i # 1 => wr.group[i].first > wr.group[1].first
  <2>1. wr.group # <<>> => wr.inventory # <<>>
    BY <1>1 DEF SoundGroup, UnknownGroup, UnknownBlocks
  <2>2. wr.inventory # <<>> => SetOf(wr.inventory) = {wr.inventory[1]}
    <3>1. wr.inventory # <<>> => wr.inventory = <<wr.inventory[1]>>
      BY <1>1, FewBlocks
    <3>2. SetOf(<<wr.inventory[1]>>) = {wr.inventory[1]}
      BY PagesOfFew
    <3> QED
      BY <3>1, <3>2
  <2>3. wr.group # <<>> =>
          /\ wr.group[1].first \in wr.mine
          /\ \A i \in DOMAIN wr.group : i # 1 => wr.group[i].first > wr.group[1].first
          /\ \A b \in SetOf(wr.inventory) : b.first > wr.group[1].first
    BY <1>1 DEF SoundGroup, OrderedGroup, OrderedBlocks
  <2>4. wr.group # <<>> => wr.group[1] \in Block
    BY <1>1
  <2>5. wr.group # <<>> => wr.group[1].first \in Nat
    BY <2>4, BlockFacts
  <2>6. wr.group # <<>> => pg > wr.group[1].first
    BY <2>1, <2>2, <2>3, <1>2
  <2> QED
    BY <2>3, <2>5, <2>6, <1>8
<1>10. g[1].first \in Nat /\ g[1].first <= pg /\ rest[1].first > g[1].first
  <2>1. g[1] \in Block
    BY <1>6
  <2>2. g[1].first \in Nat /\ rest[1].first \in Nat
    BY <2>1, <1>7, BlockFacts
  <2>3. CASE wr.group = <<>>
    BY <1>2, <1>6, <1>8, <2>2, <2>3
  <2>4. CASE wr.group # <<>>
    BY <1>2, <1>6, <1>8, <1>9, <2>2, <2>4
  <2> QED
    BY <2>3, <2>4
<1>11. OrderedBlocks(g, rest, ur.mine)
  <2>1. g[1].first \in ur.mine
    BY <1>5, <1>6, <1>9
  <2>2. ASSUME NEW i \in DOMAIN g, i # 1
        PROVE  g[i].first > g[1].first
    <3>1. CASE wr.group = <<>>
      BY <1>6, <2>2, <3>1
    <3>2. CASE wr.group # <<>>
      <4>1. CASE i \in DOMAIN wr.group /\ g[i].first = wr.group[i].first
        BY <1>6, <1>9, <2>2, <3>2, <4>1
      <4>2. CASE g[i].first = pg
        BY <1>6, <1>8, <1>9, <1>10, <3>2, <4>2
      <4> QED
        BY <1>6, <4>1, <4>2
    <3> QED
      BY <3>1, <3>2
  <2>3. \A b \in SetOf(ur.inventory) : b.first > g[1].first
    BY <1>5, <1>7, <1>10
  <2> QED
    BY <1>5, <2>1, <2>2, <2>3 DEF OrderedBlocks
<1>12. UnknownBlocks(g, rest)
  <2>1. ASSUME RunsLow(rest)
        PROVE  \E i \in DOMAIN g : rest[1].first = g[i].last + 1
    <3>1. CASE rest[1].first = pg + 1
      BY <1>6, <3>1
    <3>2. CASE rest[1].first # pg /\ \E i \in DOMAIN wr.group : rest[1].first = wr.group[i].last + 1
      BY <1>6, <3>2
    <3> QED
      BY <1>2, <2>1, <3>1, <3>2
  <2> QED
    BY <1>2, <1>6, <2>1 DEF UnknownBlocks
<1> QED
  BY <1>2, <1>5, <1>11, <1>12 DEF SoundGroup, OrderedGroup, UnknownGroup, KnownGroup

\* A group of known length is sound when it has taken a page.
LEMMA KnownGroupGoesOn ==
    ASSUME AllocatorInv, NEW w \in Writer, NEW wr, wr = writers[w], wr.known # 0, wr.inGroup,
           wr.inventory # <<>>,
           NEW ur, ur = WroteGroup(wr, Rest(wr.inventory), wr.inventory[1].first)
    PROVE  SoundGroup(ur)
<1> DEFINE a == wr.inventory[1]
           pg == a.first
           rest == Rest(wr.inventory)
           g == WithPage(wr.group, pg)
           c == PageBlock(a.first + 1, a.last)
<1>1. /\ wr \in PageWriter /\ SoundGroup(wr) /\ wr.group \in Seq(Block)
      /\ wr.inventory \in Seq(Block) /\ Len(wr.inventory) <= 1
  BY WriterFacts
<1>2. wr.inventory = <<a>> /\ a \in Block
  BY <1>1, FewBlocks
<1>3. ur = WroteGroup(wr, rest, pg)
  OBVIOUS
<1> HIDE DEF a
<1>4. /\ a.first \in PageNumber /\ a.first \in Nat /\ a.last \in Nat /\ a.first <= a.last
      /\ CountPages(a) = a.last - a.first + 1
  BY <1>2, BlockFacts
<1>5. /\ rest \in Seq(Block) /\ Len(rest) <= 1
      /\ CountPages(a) = 1 => rest = <<>>
      /\ CountPages(a) > 1 => rest = <<c>> /\ c \in Block /\ c.first = pg + 1
                              /\ CountPages(c) = CountPages(a) - 1
  <2>1. /\ Rest(<<a>>) \in Seq(Block) /\ Len(Rest(<<a>>)) <= 1
        /\ CountPages(a) = 1 => Rest(<<a>>) = <<>>
        /\ CountPages(a) > 1 =>
              /\ Rest(<<a>>) = <<PageBlock(a.first + 1, a.last)>>
              /\ PageBlock(a.first + 1, a.last) \in Block
              /\ PageBlock(a.first + 1, a.last).first = a.first + 1
              /\ CountPages(PageBlock(a.first + 1, a.last)) = CountPages(a) - 1
    BY <1>2, RestOfOne
  <2> QED
    BY <1>2, <2>1
<1> HIDE DEF rest, c
<1>6. pg \in PageNumber /\ pg \in Nat
  BY <1>4
<1> HIDE DEF pg
<1>7. /\ ur.mine = wr.mine \cup {pg} /\ ur.inventory = rest
      /\ ur.group = g /\ ur.known = wr.known /\ ur.inGroup
  BY <1>1, <1>3, <1>5, <1>6, WriterWithGroupPage
<1>8. wr.group # <<>> =>
          /\ Len(wr.group) = 1 /\ pg = wr.group[1].last + 1
          /\ CountPages(wr.group[1]) + CountPages(a) = wr.known
          /\ wr.group[1].first \in wr.mine /\ wr.group[1] \in Block
  BY <1>1, <1>2 DEF SoundGroup, KnownGroup, OrderedGroup, OrderedBlocks, pg, a
<1>9. wr.group = <<>> => CountPages(a) = wr.known
  BY <1>1, <1>2 DEF SoundGroup, KnownGroup, a
<1>10. /\ g \in Seq(Block) /\ g # <<>>
       /\ wr.group = <<>> => Len(g) = 1 /\ g[1].first = pg /\ g[1].last = pg
       /\ wr.group # <<>> => g[1].first = wr.group[1].first
       /\ Len(wr.group) = 1 /\ wr.group[1].last + 1 = pg => Len(g) = 1 /\ g[1].last = pg
  <2>1. Extended(wr.group, pg, g)
    BY <1>1, <1>6, GroupWithPage
  <2> HIDE DEF g
  <2> QED
    BY <2>1 DEF Extended
<1> HIDE DEF g
<1>11. /\ Len(g) = 1 /\ g[1].last = pg /\ g[1].first \in Nat /\ g[1].first <= pg
       /\ g[1].first \in ur.mine
       /\ CountPages(g[1]) + CountPages(a) = wr.known + 1
  <2>1. CASE wr.group = <<>>
    <3>1. CountPages(g[1]) = 1
      BY <1>6, <1>10, <2>1 DEF CountPages
    <3> QED
      BY <1>4, <1>6, <1>7, <1>9, <1>10, <2>1, <3>1
  <2>2. CASE wr.group # <<>>
    <3> DEFINE x == wr.group[1]
    <3>1. /\ x.first \in Nat /\ x.last \in Nat /\ x.first <= x.last
          /\ CountPages(x) = x.last - x.first + 1
      BY <1>8, <2>2, BlockFacts
    <3>2. /\ pg = x.last + 1 /\ CountPages(x) + CountPages(a) = wr.known
          /\ g[1].first = x.first /\ g[1].last = pg /\ Len(g) = 1 /\ x.first \in wr.mine
      BY <1>8, <1>10, <2>2
    <3> HIDE DEF x
    <3>3. CountPages(g[1]) = CountPages(x) + 1
      BY <3>1, <3>2 DEF CountPages
    <3> QED
      BY <1>4, <1>7, <3>1, <3>2, <3>3
  <2> QED
    BY <2>1, <2>2
<1>12. CASE CountPages(a) = 1
  <2>1. rest = <<>> /\ CountPages(g[1]) = wr.known
    <3>1. CountPages(g[1]) \in Int
      BY <1>6, <1>11 DEF CountPages
    <3>2. wr.known \in Int
      BY <1>1, AllocatorAssumption DEF PageWriter
    <3> QED
      BY <1>5, <1>11, <1>12, <3>1, <3>2
  <2>2. SetOf(rest) = {}
    BY <2>1, PagesOfFew
  <2>3. OrderedGroup(ur)
    <3>1. \A i \in DOMAIN g : i = 1
      BY <1>10, <1>11
    <3> QED
      BY <1>7, <1>11, <2>2, <3>1 DEF OrderedGroup, OrderedBlocks
  <2> QED
    BY <1>7, <1>11, <2>1, <2>3 DEF SoundGroup, UnknownGroup, UnknownBlocks, KnownGroup
<1>13. CASE CountPages(a) # 1
  <2>1. rest = <<c>> /\ c \in Block /\ c.first = pg + 1 /\ CountPages(c) = CountPages(a) - 1
    BY <1>4, <1>5, <1>13
  <2>2. SetOf(rest) = {c} /\ rest # <<>> /\ rest[1] = c
    BY <2>1, PagesOfFew
  <2>3. CountPages(g[1]) + CountPages(c) = wr.known
    <3>1. CountPages(g[1]) \in Int
      BY <1>6, <1>11 DEF CountPages
    <3>2. wr.known \in Int
      BY <1>1, AllocatorAssumption DEF PageWriter
    <3>3. CountPages(a) \in Int
      BY <1>4
    <3> QED
      BY <1>11, <2>1, <3>1, <3>2, <3>3
  <2>4. OrderedGroup(ur)
    <3>1. \A i \in DOMAIN g : i = 1
      BY <1>10, <1>11
    <3>2. c.first > g[1].first
      BY <1>6, <1>11, <2>1
    <3> QED
      BY <1>7, <1>11, <2>2, <3>1, <3>2 DEF OrderedGroup, OrderedBlocks
  <2> QED
    BY <1>7, <1>11, <2>1, <2>2, <2>3, <2>4 DEF SoundGroup, UnknownGroup, UnknownBlocks, KnownGroup
<1> QED
  BY <1>12, <1>13

\* write_group_page.
LEMMA WriteGroupPageKeeps ==
    ASSUME AllocatorInv, NEW w \in Writer, WriteGroupPage(w)
    PROVE  AllocatorInv'
<1> DEFINE wr == writers[w]
           st == IF wr.known = 0
                 THEN Stocked(wr.inventory, GroupRequest(wr.inventory, wr.group))
                 ELSE [blocks |-> wr.inventory, space |-> space]
           rest == Rest(st.blocks)
           pg == st.blocks[1].first
           ur == WroteGroup(wr, rest, pg)
<1>1. /\ wr.inGroup
      /\ wr.known = 0 \/ wr.inventory # <<>>
      /\ st.space.next <= MaxPage + 1
      /\ space' = st.space
      /\ writers' = [writers EXCEPT ![w] = ur]
      /\ WritePageAt(pg)
      /\ UNCHANGED <<used, overflow, goesOn>>
  BY DEF WriteGroupPage, WroteGroup
<1>2. /\ wr \in PageWriter
      /\ wr.inventory \in Seq(Block) /\ Len(wr.inventory) <= 1
      /\ wr.mine \subseteq HeaderPage..fileLast
      /\ SoundWriter(wr) /\ SoundGroup(wr)
      /\ SeqPages(wr.blocks) \cap SpacePages(space) = {}
      /\ SeqPages(wr.inventory) \cap SpacePages(space) = {}
      /\ wr.mine \cap SpacePages(space) = {}
      /\ SoundSpace(space)
  BY WriterFacts DEF AllocatorInv
<1>3. st = IF wr.known = 0
           THEN Stocked(wr.inventory, GroupRequest(wr.inventory, wr.group))
           ELSE [blocks |-> wr.inventory, space |-> space]
  OBVIOUS
<1>4. ur = WroteGroup(wr, Rest(st.blocks), st.blocks[1].first) /\ wr = writers[w]
  OBVIOUS
<1> HIDE DEF wr, st, ur
<1>5. StockedFor(wr.inventory, st) /\ SoundGroup(ur)
  <2>1. CASE wr.known = 0
    <3>1. st = Stocked(wr.inventory, GroupRequest(wr.inventory, wr.group))
      BY <1>3, <2>1
    <3> QED
      BY <1>1, <1>4, <2>1, <3>1, UnknownGroupGoesOn
  <2>2. CASE wr.known # 0
    <3>1. st = [blocks |-> wr.inventory, space |-> space]
      BY <1>3, <2>2
    <3>2. st.blocks = wr.inventory /\ wr.inventory # <<>>
      BY <1>1, <2>2, <3>1
    <3>3. StockedFor(wr.inventory, st)
      BY <1>2, <3>1, <3>2, StockedKnown
    <3>4. SoundGroup(ur)
      BY <1>1, <1>4, <2>2, <3>2, KnownGroupGoesOn
    <3> QED
      BY <3>3, <3>4
  <2> QED
    BY <2>1, <2>2
<1>6. /\ pg \in PageNumber
      /\ rest \in Seq(Block) /\ Len(rest) <= 1
      /\ SoundSpace(space')
      /\ pg \in SeqPages(wr.inventory) \cup SpacePages(space)
      /\ pg \notin SeqPages(rest) \cup SpacePages(space')
      /\ SeqPages(rest) \cap SpacePages(space') = {}
      /\ \A p : p \in SeqPages(rest) \cup SpacePages(space') \cup {pg}
                    <=> p \in SeqPages(wr.inventory) \cup SpacePages(space)
  BY <1>1, <1>5 DEF StockedFor
<1> HIDE DEF rest, pg
<1>7. ur = WroteGroup(wr, rest, pg)
  BY <1>4 DEF rest, pg
<1>8. /\ ur \in PageWriter /\ ur.blocks = wr.blocks /\ ur.mine = wr.mine \cup {pg}
      /\ ur.inventory = rest
  BY <1>2, <1>6, <1>7, WriterWithGroupPage
<1>9. /\ SeqPages(wr.blocks) \cap SeqPages(wr.inventory) = {}
      /\ SeqPages(wr.blocks) \cap wr.mine = {}
      /\ SeqPages(wr.inventory) \cap wr.mine = {}
      /\ Len(wr.blocks) <= 1
  BY <1>2 DEF SoundWriter
<1>10. SoundWriter(ur)
  BY <1>2, <1>6, <1>8, <1>9 DEF SoundWriter
<1>11. /\ fileLast' \in PageNumber /\ fileLast <= fileLast'
       /\ ur.mine \subseteq HeaderPage..fileLast'
  BY <1>1, <1>2, <1>6, <1>8, FileGrows
<1>12. /\ HeldBy(wr) = SeqPages(wr.blocks) \cup wr.mine \cup SeqPages(wr.inventory)
       /\ HeldBy(ur) = SeqPages(wr.blocks) \cup (wr.mine \cup {pg}) \cup SeqPages(rest)
  BY <1>8 DEF HeldBy
<1>13. /\ HeldBy(ur) \cap SpacePages(space') = {}
       /\ HeldBy(ur) \cap {} = {} /\ {} \cap SpacePages(space') = {}
       /\ \A p : p \in HeldBy(ur) \cup SpacePages(space') \cup {}
                     <=> p \in HeldBy(wr) \cup SpacePages(space)
  BY <1>2, <1>6, <1>9, <1>12
<1>14. used' = used \cup {} /\ {} \subseteq wr.mine
  BY <1>1
<1> QED
  BY <1>1, <1>4, <1>5, <1>6, <1>10, <1>11, <1>13, <1>14, WriterStepKeeps

-----------------------------------------------------------------------------
(* Steps of the space and of the header.                                   *)

\* Steps that leave the writers alone keep the invariant when what they do to the
\* space and to what is kept is sound and moves pages only between these.
LEMMA OtherStepKeeps ==
    ASSUME AllocatorInv, UNCHANGED writers, SoundSpace(space'), HeaderBlocks', KeptApart',
           used' \subseteq used, fileLast' \in PageNumber, fileLast <= fileLast',
           SpacePages(space') \cap Kept' = {},
           \A p : p \in SpacePages(space') \cup Kept' <=> p \in SpacePages(space) \cup Kept
    PROVE  AllocatorInv'
<1>1. SoundWriters'
  BY DEF AllocatorInv, SoundWriters
<1>2. PagesApart'
  <2>1. \A w \in Writer : HeldBy(writers'[w]) \cap (Kept' \cup SpacePages(space')) = {}
    BY DEF AllocatorInv, PagesApart
  <2>2. \A v, w \in Writer : v # w => HeldBy(writers'[v]) \cap HeldBy(writers'[w]) = {}
    BY DEF AllocatorInv, PagesApart
  <2> QED
    BY <2>1, <2>2 DEF PagesApart
<1>3. NoPageLost'
  <2>1. \A p \in Nat \ {0} : p \in Kept \cup SpacePages(space) \/ \E w \in Writer : p \in HeldBy(writers[w])
    BY DEF AllocatorInv, NoPageLost
  <2>2. \A p \in Nat \ {0} :
            p \in Kept' \cup SpacePages(space') \/ \E w \in Writer : p \in HeldBy(writers'[w])
    BY <2>1
  <2> QED
    BY <2>2 DEF NoPageLost
<1>4. fileLast \in PageNumber /\ HeaderPage..fileLast \subseteq HeaderPage..fileLast'
  BY PageFacts DEF AllocatorInv
<1>5. WrittenPages'
  BY <1>4 DEF AllocatorInv, WrittenPages
<1>6. used' \subseteq PageNumber
  BY DEF AllocatorInv
<1> QED
  BY <1>1, <1>2, <1>3, <1>5, <1>6 DEF AllocatorInv

\* Where the space and the rest are apart.
LEMMA KeptFacts ==
    ASSUME AllocatorInv
    PROVE  /\ SoundSpace(space) /\ HeaderBlocks /\ KeptApart
           /\ SpacePages(space) \cap ({HeaderPage} \cup used \cup PagesOf(overflow) \cup PagesOf(goesOn)) = {}
           /\ used \in SUBSET PageNumber /\ PagesOf(overflow) \in SUBSET PageNumber /\ PagesOf(goesOn) \in SUBSET PageNumber
           /\ fileLast \in PageNumber /\ fileLast \in Nat
<1>1. overflow \in SUBSET Block /\ goesOn \in SUBSET Block
  BY DEF AllocatorInv, HeaderBlocks
<1>2. PagesOf(overflow) \in SUBSET PageNumber /\ PagesOf(goesOn) \in SUBSET PageNumber
  BY <1>1, PagesOfBlocks
<1> QED
  BY <1>2, PageFacts DEF AllocatorInv, PagesApart, Kept

\* add_free_blocks for pages of old segments.
LEMMA AddFreeBlocksKeeps ==
    ASSUME AllocatorInv, NEW P \in SUBSET used, AddFreeBlocks(P)
    PROVE  AllocatorInv'
<1>1. /\ used' = used \ P /\ space' = WithFree(space, P)
      /\ UNCHANGED <<writers, overflow, goesOn, fileLast>>
  BY DEF AddFreeBlocks
<1>2. P \in SUBSET PageNumber /\ P \cap SpacePages(space) = {} /\ SoundSpace(space) /\ fileLast \in Nat
  BY KeptFacts
<1>3. SoundSpace(WithFree(space, P)) /\ SpacePages(WithFree(space, P)) = SpacePages(space) \cup P
  BY <1>2, WithFreeSpace
<1>4. SoundSpace(space') /\ SpacePages(space') = SpacePages(space) \cup P
  BY <1>1, <1>3
<1>5. HeaderBlocks' /\ KeptApart'
  BY <1>1, KeptFacts DEF HeaderBlocks, KeptApart
<1>6. Kept' = Kept \ P
  BY <1>1, KeptFacts DEF Kept, KeptApart
<1>7. SpacePages(space) \cap Kept = {} /\ P \subseteq Kept
  BY KeptFacts DEF Kept
<1>8. SpacePages(space') \cap Kept' = {}
  BY <1>4, <1>6, <1>7
<1>9. \A p : p \in SpacePages(space') \cup Kept' <=> p \in SpacePages(space) \cup Kept
  BY <1>4, <1>6, <1>7
<1>10. used' \subseteq used /\ fileLast' \in PageNumber /\ fileLast <= fileLast'
  BY <1>1, <1>2, KeptFacts
<1> QED
  BY <1>1, <1>4, <1>5, <1>8, <1>9, <1>10, OtherStepKeeps

\* The block that the header's overflow is given, and where the file ends then.
LEMMA OverflowBlock ==
    ASSUME AllocatorInv, NEW more \in HeaderOverflows, WriteHeaderOverflow(more)
    PROVE  \E b \in Block :
              /\ goesOn' = {b} /\ Taken(space, b, space')
              /\ fileLast' \in PageNumber /\ fileLast <= fileLast'
              /\ more.whole /\ more.pages = PagesPerBlock => b.last <= fileLast'
<1> DEFINE req == ExactSize(more.pages)
           got == GetBlock(space, req)
           full == got.block.first + more.pages - (IF more.whole THEN 1 ELSE 2)
           b == got.block
<1>1. /\ got.space.next <= MaxPage + 1 /\ full <= MaxPage
      /\ space' = got.space
      /\ goesOn' = {got.block}
      /\ WritePageAt(full)
  BY DEF WriteHeaderOverflow
<1>2. more.pages \in Nat \ {0}
  BY AllocatorAssumption
<1>3. Request(req) /\ req.after = 0 /\ req.kind = "exact" /\ req.size = more.pages
  BY <1>2 DEF Request, ExactSize
<1>4. got = GetBlock(space, req)
  OBVIOUS
<1>5. SoundSpace(space) /\ fileLast \in PageNumber
  BY KeptFacts
<1> HIDE DEF req, got
<1>6. Taken(space, b, got.space) /\ Granted(req, b)
  <2>1. req.after \notin SpacePages(space)
    BY <1>3, <1>5, ZeroIsNoPage
  <2> QED
    BY <1>1, <1>3, <1>4, <1>5, <2>1, GotBlock
<1>7. b \in Block
  BY <1>6 DEF Taken
<1> HIDE DEF b
<1>8. full = b.first + more.pages - (IF more.whole THEN 1 ELSE 2)
  BY DEF b
<1> HIDE DEF full
<1>9. b.first \in Nat /\ b.last \in Nat /\ CountPages(b) = b.last - b.first + 1
  BY <1>7, BlockFacts
<1>10. full \in Int
  BY <1>2, <1>8, <1>9
<1>11. fileLast' \in PageNumber /\ fileLast <= fileLast' /\ full <= fileLast'
  BY <1>1, <1>5, <1>10, PageFacts DEF WritePageAt
<1>12. ASSUME more.whole, more.pages = PagesPerBlock
       PROVE  b.last <= fileLast'
  <2>1. CountPages(b) = more.pages
    BY <1>3, <1>6, <1>12 DEF Granted
  <2>2. full = b.last
    BY <1>2, <1>8, <1>9, <1>12, <2>1
  <2> QED
    BY <1>11, <2>2
<1> QED
  BY <1>1, <1>6, <1>7, <1>11, <1>12 DEF b

\* write_header, the part that does not fit.
LEMMA WriteHeaderOverflowKeeps ==
    ASSUME AllocatorInv, NEW more \in HeaderOverflows, WriteHeaderOverflow(more)
    PROVE  AllocatorInv'
<1>1. goesOn = {} /\ UNCHANGED <<writers, used, overflow>>
  BY DEF WriteHeaderOverflow
<1>2. PICK b \in Block : /\ goesOn' = {b} /\ Taken(space, b, space')
                         /\ fileLast' \in PageNumber /\ fileLast <= fileLast'
  BY OverflowBlock
<1>3. /\ Pages(b) \subseteq SpacePages(space)
      /\ SoundSpace(space') /\ SpacePages(space') = SpacePages(space) \ Pages(b)
  BY <1>2 DEF Taken
<1>4. PagesOf(goesOn) = {} /\ PagesOf(goesOn') = Pages(b)
  BY <1>1, <1>2 DEF PagesOf
<1>5. /\ SpacePages(space) \cap ({HeaderPage} \cup used \cup PagesOf(overflow)) = {}
      /\ HeaderBlocks /\ KeptApart
  BY KeptFacts
<1>6. HeaderBlocks'
  BY <1>1, <1>2, <1>5 DEF HeaderBlocks
<1>7. KeptApart'
  BY <1>1, <1>3, <1>4, <1>5 DEF KeptApart
<1>8. Kept' = Kept \cup Pages(b)
  BY <1>1, <1>4 DEF Kept
<1>9. SpacePages(space) \cap Kept = {}
  BY KeptFacts DEF Kept
<1>10. SpacePages(space') \cap Kept' = {}
  BY <1>3, <1>8, <1>9
<1>11. \A p : p \in SpacePages(space') \cup Kept' <=> p \in SpacePages(space) \cup Kept
  BY <1>3, <1>8
<1>12. used' \subseteq used
  BY <1>1
<1> QED
  BY <1>1, <1>2, <1>3, <1>6, <1>7, <1>10, <1>11, <1>12, OtherStepKeeps

\* write_header, the header page.
LEMMA WriteHeaderKeeps ==
    ASSUME AllocatorInv, WriteHeader
    PROVE  AllocatorInv'
<1> DEFINE P == PagesOf(overflow)
<1>1. /\ overflow' = goesOn /\ goesOn' = {}
      /\ space' = IF overflow = {} THEN space ELSE WithFree(space, P)
      /\ UNCHANGED <<writers, used, fileLast>>
  BY DEF WriteHeader
<1>2. /\ SoundSpace(space) /\ HeaderBlocks /\ KeptApart
      /\ SpacePages(space) \cap ({HeaderPage} \cup used \cup PagesOf(overflow) \cup PagesOf(goesOn)) = {}
      /\ PagesOf(overflow) \in SUBSET PageNumber
      /\ fileLast \in PageNumber /\ fileLast \in Nat
  BY KeptFacts
<1>3. overflow = {} => P = {}
  BY DEF PagesOf
<1> HIDE DEF P
<1>4. P \in SUBSET PageNumber /\ P \cap SpacePages(space) = {}
  BY <1>2 DEF P
<1>5. SoundSpace(WithFree(space, P)) /\ SpacePages(WithFree(space, P)) = SpacePages(space) \cup P
  BY <1>2, <1>4, WithFreeSpace
<1>6. SoundSpace(space') /\ SpacePages(space') = SpacePages(space) \cup P
  BY <1>1, <1>2, <1>3, <1>5
<1>7. PagesOf({}) = {}
  BY DEF PagesOf
<1>8. PagesOf(overflow') = PagesOf(goesOn) /\ PagesOf(goesOn') = {}
  BY <1>1, <1>7
<1>9. HeaderBlocks'
  BY <1>1, <1>2 DEF HeaderBlocks
<1>10. KeptApart'
  BY <1>1, <1>2, <1>8 DEF KeptApart
<1>11. Kept' = Kept \ P /\ P \subseteq Kept
  BY <1>1, <1>2, <1>8 DEF Kept, KeptApart, P
<1>12. SpacePages(space) \cap Kept = {}
  BY <1>2 DEF Kept
<1>13. SpacePages(space') \cap Kept' = {}
  BY <1>6, <1>11, <1>12
<1>14. \A p : p \in SpacePages(space') \cup Kept' <=> p \in SpacePages(space) \cup Kept
  BY <1>6, <1>11
<1>15. used' \subseteq used /\ fileLast' \in PageNumber /\ fileLast <= fileLast'
  BY <1>1, <1>2
<1> QED
  BY <1>1, <1>6, <1>9, <1>10, <1>13, <1>14, <1>15, OtherStepKeeps

\* Among pages there is a last one.
LEMMA LastPage ==
    ASSUME NEW P \in SUBSET PageNumber, P # {}
    PROVE  \E p \in P : \A q \in P : q <= p
<1> DEFINE rooms == {MaxPage - p : p \in P}
<1>1. rooms \in SUBSET Nat /\ rooms # {}
  <2>1. \A p \in P : p \in Nat /\ p <= MaxPage /\ MaxPage \in Nat
    BY PageFacts
  <2>2. \A p \in P : MaxPage - p \in Nat
    BY <2>1
  <2>3. rooms \in SUBSET Nat
    BY <2>2
  <2>4. PICK p \in P : TRUE
    OBVIOUS
  <2>5. MaxPage - p \in rooms
    OBVIOUS
  <2> QED
    BY <2>3, <2>5
<1>2. PICK n \in rooms : \A m \in rooms : n <= m
  <2> HIDE DEF rooms
  <2> QED
    BY <1>1, LeastNumber
<1>3. PICK p \in P : n = MaxPage - p
  OBVIOUS
<1>4. \A q \in P : q <= p
  <2> TAKE q \in P
  <2>1. MaxPage - p <= MaxPage - q
    BY <1>2, <1>3
  <2> QED
    BY <2>1, PageFacts
<1> QED
  BY <1>4

\* Opening the file, when the overflow of its header is in it.
LEMMA ReopenKeeps ==
    ASSUME AllocatorInv, ReopenFile, OverflowIsInFile
    PROVE  AllocatorInv'
<1>1. PICK lost \in SUBSET used :
        LET kept == used \ lost
            inUse == {HeaderPage} \cup kept \cup PagesOf(overflow)
            last == CHOOSE p \in inUse : \A q \in inUse : q <= p
            end == IF fileLast > last THEN fileLast ELSE last
        IN  /\ used' = kept
            /\ space' = [free |-> Consolidated((1..end) \ inUse), recent |-> {},
                         next |-> fileLast + 1]
            /\ writers' = [w \in Writer |-> FreshWriter]
            /\ goesOn' = {}
            /\ UNCHANGED <<overflow, fileLast>>
  BY DEF ReopenFile
<1> DEFINE kept == used \ lost
           inUse == {HeaderPage} \cup kept \cup PagesOf(overflow)
           last == CHOOSE p \in inUse : \A q \in inUse : q <= p
           end == IF fileLast > last THEN fileLast ELSE last
           blocks == Consolidated((1..end) \ inUse)
           unused == (1..fileLast) \ inUse
<1>2. /\ used' = kept
      /\ space' = [free |-> blocks, recent |-> {}, next |-> fileLast + 1]
      /\ writers' = [w \in Writer |-> FreshWriter]
      /\ goesOn' = {}
      /\ UNCHANGED <<overflow, fileLast>>
  BY <1>1
<1>3. /\ HeaderBlocks /\ KeptApart
      /\ used \in SUBSET PageNumber /\ PagesOf(overflow) \in SUBSET PageNumber
      /\ fileLast \in PageNumber /\ fileLast \in Nat
  BY KeptFacts
<1>4. inUse \subseteq 1..fileLast /\ inUse \in SUBSET PageNumber /\ inUse # {}
  <2>1. HeaderPage = 1 /\ PageNumber = 1..MaxPage /\ MaxPage \in Nat
    BY PageFacts
  <2>2. used \subseteq HeaderPage..fileLast
    BY DEF AllocatorInv, WrittenPages
  <2>3. kept \subseteq 1..fileLast
    BY <2>1, <2>2
  <2>4. PagesOf(overflow) \subseteq 1..fileLast
    BY <2>1 DEF OverflowIsInFile
  <2>5. 1 \in 1..fileLast
    BY <1>3, <2>1
  <2>6. HeaderPage \in inUse
    OBVIOUS
  <2>7. inUse \subseteq 1..fileLast
    <3> HIDE DEF kept
    <3> QED
      BY <2>1, <2>3, <2>4, <2>5
  <2>8. 1..fileLast \subseteq PageNumber
    BY <1>3, <2>1
  <2> HIDE DEF inUse
  <2> QED
    BY <2>6, <2>7, <2>8
<1>5. end = fileLast
  <2> HIDE DEF inUse
  <2>1. \E p \in inUse : \A q \in inUse : q <= p
    BY <1>4, LastPage
  <2>2. last \in inUse
    BY <2>1
  <2> HIDE DEF last
  <2>3. last \in Nat /\ last <= fileLast
    BY <1>3, <1>4, <2>2
  <2> QED
    BY <1>3, <2>3
<1>6. blocks = Consolidated(unused)
  BY <1>5
<1>7. unused \in SUBSET PageNumber
  BY <1>3, PageFacts
<1> HIDE DEF end, blocks, unused
<1>8. /\ blocks \subseteq Block /\ PagesOf(blocks) = unused
      /\ \A a, b \in blocks : Pages(a) \cap Pages(b) # {} => a = b
  BY <1>6, <1>7, ConsolidatedBlocks
<1>9. space'.free = blocks /\ space'.recent = {} /\ space'.next = fileLast + 1
  BY <1>2
<1>10. fileLast + 1 \in 1..MaxPage + 1 /\ fileLast + 1 \in Nat
  BY <1>3, PageFacts
<1>11. SoundSpace(space')
  <2>1. space' \in [free : SUBSET Block, recent : SUBSET SUBSET PageNumber, next : 1..MaxPage + 1]
    BY <1>2, <1>8, <1>10
  <2>2. \A p \in unused : p < fileLast + 1
    BY <1>3 DEF unused
  <2> QED
    BY <1>8, <1>9, <2>1, <2>2 DEF SoundSpace
<1>12. \A p : p \in SpacePages(space') <=> p \in unused \/ (p \in Nat /\ p > fileLast)
  <2>1. \A p : p \in SpacePages(space') <=>
            \/ p \in PagesOf(space'.free) \/ p \in UNION space'.recent
            \/ p \in Nat /\ p >= space'.next
    <3>1. space'.next \in Nat
      BY <1>9, <1>10
    <3> QED
      BY <3>1, InSpace
  <2>2. \A p \in Nat : p >= fileLast + 1 <=> p > fileLast
    BY <1>3
  <2> QED
    BY <1>8, <1>9, <2>1, <2>2
<1>13. PagesOf(goesOn') = {}
  BY <1>2 DEF PagesOf
<1>14. Kept' = inUse
  BY <1>2, <1>13 DEF Kept
<1>15. KeptApart'
  BY <1>2, <1>3, <1>13 DEF KeptApart
<1>16. HeaderBlocks'
  BY <1>2, <1>3 DEF HeaderBlocks
<1>17. /\ \A w \in Writer : writers'[w] = FreshWriter
       /\ FreshWriter \in PageWriter /\ SoundWriter(FreshWriter) /\ SoundGroup(FreshWriter)
       /\ HeldBy(FreshWriter) = {} /\ FreshWriter.mine = {}
  BY <1>2, FreshIsSound
<1>18. SoundWriters'
  <2>1. writers' \in [Writer -> PageWriter]
    BY <1>2, <1>17
  <2> QED
    BY <1>17, <2>1 DEF SoundWriters
<1>19. PagesApart'
  <2>1. SpacePages(space') \cap inUse = {}
    BY <1>3, <1>4, <1>12 DEF unused
  <2>2. \A w \in Writer : HeldBy(writers'[w]) = {}
    BY <1>17
  <2> QED
    BY <1>14, <2>1, <2>2 DEF PagesApart
<1>20. NoPageLost'
  <2>1. \A p \in Nat \ {0} : p \in inUse \/ p \in SpacePages(space')
    BY <1>3, <1>12 DEF unused
  <2> QED
    BY <1>14, <2>1 DEF NoPageLost
<1>21. WrittenPages' /\ used' \subseteq PageNumber
  <2>1. kept \subseteq HeaderPage..fileLast
    BY DEF AllocatorInv, WrittenPages
  <2> QED
    BY <1>2, <1>3, <1>17, <2>1 DEF WrittenPages
<1> QED
  BY <1>2, <1>3, <1>11, <1>15, <1>16, <1>18, <1>19, <1>20, <1>21 DEF AllocatorInv

-----------------------------------------------------------------------------
(* The invariant.                                                          *)

\* A new file: the header, and everything behind it.
LEMMA InitIsSound ==
    ASSUME AllocatorInit
    PROVE  AllocatorInv /\ OverflowIsInFile
<1>1. /\ space = [free |-> {}, recent |-> {}, next |-> HeaderPage + 1]
      /\ writers = [w \in Writer |-> FreshWriter]
      /\ used = {} /\ overflow = {} /\ goesOn = {} /\ fileLast = HeaderPage
  BY DEF AllocatorInit
<1>2. space.free = {} /\ space.recent = {} /\ space.next = 2
  BY <1>1 DEF HeaderPage
<1>3. PagesOf({}) = {}
  BY DEF PagesOf
<1>4. HeaderPage = 1 /\ MaxPage \in Nat \ {0} /\ PageNumber = 1..MaxPage
  BY AllocatorAssumption DEF HeaderPage, PageNumber
<1>5. SoundSpace(space)
  <2>1. space \in [free : SUBSET Block, recent : SUBSET SUBSET PageNumber, next : 1..MaxPage + 1]
    BY <1>1, <1>4
  <2> QED
    BY <1>2, <1>3, <2>1 DEF SoundSpace
<1>6. \A p : p \in SpacePages(space) <=> p \in Nat /\ p >= 2
  <2>1. space.next \in Nat
    BY <1>2
  <2> QED
    BY <1>2, <1>3, <2>1, InSpace
<1>7. Kept = {1}
  BY <1>1, <1>3, <1>4 DEF Kept
<1>8. /\ \A w \in Writer : writers[w] = FreshWriter
      /\ FreshWriter \in PageWriter /\ SoundWriter(FreshWriter) /\ SoundGroup(FreshWriter)
      /\ HeldBy(FreshWriter) = {} /\ FreshWriter.mine = {}
  BY <1>1, FreshIsSound
<1>9. SoundWriters
  <2>1. writers \in [Writer -> PageWriter]
    BY <1>1, <1>8
  <2> QED
    BY <1>8, <2>1 DEF SoundWriters
<1>10. used \subseteq PageNumber /\ fileLast \in PageNumber
  BY <1>1, <1>4
<1>11. HeaderBlocks
  BY <1>1 DEF HeaderBlocks
<1>12. KeptApart
  BY <1>1, <1>3 DEF KeptApart
<1>13. PagesApart
  BY <1>6, <1>7, <1>8 DEF PagesApart
<1>14. NoPageLost
  BY <1>6, <1>7 DEF NoPageLost
<1>15. WrittenPages
  BY <1>1, <1>8 DEF WrittenPages
<1>16. OverflowIsInFile
  BY <1>1, <1>3 DEF OverflowIsInFile
<1> QED
  BY <1>5, <1>9, <1>10, <1>11, <1>12, <1>13, <1>14, <1>15, <1>16 DEF AllocatorInv

\* Every step keeps the invariant, opening included when the overflow of the header
\* is in the file.
LEMMA StepKeeps ==
    ASSUME AllocatorInv, [NextInFile]_allocatorVars
    PROVE  AllocatorInv'
<1>1. CASE \E w \in Writer : WriterStep(w)
  <2>1. PICK w \in Writer : WriterStep(w)
    BY <1>1
  <2>2. CASE WritePage(w)
    BY <2>2, WritePageKeeps
  <2>3. CASE \E known \in 0..MaxKnown : BeginGroup(w, known)
    BY <2>3, BeginGroupKeeps
  <2>4. CASE WriteGroupPage(w)
    BY <2>4, WriteGroupPageKeeps
  <2>5. CASE EndGroup(w)
    BY <2>5, EndGroupKeeps
  <2>6. CASE End(w)
    BY <2>6, EndKeeps
  <2> QED
    BY <2>1, <2>2, <2>3, <2>4, <2>5, <2>6 DEF WriterStep
<1>2. CASE \E P \in SUBSET used : AddFreeBlocks(P)
  BY <1>2, AddFreeBlocksKeeps
<1>3. CASE \E more \in HeaderOverflows : WriteHeaderOverflow(more)
  BY <1>3, WriteHeaderOverflowKeeps
<1>4. CASE WriteHeader
  BY <1>4, WriteHeaderKeeps
<1>5. CASE ReopenFile /\ OverflowIsInFile
  BY <1>5, ReopenKeeps
<1>6. CASE UNCHANGED allocatorVars
  BY <1>6 DEF allocatorVars, AllocatorInv, SoundWriters, HeaderBlocks, KeptApart, PagesApart, NoPageLost,
              WrittenPages, Kept
<1> QED
  BY <1>1, <1>2, <1>3, <1>4, <1>5, <1>6 DEF NextInFile, AllocatorNext

\* The space, the page writers and what is kept share all pages among them and
\* hold them in lists that are sound, as long as no file is opened that ends
\* within the overflow of its header.
THEOREM AllocatorInductive == SpecInFile => []AllocatorInv
<1>1. AllocatorInit => AllocatorInv
  BY InitIsSound
<1>2. AllocatorInv /\ [NextInFile]_allocatorVars => AllocatorInv'
  BY StepKeeps
<1> QED
  BY <1>1, <1>2, PTL DEF SpecInFile

-----------------------------------------------------------------------------
(* What follows from it.                                                   *)

\* A set whose members are all the same has none or one.
LEMMA AtMostOne ==
    ASSUME NEW S, \A a, b \in S : a = b
    PROVE  /\ Cardinality(S) \in {0, 1}
           /\ Cardinality(S) = 1 <=> \E a \in S : TRUE
<1>1. CASE S = {}
  BY <1>1, FS_EmptySet
<1>2. CASE S # {}
  <2>1. PICK a \in S : TRUE
    BY <1>2
  <2>2. S = {a}
    BY <2>1
  <2>3. Cardinality({a}) = 1
    BY FS_Singleton
  <2> QED
    BY <2>1, <2>2, <2>3
<1> QED
  BY <1>1, <1>2

\* What has a page holds it once, and is the only one of its kind that does.
LEMMA OneOfAKind ==
    ASSUME AllocatorInv, NEW p \in Nat
    PROVE  /\ \A a, b \in {c \in space.free : p \in Pages(c)} : a = b
           /\ \A P, Q \in {R \in space.recent : p \in R} : P = Q
           /\ \A v, w \in {u \in Writer : p \in PagesOf(SetOf(writers[u].blocks))} : v = w
           /\ \A v, w \in {u \in Writer : p \in PagesOf(SetOf(writers[u].inventory))} : v = w
           /\ \A v, w \in {u \in Writer : p \in writers[u].mine} : v = w
           /\ \A a, b \in {c \in overflow : p \in Pages(c)} : a = b
           /\ \A a, b \in {c \in goesOn : p \in Pages(c)} : a = b
<1>1. /\ \A a, b \in space.free : Pages(a) \cap Pages(b) # {} => a = b
      /\ \A P, Q \in space.recent : P \cap Q # {} => P = Q
  BY DEF AllocatorInv, SoundSpace
<1>2. \A v, w \in Writer : v # w => HeldBy(writers[v]) \cap HeldBy(writers[w]) = {}
  BY DEF AllocatorInv, PagesApart
<1>3. \A w \in Writer :
          /\ PagesOf(SetOf(writers[w].blocks)) \subseteq HeldBy(writers[w])
          /\ PagesOf(SetOf(writers[w].inventory)) \subseteq HeldBy(writers[w])
          /\ writers[w].mine \subseteq HeldBy(writers[w])
  BY DEF HeldBy, SeqPages
<1>4. (\A a, b \in overflow : a = b) /\ (\A a, b \in goesOn : a = b)
  BY DEF AllocatorInv, HeaderBlocks
<1>5. \A a, b \in {c \in space.free : p \in Pages(c)} : a = b
  BY <1>1
<1>6. \A P, Q \in {R \in space.recent : p \in R} : P = Q
  BY <1>1
<1>7. \A v, w \in {u \in Writer : p \in PagesOf(SetOf(writers[u].blocks))} : v = w
  BY <1>2, <1>3
<1>8. \A v, w \in {u \in Writer : p \in PagesOf(SetOf(writers[u].inventory))} : v = w
  BY <1>2, <1>3
<1>9. \A v, w \in {u \in Writer : p \in writers[u].mine} : v = w
  BY <1>2, <1>3
<1> QED
  BY <1>4, <1>5, <1>6, <1>7, <1>8, <1>9

\* Where a page is, in the terms of Claims.
LEMMA WherePagesAre ==
    ASSUME AllocatorInv, NEW p \in 1..MaxPage + 1
    PROVE  /\ Cardinality({b \in space.free : p \in Pages(b)}) \in {0, 1}
           /\ Cardinality({b \in space.free : p \in Pages(b)}) = 1
                  <=> p \in PagesOf(space.free)
           /\ Cardinality({P \in space.recent : p \in P}) \in {0, 1}
           /\ Cardinality({P \in space.recent : p \in P}) = 1
                  <=> p \in UNION space.recent
           /\ Cardinality({w \in Writer : p \in PagesOf(SetOf(writers[w].blocks))}) \in {0, 1}
           /\ Cardinality({w \in Writer : p \in PagesOf(SetOf(writers[w].blocks))}) = 1
                  <=> \E w \in Writer : p \in SeqPages(writers[w].blocks)
           /\ Cardinality({w \in Writer : p \in PagesOf(SetOf(writers[w].inventory))}) \in {0, 1}
           /\ Cardinality({w \in Writer : p \in PagesOf(SetOf(writers[w].inventory))}) = 1
                  <=> \E w \in Writer : p \in SeqPages(writers[w].inventory)
           /\ Cardinality({w \in Writer : p \in writers[w].mine}) \in {0, 1}
           /\ Cardinality({w \in Writer : p \in writers[w].mine}) = 1
                  <=> \E w \in Writer : p \in writers[w].mine
           /\ Cardinality({b \in overflow : p \in Pages(b)}) \in {0, 1}
           /\ Cardinality({b \in overflow : p \in Pages(b)}) = 1
                  <=> p \in PagesOf(overflow)
           /\ Cardinality({b \in goesOn : p \in Pages(b)}) \in {0, 1}
           /\ Cardinality({b \in goesOn : p \in Pages(b)}) = 1
                  <=> p \in PagesOf(goesOn)
<1> DEFINE freeBlocks == {b \in space.free : p \in Pages(b)}
           recent == {P \in space.recent : p \in P}
           inBlocks == {w \in Writer : p \in PagesOf(SetOf(writers[w].blocks))}
           inInventory == {w \in Writer : p \in PagesOf(SetOf(writers[w].inventory))}
           writtenBy == {w \in Writer : p \in writers[w].mine}
           header == {b \in overflow : p \in Pages(b)}
           nextHeader == {b \in goesOn : p \in Pages(b)}
<1>1. /\ \A a, b \in freeBlocks : a = b
      /\ \A P, Q \in recent : P = Q
      /\ \A v, w \in inBlocks : v = w
      /\ \A v, w \in inInventory : v = w
      /\ \A v, w \in writtenBy : v = w
      /\ \A a, b \in header : a = b
      /\ \A a, b \in nextHeader : a = b
  BY OneOfAKind
<1>2. /\ (\E b \in freeBlocks : TRUE) <=> p \in PagesOf(space.free)
      /\ (\E P \in recent : TRUE) <=> p \in UNION space.recent
      /\ (\E w \in inBlocks : TRUE) <=> \E w \in Writer : p \in SeqPages(writers[w].blocks)
      /\ (\E w \in inInventory : TRUE) <=> \E w \in Writer : p \in SeqPages(writers[w].inventory)
      /\ (\E w \in writtenBy : TRUE) <=> \E w \in Writer : p \in writers[w].mine
      /\ (\E b \in header : TRUE) <=> p \in PagesOf(overflow)
      /\ (\E b \in nextHeader : TRUE) <=> p \in PagesOf(goesOn)
  BY DEF PagesOf, SeqPages
<1> HIDE DEF freeBlocks, recent, inBlocks, inInventory, writtenBy, header, nextHeader
<1>3. /\ Cardinality(freeBlocks) \in {0, 1}
      /\ Cardinality(freeBlocks) = 1 <=> p \in PagesOf(space.free)
  BY <1>1, <1>2, AtMostOne
<1>4. /\ Cardinality(recent) \in {0, 1}
      /\ Cardinality(recent) = 1 <=> p \in UNION space.recent
  BY <1>1, <1>2, AtMostOne
<1>5. /\ Cardinality(inBlocks) \in {0, 1}
      /\ Cardinality(inBlocks) = 1 <=> \E w \in Writer : p \in SeqPages(writers[w].blocks)
  BY <1>1, <1>2, AtMostOne
<1>6. /\ Cardinality(inInventory) \in {0, 1}
      /\ Cardinality(inInventory) = 1 <=> \E w \in Writer : p \in SeqPages(writers[w].inventory)
  BY <1>1, <1>2, AtMostOne
<1>7. /\ Cardinality(writtenBy) \in {0, 1}
      /\ Cardinality(writtenBy) = 1 <=> \E w \in Writer : p \in writers[w].mine
  BY <1>1, <1>2, AtMostOne
<1>8. /\ Cardinality(header) \in {0, 1}
      /\ Cardinality(header) = 1 <=> p \in PagesOf(overflow)
  BY <1>1, <1>2, AtMostOne
<1>9. /\ Cardinality(nextHeader) \in {0, 1}
      /\ Cardinality(nextHeader) = 1 <=> p \in PagesOf(goesOn)
  BY <1>1, <1>2, AtMostOne
<1> QED
  BY <1>3, <1>4, <1>5, <1>6, <1>7, <1>8, <1>9
     DEF freeBlocks, recent, inBlocks, inInventory, writtenBy, header, nextHeader

\* A page in the hands of a writer is in one of the three places there.
LEMMA OnePlaceInHands ==
    ASSUME AllocatorInv, NEW p \in Nat
    PROVE  /\ ~ ((\E w \in Writer : p \in SeqPages(writers[w].blocks))
                 /\ \E w \in Writer : p \in SeqPages(writers[w].inventory))
           /\ ~ ((\E w \in Writer : p \in SeqPages(writers[w].blocks))
                 /\ \E w \in Writer : p \in writers[w].mine)
           /\ ~ ((\E w \in Writer : p \in SeqPages(writers[w].inventory))
                 /\ \E w \in Writer : p \in writers[w].mine)
<1>1. \A v, w \in Writer : v # w => HeldBy(writers[v]) \cap HeldBy(writers[w]) = {}
  BY DEF AllocatorInv, PagesApart
<1>2. \A w \in Writer :
          /\ SeqPages(writers[w].blocks) \cap SeqPages(writers[w].inventory) = {}
          /\ SeqPages(writers[w].blocks) \cap writers[w].mine = {}
          /\ SeqPages(writers[w].inventory) \cap writers[w].mine = {}
  BY DEF AllocatorInv, SoundWriters, SoundWriter
<1>3. \A w \in Writer :
          /\ SeqPages(writers[w].blocks) \subseteq HeldBy(writers[w])
          /\ SeqPages(writers[w].inventory) \subseteq HeldBy(writers[w])
          /\ writers[w].mine \subseteq HeldBy(writers[w])
  BY DEF HeldBy
<1> QED
  BY <1>1, <1>2, <1>3

\* A page in the hands of a writer is nowhere else.
LEMMA HandsApart ==
    ASSUME AllocatorInv, NEW p \in Nat,
           \/ \E w \in Writer : p \in SeqPages(writers[w].blocks)
           \/ \E w \in Writer : p \in SeqPages(writers[w].inventory)
           \/ \E w \in Writer : p \in writers[w].mine
    PROVE  /\ p # HeaderPage /\ p \notin used
           /\ p \notin PagesOf(overflow) /\ p \notin PagesOf(goesOn)
           /\ p \notin SpacePages(space)
<1>1. \A w \in Writer : HeldBy(writers[w]) \cap (Kept \cup SpacePages(space)) = {}
  BY DEF AllocatorInv, PagesApart
<1>2. PICK w \in Writer : p \in HeldBy(writers[w])
  BY DEF HeldBy
<1>3. p \notin Kept /\ p \notin SpacePages(space)
  BY <1>1, <1>2
<1> QED
  BY <1>3 DEF Kept

\* Nine numbers of which one is 1, or none is.
LEMMA SumOfPlaces ==
    ASSUME NEW a \in {0, 1}, NEW b \in {0, 1}, NEW c \in {0, 1}, NEW d \in {0, 1},
           NEW e \in {0, 1}, NEW f \in {0, 1}, NEW g \in {0, 1}, NEW h \in {0, 1},
           NEW i \in {0, 1}, NEW n \in {0, 1},
           a + g + h + i <= 1, b + c <= 1, d + e + f <= 1,
           a + g + h + i = 1 => b + c = 0 /\ d + e + f = 0,
           b + c = 1 => d + e + f = 0,
           n = 1 <=> (a + g + h + i) + (b + c) + (d + e + f) >= 1
    PROVE  a + b + c + d + e + f + g + h + i = n
OBVIOUS

\* Every page is in one place at most, and in one before next_page.
LEMMA BlocksHaveOnePlace ==
    ASSUME AllocatorInv
    PROVE  EveryPageOnce
<1> SUFFICES ASSUME NEW p \in 1..MaxPage + 1
             PROVE  Claims(p) = IF p < space.next THEN 1 ELSE 0
  BY DEF EveryPageOnce
<1> DEFINE a == IF p = HeaderPage THEN 1 ELSE 0
           b == Cardinality({x \in space.free : p \in Pages(x)})
           c == Cardinality({P \in space.recent : p \in P})
           d == Cardinality({w \in Writer : p \in PagesOf(SetOf(writers[w].blocks))})
           e == Cardinality({w \in Writer : p \in PagesOf(SetOf(writers[w].inventory))})
           f == Cardinality({w \in Writer : p \in writers[w].mine})
           g == IF p \in used THEN 1 ELSE 0
           h == Cardinality({x \in overflow : p \in Pages(x)})
           i == Cardinality({x \in goesOn : p \in Pages(x)})
           n == IF p < space.next THEN 1 ELSE 0
<1>1. Claims(p) = a + b + c + d + e + f + g + h + i
  BY DEF Claims
<1>2. /\ a \in {0, 1} /\ (a = 1 <=> p = HeaderPage)
      /\ g \in {0, 1} /\ (g = 1 <=> p \in used)
      /\ n \in {0, 1} /\ (n = 1 <=> p < space.next)
  OBVIOUS
<1>3. /\ b \in {0, 1} /\ (b = 1 <=> p \in PagesOf(space.free))
      /\ c \in {0, 1} /\ (c = 1 <=> p \in UNION space.recent)
      /\ h \in {0, 1} /\ (h = 1 <=> p \in PagesOf(overflow))
      /\ i \in {0, 1} /\ (i = 1 <=> p \in PagesOf(goesOn))
  BY WherePagesAre
<1>4. /\ d \in {0, 1} /\ (d = 1 <=> \E w \in Writer : p \in SeqPages(writers[w].blocks))
      /\ e \in {0, 1} /\ (e = 1 <=> \E w \in Writer : p \in SeqPages(writers[w].inventory))
      /\ f \in {0, 1} /\ (f = 1 <=> \E w \in Writer : p \in writers[w].mine)
  BY WherePagesAre
<1>5. n = IF p < space.next THEN 1 ELSE 0
  OBVIOUS
<1> HIDE DEF a, b, c, d, e, f, g, h, i, n
<1>6. p \in Nat /\ p # 0
  BY PageFacts
<1>7. /\ space.next \in Nat
      /\ p \in SpacePages(space) <=>
             p \in PagesOf(space.free) \/ p \in UNION space.recent \/ p >= space.next
      /\ p \in PagesOf(space.free) \/ p \in UNION space.recent => p < space.next
      /\ ~ (p \in PagesOf(space.free) /\ p \in UNION space.recent)
  <2>1. SoundSpace(space)
    BY DEF AllocatorInv
  <2>2. space.next \in Nat
    BY <2>1, SpaceFacts
  <2> QED
    BY <1>6, <2>1, <2>2, InSpace DEF SoundSpace
<1>8. p \in {HeaderPage} \cup used \cup PagesOf(overflow) \cup PagesOf(goesOn)
          => p \notin SpacePages(space)
  BY KeptFacts
<1>9. /\ p = HeaderPage => p \notin used /\ p \notin PagesOf(overflow) /\ p \notin PagesOf(goesOn)
      /\ p \in used => p \notin PagesOf(overflow) /\ p \notin PagesOf(goesOn)
      /\ ~ (p \in PagesOf(overflow) /\ p \in PagesOf(goesOn))
  BY KeptFacts DEF KeptApart
<1>10. \/ p = HeaderPage \/ p \in used \/ p \in PagesOf(overflow) \/ p \in PagesOf(goesOn)
       \/ p \in SpacePages(space)
       \/ \E w \in Writer : p \in SeqPages(writers[w].blocks)
       \/ \E w \in Writer : p \in SeqPages(writers[w].inventory)
       \/ \E w \in Writer : p \in writers[w].mine
  BY <1>6 DEF AllocatorInv, NoPageLost, Kept, HeldBy
<1>11. /\ ~ (d = 1 /\ e = 1) /\ ~ (d = 1 /\ f = 1) /\ ~ (e = 1 /\ f = 1)
  BY <1>4, <1>6, OnePlaceInHands
<1>12. d = 1 \/ e = 1 \/ f = 1 =>
           a = 0 /\ g = 0 /\ h = 0 /\ i = 0 /\ b = 0 /\ c = 0 /\ p < space.next
  <2>1. ASSUME d = 1 \/ e = 1 \/ f = 1
        PROVE  /\ p # HeaderPage /\ p \notin used
               /\ p \notin PagesOf(overflow) /\ p \notin PagesOf(goesOn)
               /\ p \notin SpacePages(space)
    BY <1>4, <1>6, <2>1, HandsApart
  <2> QED
    BY <1>2, <1>3, <1>6, <1>7, <2>1
<1>13. a + g + h + i <= 1 /\ b + c <= 1 /\ d + e + f <= 1
  BY <1>2, <1>3, <1>4, <1>7, <1>9, <1>11
<1>14. a + g + h + i = 1 => b + c = 0 /\ d + e + f = 0 /\ p < space.next
  <2>1. a + g + h + i = 1 => a = 1 \/ g = 1 \/ h = 1 \/ i = 1
    BY <1>2, <1>3
  <2>2. a = 1 \/ g = 1 \/ h = 1 \/ i = 1 => b = 0 /\ c = 0 /\ p < space.next
    BY <1>2, <1>3, <1>6, <1>7, <1>8
  <2>3. a = 1 \/ g = 1 \/ h = 1 \/ i = 1 => d = 0 /\ e = 0 /\ f = 0
    BY <1>2, <1>3, <1>4, <1>12
  <2> QED
    BY <2>1, <2>2, <2>3
<1>15. b + c = 1 => d + e + f = 0 /\ p < space.next
  <2>1. b + c = 1 => b = 1 \/ c = 1
    BY <1>3
  <2>2. b = 1 \/ c = 1 => p < space.next
    BY <1>3, <1>7
  <2>3. b = 1 \/ c = 1 => d = 0 /\ e = 0 /\ f = 0
    BY <1>3, <1>4, <1>12
  <2> QED
    BY <2>1, <2>2, <2>3
<1>16. p < space.next => \/ a = 1 \/ g = 1 \/ h = 1 \/ i = 1
                         \/ b = 1 \/ c = 1 \/ d = 1 \/ e = 1 \/ f = 1
  BY <1>2, <1>3, <1>4, <1>6, <1>7, <1>10
<1>17. n = 1 <=> (a + g + h + i) + (b + c) + (d + e + f) >= 1
  <2>1. n = 1 => (a + g + h + i) + (b + c) + (d + e + f) >= 1
    BY <1>2, <1>3, <1>4, <1>16
  <2>2. (a + g + h + i) + (b + c) + (d + e + f) >= 1 =>
            a + g + h + i = 1 \/ b + c = 1 \/ d = 1 \/ e = 1 \/ f = 1
    BY <1>2, <1>3, <1>4, <1>13
  <2>3. (a + g + h + i) + (b + c) + (d + e + f) >= 1 => n = 1
    BY <1>2, <1>12, <1>14, <1>15, <2>2
  <2> QED
    BY <2>1, <2>3
<1>18. a + b + c + d + e + f + g + h + i = n
  BY <1>2, <1>3, <1>4, <1>13, <1>14, <1>15, <1>17, SumOfPlaces
<1> QED
  BY <1>1, <1>5, <1>18

\* The groups of the writers can be encoded.
LEMMA GroupsAreOrdered ==
    ASSUME AllocatorInv
    PROVE  GroupIsEncodable
<1> SUFFICES ASSUME NEW w \in Writer, writers[w].group # <<>>
             PROVE  /\ \A b \in SetOf(writers[w].group) \ {writers[w].group[1]} :
                           b.first > writers[w].group[1].first
                    /\ \A b \in SetOf(writers[w].inventory) : b.first > writers[w].group[1].first
                    /\ RunsLow(writers[w].inventory) =>
                           writers[w].inventory[1].first
                               \in {b.last + 1 : b \in SetOf(writers[w].group)}
                    /\ space.next > writers[w].group[1].first
  BY DEF GroupIsEncodable
<1> DEFINE group == writers[w].group
           inventory == writers[w].inventory
<1>1. /\ group \in Seq(Block) /\ writers[w].mine \in SUBSET PageNumber
      /\ inventory \in Seq(Block)
      /\ SoundGroup(writers[w])
      /\ writers[w].mine \cap SpacePages(space) = {}
  BY WriterFacts
<1>2. /\ group[1].first \in writers[w].mine
      /\ \A i \in DOMAIN group : i # 1 => group[i].first > group[1].first
      /\ \A b \in SetOf(inventory) : b.first > group[1].first
  BY <1>1 DEF SoundGroup, OrderedGroup, OrderedBlocks
<1>3. RunsLow(inventory) => \E i \in DOMAIN group : inventory[1].first = group[i].last + 1
  <2>1. CASE writers[w].known = 0
    BY <1>1, <2>1 DEF SoundGroup, UnknownGroup, UnknownBlocks
  <2>2. ASSUME writers[w].known # 0, inventory # <<>>
        PROVE  \E i \in DOMAIN group : inventory[1].first = group[i].last + 1
    <3>1. Len(group) = 1 /\ inventory[1].first = group[1].last + 1
      BY <1>1, <2>2 DEF SoundGroup, KnownGroup
    <3>2. 1 \in DOMAIN group
      BY <1>1, <3>1
    <3> QED
      BY <3>1, <3>2
  <2>3. RunsLow(inventory) => inventory # <<>>
    BY <1>1 DEF RunsLow
  <2> QED
    BY <2>1, <2>2, <2>3
<1>4. space.next > group[1].first
  <2>1. group[1].first \in Nat
    BY <1>1, <1>2, PageFacts
  <2>2. SoundSpace(space)
    BY DEF AllocatorInv
  <2>3. space.next \in Nat /\ \A p \in Nat : p >= space.next => p \in SpacePages(space)
    BY <2>2, SpaceFacts
  <2>4. group[1].first \notin SpacePages(space)
    BY <1>1, <1>2
  <2> QED
    BY <2>1, <2>3, <2>4
<1> HIDE DEF group, inventory
<1>5. \A b \in SetOf(group) \ {group[1]} : b.first > group[1].first
  BY <1>2 DEF SetOf
<1>6. RunsLow(inventory) => inventory[1].first \in {b.last + 1 : b \in SetOf(group)}
  BY <1>3 DEF SetOf
<1> QED
  BY <1>2, <1>4, <1>5, <1>6 DEF group, inventory

\* The pages of a block, counted.
LEMMA BlockCounts ==
    ASSUME NEW b \in Block
    PROVE  Cardinality(Pages(b)) = CountPages(b)
<1> DEFINE f == b.first
           l == b.last
<1>1. f \in Nat /\ l \in Nat /\ f <= l
  BY BlockFacts
<1>2. Pages(b) = f..l /\ CountPages(b) = l - f + 1
  BY DEF Pages, CountPages
<1> HIDE DEF f, l
<1>3. Cardinality(f..l) = l - f + 1
  <2>1. f \in Int /\ l \in Int /\ ~(f > l)
    BY <1>1
  <2> QED
    BY <2>1, FS_Interval
<1> QED
  BY <1>2, <1>3

\* The pages of a block and of one that follows it, counted.
LEMMA TwoBlocksCount ==
    ASSUME NEW a \in Block, NEW b \in Block, b.first = a.last + 1
    PROVE  Cardinality(Pages(a) \cup Pages(b)) = CountPages(a) + CountPages(b)
<1> DEFINE f == a.first
           m == a.last
           l == b.last
<1>1. f \in Nat /\ m \in Nat /\ f <= m
  BY BlockFacts
<1>2. l \in Nat /\ m + 1 <= l
  <2>1. b.first <= b.last /\ b.last \in Nat
    BY BlockFacts
  <2> QED
    BY <2>1
<1>3. /\ Pages(a) = f..m /\ CountPages(a) = m - f + 1
      /\ Pages(b) = (m + 1)..l /\ CountPages(b) = l - (m + 1) + 1
  BY DEF Pages, CountPages
<1> HIDE DEF f, m, l
<1>4. (f..m) \cup ((m + 1)..l) = f..l
  BY <1>1, <1>2
<1>5. Cardinality(f..l) = l - f + 1
  <2>1. f \in Int /\ l \in Int /\ ~(f > l)
    BY <1>1, <1>2
  <2> QED
    BY <2>1, FS_Interval
<1>6. (m - f + 1) + (l - (m + 1) + 1) = l - f + 1
  BY <1>1, <1>2
<1> QED
  BY <1>3, <1>4, <1>5, <1>6

\* An overflow of known length is in one piece.
LEMMA KnownGroupsAreWhole ==
    ASSUME AllocatorInv
    PROVE  KnownOverflowIsContiguous
<1> SUFFICES ASSUME NEW w \in Writer, writers[w].known # 0
             PROVE  /\ Len(writers[w].group) <= 1
                    /\ Cardinality(SeqPages(writers[w].group) \cup SeqPages(writers[w].inventory))
                           = writers[w].known
  BY DEF KnownOverflowIsContiguous, SeqPages
<1> DEFINE group == writers[w].group
           inventory == writers[w].inventory
<1>1. /\ group \in Seq(Block) /\ inventory \in Seq(Block) /\ Len(inventory) <= 1
      /\ SoundGroup(writers[w])
  BY WriterFacts
<1>2. \/ /\ group = <<>> /\ inventory # <<>>
         /\ CountPages(inventory[1]) = writers[w].known
      \/ /\ Len(group) = 1 /\ inventory = <<>>
         /\ CountPages(group[1]) = writers[w].known
      \/ /\ Len(group) = 1 /\ inventory # <<>>
         /\ inventory[1].first = group[1].last + 1
         /\ CountPages(group[1]) + CountPages(inventory[1]) = writers[w].known
  BY <1>1 DEF SoundGroup, KnownGroup
<1> HIDE DEF group, inventory
<1>3. Len(<<>>) = 0
  OBVIOUS
<1>4. ASSUME inventory # <<>>
      PROVE  inventory[1] \in Block /\ SeqPages(inventory) = Pages(inventory[1])
  <2>1. inventory = <<inventory[1]>> /\ inventory[1] \in Block
    BY <1>1, <1>4, FewBlocks
  <2>2. SeqPages(<<inventory[1]>>) = Pages(inventory[1])
    BY PagesOfFew
  <2> QED
    BY <2>1, <2>2
<1>5. ASSUME Len(group) = 1
      PROVE  group[1] \in Block /\ SeqPages(group) = Pages(group[1])
  <2>1. group # <<>>
    BY <1>3, <1>5
  <2>2. group = <<group[1]>> /\ group[1] \in Block
    BY <1>1, <1>5, <2>1, FewBlocks
  <2>3. SeqPages(<<group[1]>>) = Pages(group[1])
    BY PagesOfFew
  <2> QED
    BY <2>2, <2>3
<1>6. SeqPages(<<>>) = {}
  BY PagesOfFew
<1>7. CASE /\ group = <<>> /\ inventory # <<>>
           /\ CountPages(inventory[1]) = writers[w].known
  <2>1. SeqPages(group) \cup SeqPages(inventory) = Pages(inventory[1])
    BY <1>4, <1>6, <1>7
  <2>2. Cardinality(Pages(inventory[1])) = CountPages(inventory[1])
    BY <1>4, <1>7, BlockCounts
  <2>3. Len(group) <= 1
    BY <1>3, <1>7
  <2> QED
    BY <1>7, <2>1, <2>2, <2>3 DEF group, inventory
<1>8. CASE /\ Len(group) = 1 /\ inventory = <<>>
           /\ CountPages(group[1]) = writers[w].known
  <2>1. SeqPages(group) \cup SeqPages(inventory) = Pages(group[1])
    BY <1>5, <1>6, <1>8
  <2>2. Cardinality(Pages(group[1])) = CountPages(group[1])
    BY <1>5, <1>8, BlockCounts
  <2>3. Len(group) <= 1
    BY <1>8
  <2>4. Cardinality(SeqPages(group) \cup SeqPages(inventory)) = writers[w].known
    BY <1>8, <2>1, <2>2
  <2> QED
    BY <2>3, <2>4 DEF group, inventory
<1>9. CASE /\ Len(group) = 1 /\ inventory # <<>>
           /\ inventory[1].first = group[1].last + 1
           /\ CountPages(group[1]) + CountPages(inventory[1]) = writers[w].known
  <2>1. SeqPages(group) \cup SeqPages(inventory) = Pages(group[1]) \cup Pages(inventory[1])
    BY <1>4, <1>5, <1>9
  <2>2. Cardinality(Pages(group[1]) \cup Pages(inventory[1]))
            = CountPages(group[1]) + CountPages(inventory[1])
    BY <1>4, <1>5, <1>9, TwoBlocksCount
  <2>3. Len(group) <= 1
    BY <1>9
  <2>4. Cardinality(SeqPages(group) \cup SeqPages(inventory)) = writers[w].known
    BY <1>9, <2>1, <2>2
  <2> QED
    BY <2>3, <2>4 DEF group, inventory
<1> QED
  BY <1>2, <1>7, <1>8, <1>9

-----------------------------------------------------------------------------
(* The theorems.                                                           *)

\* Every page is free, in one writer's hands or in one use, and none is lost, however
\* get_block, the page writers and the two steps of write_header interleave, for any
\* header overflow, as long as no file is opened that ends within the overflow of its
\* header.
THEOREM PagesOnce == SpecInFile => []EveryPageOnce
BY AllocatorInductive, BlocksHaveOnePlace, PTL

\* The blocks of an overflow that is being written are in an order that
\* encode_as_u64_list accepts, and ensure_group_inventory and get_group_page find what
\* they assert.
THEOREM GroupsEncodable == SpecInFile => []GroupIsEncodable
BY AllocatorInductive, GroupsAreOrdered, PTL

\* begin_group: an overflow whose length is known is written in one piece.
THEOREM KnownOverflowsContiguous == SpecInFile => []KnownOverflowIsContiguous
BY AllocatorInductive, KnownGroupsAreWhole, PTL

\* What the header goes on in, or will, is in the file.
HeaderIsInFile ==
    PagesOf(overflow) \cup PagesOf(goesOn) \subseteq HeaderPage..fileLast

\* The rest of the header is as long as the blocks that it is given.
WholeOverflows ==
    \A more \in HeaderOverflows : more.whole /\ more.pages = PagesPerBlock

\* Then the file never ends within the overflow of its header.
LEMMA StaysInFile ==
    ASSUME WholeOverflows, AllocatorInv, HeaderIsInFile, [AllocatorNext]_allocatorVars
    PROVE  HeaderIsInFile'
<1>1. fileLast \in PageNumber /\ fileLast \in Nat /\ HeaderPage = 1 /\ PageNumber = 1..MaxPage
  BY KeptFacts, PageFacts
<1>2. PagesOf({}) = {}
  BY DEF PagesOf
<1>3. ASSUME fileLast' \in Nat, fileLast <= fileLast', UNCHANGED <<overflow, goesOn>>
      PROVE  HeaderIsInFile'
  BY <1>1, <1>3 DEF HeaderIsInFile
<1>4. CASE \E w \in Writer : WriterStep(w)
  <2>1. PICK w \in Writer : WriterStep(w)
    BY <1>4
  <2>2. UNCHANGED <<overflow, goesOn>>
    BY <2>1 DEF WriterStep, WritePage, BeginGroup, WriteGroupPage, EndGroup, End
  <2>3. AllocatorInv'
    BY <2>1, WritePageKeeps, BeginGroupKeeps, WriteGroupPageKeeps, EndGroupKeeps, EndKeeps
       DEF WriterStep
  <2>4. fileLast' \in Nat
    BY <1>1, <2>3 DEF AllocatorInv
  <2>5. fileLast <= fileLast'
    <3>1. ASSUME NEW pg, WritePageAt(pg)
          PROVE  fileLast <= fileLast'
      <4>1. CASE pg > fileLast
        BY <1>1, <2>4, <3>1, <4>1 DEF WritePageAt
      <4>2. CASE ~(pg > fileLast)
        BY <1>1, <3>1, <4>2 DEF WritePageAt
      <4> QED
        BY <4>1, <4>2
    <3>2. (\E pg : WritePageAt(pg)) \/ UNCHANGED fileLast
      BY <2>1 DEF WriterStep, WritePage, BeginGroup, WriteGroupPage, EndGroup, End
    <3> QED
      BY <1>1, <3>1, <3>2
  <2> QED
    BY <1>3, <2>2, <2>4, <2>5
<1>5. CASE \E P \in SUBSET used : AddFreeBlocks(P)
  BY <1>1, <1>3, <1>5 DEF AddFreeBlocks
<1>6. CASE \E more \in HeaderOverflows : WriteHeaderOverflow(more)
  <2>1. PICK more \in HeaderOverflows : WriteHeaderOverflow(more)
    BY <1>6
  <2>2. PICK b \in Block : /\ goesOn' = {b} /\ fileLast' \in PageNumber /\ fileLast <= fileLast'
                           /\ b.last <= fileLast'
    BY <2>1, OverflowBlock DEF WholeOverflows
  <2>3. PagesOf(goesOn') = Pages(b)
    BY <2>2 DEF PagesOf
  <2>4. Pages(b) \subseteq HeaderPage..fileLast'
    BY <1>1, <2>2, BlockFacts
  <2>5. overflow' = overflow
    BY <2>1 DEF WriteHeaderOverflow
  <2>6. PagesOf(overflow) \subseteq HeaderPage..fileLast'
    BY <1>1, <2>2 DEF HeaderIsInFile
  <2> QED
    BY <2>3, <2>4, <2>5, <2>6 DEF HeaderIsInFile
<1>7. CASE WriteHeader
  <2>1. overflow' = goesOn /\ goesOn' = {} /\ fileLast' = fileLast
    BY <1>7 DEF WriteHeader
  <2> QED
    BY <1>2, <2>1 DEF HeaderIsInFile
<1>8. CASE ReopenFile
  <2>1. overflow' = overflow /\ goesOn' = {} /\ fileLast' = fileLast
    BY <1>8 DEF ReopenFile
  <2> QED
    BY <1>2, <2>1 DEF HeaderIsInFile
<1>9. CASE UNCHANGED allocatorVars
  BY <1>9 DEF allocatorVars, HeaderIsInFile
<1> QED
  BY <1>4, <1>5, <1>6, <1>7, <1>8, <1>9 DEF AllocatorNext

\* When the rest of the header fills the block that it is given, every page is
\* in one place wherever the process dies and whenever the file is opened.
THEOREM PagesOnceWhenFilled ==
    ASSUME WholeOverflows
    PROVE  AllocatorSpec => []EveryPageOnce
<1>1. AllocatorInit => AllocatorInv /\ HeaderIsInFile
  <2>1. AllocatorInit => PagesOf(overflow) = {} /\ PagesOf(goesOn) = {}
    BY DEF AllocatorInit, PagesOf
  <2> QED
    BY <2>1, InitIsSound DEF HeaderIsInFile
<1>2. AllocatorInv /\ HeaderIsInFile /\ [AllocatorNext]_allocatorVars => (AllocatorInv /\ HeaderIsInFile)'
  <2> SUFFICES ASSUME AllocatorInv, HeaderIsInFile, [AllocatorNext]_allocatorVars
               PROVE  AllocatorInv' /\ HeaderIsInFile'
    OBVIOUS
  <2>1. OverflowIsInFile
    BY DEF HeaderIsInFile, OverflowIsInFile
  <2>2. [NextInFile]_allocatorVars
    BY <2>1 DEF NextInFile
  <2>3. AllocatorInv'
    BY <2>2, StepKeeps
  <2>4. HeaderIsInFile'
    BY StaysInFile
  <2> QED
    BY <2>3, <2>4
<1>3. AllocatorInv => EveryPageOnce
  BY BlocksHaveOnePlace
<1> QED
  BY <1>1, <1>2, <1>3, PTL DEF AllocatorSpec

\* Every variable keeps its type, and a writer never holds more than two blocks of a
\* kind, which is what ensure_inventory and ensure_group_inventory take care of.
THEOREM AllocatorTypeCorrect == SpecInFile => []AllocatorTypeOK
<1>1. AllocatorInv => AllocatorTypeOK
  BY DEF AllocatorInv, AllocatorTypeOK, SoundSpace, SoundWriters, SoundWriter, HeaderBlocks, PageWriter
<1> QED
  BY <1>1, AllocatorInductive, PTL
=============================================================================
