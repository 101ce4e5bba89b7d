------------------------------- MODULE Trees -------------------------------
(***************************************************************************)
(* Segments as trees of pages: lsm/src/lib.rs, from LeafUnderConstruction  *)
(* to ParentNodeWriter, write_leaves, write_merge, write_survivors and     *)
(* what prepare_merge and commit_merge do with the pages.                  *)
(*                                                                         *)
(* There are two segments, upper and lower.  A merge takes some leaves of  *)
(* upper, or all of it, and writes their pairs and what it overlaps of     *)
(* lower anew; the other nodes of both become part of the new trees.       *)
(* Segments says what this amounts to.                                     *)
(*                                                                         *)
(* A page is a leaf (depth 0), a parent, or an overflow.  Sizes are        *)
(* weights of keys; prefixes that keys share are left out.                 *)
(***************************************************************************)
EXTENDS Pairs, FiniteSets

CONSTANTS
    KeySize,         \* how much room the key takes when it is in the page
    MaxInline,       \* a larger key goes into an overflow
    LongValues,      \* the values that go into an overflow
    LeafRoom,        \* how much room a leaf has for keys
    ParentRoom,      \* how much room a parent has for keys
    LeavesToPromote, \* settings.num_leaves_promote
    WriteBounds      \* bound: how many pairs each write has, and with what entries

ASSUME TreesAssumption ==
    /\ KeySize \in [Keys -> Nat \ {0}]
    /\ LongValues \subseteq Values
    /\ MaxInline \in Nat /\ LeafRoom \in Nat /\ ParentRoom \in Nat
    /\ 1 <= MaxInline /\ MaxInline <= LeafRoom /\ MaxInline <= ParentRoom
    /\ 2 <= ParentRoom
    /\ LeavesToPromote \in Nat \ {0}
    /\ WriteBounds \in Seq([pairs : Nat, entries : SUBSET (Values \cup {Tombstone})])

VARIABLES file,     \* the pages in use, a function on page numbers
          upper,    \* the root of the segment that is promoted, or NoPage
          lower,    \* the root of the segment behind it, or NoPage
          lost,     \* pages that nothing refers to any more and nobody frees
          writes,   \* counts segments written from memory
          held      \* auxiliary: the pairs of the two trees

VARIABLES phase,    \* "idle", or what is being written: "write" (a segment from
                    \* memory), "merge", "survivors", and then "prepared"
          pairs,    \* the pairs to be written: from memory, or promoted
          reading,  \* the pairs left of the leaf that is being rewritten
          todo,     \* by depth, the items left of the parents being rewritten
          keep,     \* how many of the next of these items are kept as they are
          leaf,     \* LeafUnderConstruction
          chain,    \* by depth, the items of the ParentNodeWriters; the last one has
                    \* the item no parent has been begun for (result_one)
          hand,     \* the item being added to the chain, if any
          level     \* and where

VARIABLES promoted, \* the leaves that are promoted
          before,   \* auxiliary: the pages before the merge
          freed,    \* pages that are not needed once the merge is committed
          refreed,  \* auxiliary: pages freed once more
          dropped,  \* overflows of the keys of dropped tombstones
          pending   \* the new segments

sources == <<pairs, reading, todo, keep>>
writer == <<leaf, chain, hand, level>>
merge == <<promoted, before, freed, refreed, dropped, pending>>
segments == <<upper, lower, lost, writes, held>>
vars == <<file, segments, phase, sources, writer, merge>>

NoPage == 0
Overflow == [depth |-> -1, items |-> <<>>]
NoSegments == [upper |-> NoPage, lower |-> NoPage, panicked |-> FALSE]

-----------------------------------------------------------------------------
(* What is in a tree.                                                      *)

IsParent(f, pg) == f[pg].depth > 0

\* Every node of the tree that pg is the root of.
Below(f, pg) ==
    LET below[n \in DOMAIN f] ==
            IF IsParent(f, n)
            THEN {n} \cup UNION {below[f[n].items[i].page] : i \in DOMAIN f[n].items}
            ELSE {n}
    IN  below[pg]

Nodes(f, root) == IF root = NoPage THEN {} ELSE Below(f, root)

ItemsOf(f, leaves) == UNION {{f[n].items[i] : i \in DOMAIN f[n].items} : n \in leaves}

PairsUnder(f, pg) == ItemsOf(f, {n \in Below(f, pg) : f[n].depth = 0})
KeysUnder(f, pg) == {p.key : p \in PairsUnder(f, pg)}

Contents(f, root) ==
    LET has(k) == {p \in ItemsOf(f, {n \in Nodes(f, root) : f[n].depth = 0}) : p.key = k}
    IN  [k \in Keys |-> IF has(k) = {} THEN Absent ELSE (CHOOSE p \in has(k) : TRUE).value]

\* The sum of a sequence of numbers.
Sum(seq) ==
    LET sum[n \in 0..Len(seq)] == IF n = 0 THEN 0 ELSE sum[n - 1] + seq[n]
    IN  sum[Len(seq)]

Leaves(node) ==
    IF node.depth = 0 THEN 1 ELSE Sum([i \in DOMAIN node.items |-> node.items[i].leaves])
Tombstones(node) ==
    IF node.depth = 0
    THEN Sum([i \in DOMAIN node.items |-> IF node.items[i].value = Tombstone THEN 1 ELSE 0])
    ELSE Sum([i \in DOMAIN node.items |-> node.items[i].tombstones])

\* The pages that an item of a node of this depth refers to: a pair may have its key
\* and its value in overflows; a parent owns the overflows it wrote for keys that did
\* not fit (get_owned_overflows), and borrows others.
PageOf(depth, item, what) ==
    CASE what = "child" -> IF depth = 0 THEN NoPage ELSE item.page
      [] what = "key" -> IF depth = 0 THEN item.keyPage
                         ELSE IF item.location = "owned" THEN item.overflow ELSE NoPage
      [] what = "value" -> IF depth = 0 THEN item.valuePage ELSE NoPage

Overflows(depth, item) == {PageOf(depth, item, what) : what \in {"key", "value"}} \ {NoPage}
OwnedOverflows(node) == UNION {Overflows(node.depth, node.items[i]) : i \in DOMAIN node.items}

-----------------------------------------------------------------------------
(* Pages.                                                                  *)

\* Pages are given out in the order of their numbers: which page it is does not
\* matter here.
NextPage(f) == CHOOSE n \in 1..(Cardinality(DOMAIN f) + 1) :
                  /\ n \notin DOMAIN f
                  /\ \A m \in 1..(n - 1) : m \in DOMAIN f

WritePage(f, content) ==
    [pg \in DOMAIN f \cup {NextPage(f)} |-> IF pg \in DOMAIN f THEN f[pg] ELSE content]

Free(pages) ==
    /\ freed' = freed \cup pages
    /\ refreed' = refreed \cup (freed \cap pages)

-----------------------------------------------------------------------------
(* ParentNodeWriter.                                                       *)

NewChain == << <<>>, <<>> >>

ParentNeed(c) == IF c.location = "inline" THEN KeySize[c.key] ELSE 1
ParentSize(items) == Sum([i \in DOMAIN items |-> ParentNeed(items[i])])

\* write_parent_page: what the level above is told.  A key that the page has in an
\* overflow of its own is inline again (fix_owned_overflow).
ItemForParent(pg, node) ==
    LET last == node.items[Len(node.items)]
    IN  [page |-> pg, key |-> last.key,
         location |-> IF last.location = "owned" THEN "inline" ELSE last.location,
         overflow |-> IF last.location = "owned" THEN NoPage ELSE last.overflow,
         leaves |-> Leaves(node), tombstones |-> Tombstones(node)]

\* The same for a leaf (for_parent): the overflow of its last key is lent to the parents.
LeafForParent(pg, node) ==
    LET last == node.items[Len(node.items)]
    IN  [page |-> pg, key |-> last.key,
         location |-> IF last.keyPage = NoPage THEN "inline" ELSE "borrowed",
         overflow |-> last.keyPage,
         leaves |-> Leaves(node), tombstones |-> Tombstones(node)]

\* to_owned_overflow.
ToOwnedOverflow(s, i) ==
    [file |-> WritePage(s.file, Overflow),
     items |-> [s.items EXCEPT ![i] = [@ EXCEPT !.location = "owned",
                                                !.overflow = NextPage(s.file)]]]

\* Two items always have to fit: their keys go into overflows, the longer first,
\* until they do.
MakeTwoFit(s) ==
    LET inline == {i \in 1..2 : s.items[i].location = "inline"}
        longer == IF inline # {1, 2} THEN CHOOSE i \in inline : TRUE
                  ELSE IF KeySize[s.items[1].key] > KeySize[s.items[2].key] THEN 1 ELSE 2
        t == ToOwnedOverflow(s, longer)
    IN  IF Len(s.items) # 2 \/ ParentSize(s.items) <= ParentRoom THEN s
        ELSE IF ParentSize(t.items) <= ParentRoom THEN t
        ELSE ToOwnedOverflow(t, 3 - longer)

IsLast(d) == d = Len(chain)

\* add_child_to_current, when the page of this level has room: it takes at least two
\* children.  A second item on top begins a parent (require_chain).
Join ==
    LET items == chain[level]
        s == MakeTwoFit([file |-> file, items |-> Append(items, hand[1])])
        joined == [chain EXCEPT ![level] = s.items]
    IN  /\ Len(items) < 2 \/ ParentSize(items) + ParentNeed(hand[1]) <= ParentRoom
        /\ file' = s.file
        /\ chain' = IF IsLast(level) /\ items # <<>> THEN Append(joined, <<>>) ELSE joined
        /\ hand' = <<>> /\ level' = 1

\* The page of level d is written and the level above is told (emit); what is in hand
\* is now the only item.
WriteParent(d) ==
    LET node == [depth |-> d, items |-> chain[d]]
    IN  /\ file' = WritePage(file, node)
        /\ chain' = [chain EXCEPT ![d] = hand]
        /\ hand' = <<ItemForParent(NextPage(file), node)>>
        /\ level' = d + 1

\* add_child.
AddChild ==
    /\ hand # <<>>
    /\ \/ Join
       \/ /\ Len(chain[level]) >= 2
          /\ ParentSize(chain[level]) + ParentNeed(hand[1]) > ParentRoom
          /\ WriteParent(level)
    /\ UNCHANGED <<segments, phase, sources, leaf, merge>>

-----------------------------------------------------------------------------
(* Leaves.                                                                 *)

LeafNeed(p) == IF p.keyPage = NoPage THEN KeySize[p.key] ELSE 1
LeafSize(items) == Sum([i \in DOMAIN items |-> LeafNeed(items[i])])

\* write_leaf, with f the file so far; next are the pairs of the next leaf.
WriteLeaf(f, next) ==
    LET node == [depth |-> 0, items |-> leaf]
    IN  /\ file' = WritePage(f, node)
        /\ leaf' = next
        /\ hand' = <<LeafForParent(NextPage(f), node)>>
        /\ level' = 1

\* A pair that comes from memory; large keys and values are not written yet.
Boxed(k, v) == [key |-> k, value |-> v, keyPage |-> NoPage, valuePage |-> NoPage]

\* A pair s.p that is about to be put: overflows that are in the file are used again.
WithKeyPage(s) ==
    IF s.p.keyPage # NoPage \/ KeySize[s.p.key] <= MaxInline THEN s
    ELSE [file |-> WritePage(s.file, Overflow), p |-> [s.p EXCEPT !.keyPage = NextPage(s.file)]]

WithValuePage(s) ==
    IF s.p.valuePage # NoPage \/ s.p.value \notin LongValues THEN s
    ELSE [file |-> WritePage(s.file, Overflow), p |-> [s.p EXCEPT !.valuePage = NextPage(s.file)]]

\* process_pair_into_leaf.
PutPair(p) ==
    LET s == WithValuePage(WithKeyPage([file |-> file, p |-> p]))
    IN  IF LeafSize(leaf) + LeafNeed(s.p) <= LeafRoom
        THEN /\ file' = s.file
             /\ leaf' = Append(leaf, s.p)
             /\ UNCHANGED <<hand, level>>
        ELSE WriteLeaf(s.file, <<s.p>>)

-----------------------------------------------------------------------------
(* What is written when everything that a writer was given is there.       *)

AllEmpty(s) == \A d \in DOMAIN s : s[d] = <<>>
Lowest(s) == CHOOSE d \in DOMAIN s : s[d] # <<>> /\ \A e \in DOMAIN s : e < d => s[e] = <<>>

NothingLeft == pairs = {} /\ reading = <<>> /\ AllEmpty(todo)

\* An only child is the root itself.
HasRoot ==
    /\ leaf = <<>> /\ hand = <<>>
    /\ ~AllEmpty(chain) =>
         LET d == Lowest(chain)
         IN  \/ IsLast(d)
             \/ IsLast(d + 1) /\ chain[d + 1] = <<>> /\ Len(chain[d]) = 1

Root == IF AllEmpty(chain) THEN NoPage ELSE chain[Lowest(chain)][1].page

\* At the end (done) everything is written; before a child is kept, everything below
\* it is.
MustWrite == hand = <<>> /\ (keep > 0 \/ (NothingLeft /\ ~HasRoot))
IsBelow(d) == keep > 0 => d < Lowest(todo)

FlushLeaf ==
    /\ MustWrite /\ leaf # <<>>
    /\ WriteLeaf(file, <<>>)
    /\ UNCHANGED <<segments, phase, sources, chain, merge>>

FlushPage ==
    /\ MustWrite /\ leaf = <<>> /\ ~AllEmpty(chain)
    /\ ~IsLast(Lowest(chain)) /\ IsBelow(Lowest(chain))
    /\ WriteParent(Lowest(chain))
    /\ UNCHANGED <<segments, phase, sources, leaf, merge>>

-----------------------------------------------------------------------------
(* The pairs that are written: merge_process_pair and merge_rewrite_leaf.  *)

NextPair == CHOOSE p \in pairs : \A q \in pairs : p.key <= q.key

Ready == phase \in {"write", "merge", "survivors"} /\ hand = <<>> /\ keep = 0

\* A tombstone is dropped when there is nothing to hide behind the destination,
\* which is up to the segments there.
TakePair ==
    /\ pairs' = pairs \ {NextPair}
    /\ \/ PutPair(NextPair) /\ UNCHANGED dropped
       \/ /\ NextPair.value = Tombstone /\ phase = "merge"
          /\ dropped' = dropped \cup ({NextPair.keyPage} \ {NoPage})
          /\ UNCHANGED <<file, leaf, hand, level>>

\* When the leaf that is being rewritten has been passed, and in a merge into
\* nothing.
TakeRest ==
    /\ Ready /\ pairs # {} /\ reading = <<>> /\ AllEmpty(todo)
    /\ TakePair
    /\ UNCHANGED <<segments, phase, reading, todo, keep, chain,
                   promoted, before, freed, refreed, pending>>

Merging == Ready /\ reading # <<>>

TakeBetween ==
    /\ Merging /\ pairs # {} /\ NextPair.key < Head(reading).key
    /\ TakePair
    /\ UNCHANGED <<segments, phase, reading, todo, keep, chain,
                   promoted, before, freed, refreed, pending>>

\* Mutated: only the overflow of the value is freed.
ShadowValue(p) == Free({p.valuePage} \ {NoPage})

Shadow(p) == Free(Overflows(0, p))

\* Mutated: what has the same key stays.
ReplaceNothing ==
    /\ Merging /\ pairs # {} /\ NextPair.key = Head(reading).key
    /\ PutPair(Head(reading))
    /\ reading' = Tail(reading) /\ pairs' = pairs \ {NextPair}
    /\ UNCHANGED <<segments, phase, todo, keep, chain, merge>>

Replace ==
    /\ Merging /\ pairs # {} /\ NextPair.key = Head(reading).key
    /\ Shadow(Head(reading))
    /\ reading' = Tail(reading)
    /\ TakePair
    /\ UNCHANGED <<segments, phase, todo, keep, chain, promoted, before, pending>>

KeepPair ==
    /\ Merging /\ (pairs # {} => Head(reading).key < NextPair.key)
    /\ PutPair(Head(reading))
    /\ reading' = Tail(reading)
    /\ UNCHANGED <<segments, phase, pairs, todo, keep, chain, merge>>

RewriteLeaf == TakeBetween \/ Replace \/ KeepPair

-----------------------------------------------------------------------------
(* The nodes that are kept or rewritten: merge_rewrite_parent and          *)
(* survivors_rewrite_node.                                                 *)

\* Mutated: the overflow goes with the key.
AsOwnedItem(c) == c

\* child_as_item_for_parent: a key in an overflow of the old page is inline again.
AsItem(c) ==
    IF c.location = "owned" THEN [c EXCEPT !.location = "inline", !.overflow = NoPage] ELSE c

\* Every parent of this depth or above is written anew.
RewriteLevel(depth) == IF depth <= 2 THEN 1 ELSE IF depth <= 4 THEN 2 ELSE 3

MinRecycle(depth) == IF depth \in {1, 2} THEN 2 ELSE 1

\* Mutated: children up to and with the one that has the next key.
RecyclableThrough(depth, items) ==
    LET first == Cardinality({i \in DOMAIN items : items[i].key <= NextPair.key})
    IN  IF depth > RewriteLevel(file[lower].depth) THEN 0
        ELSE IF pairs = {} THEN 1
        ELSE IF first >= MinRecycle(depth) THEN first ELSE 0

\* How many of the next children of a parent are kept as they are: those before the
\* next pair, unless they are too few.
Recyclable(depth, items) ==
    LET first == CHOOSE n \in 0..Len(items) :
                    /\ \A i \in 1..n : items[i].key < NextPair.key
                    /\ n < Len(items) => items[n + 1].key >= NextPair.key
    IN  IF depth > RewriteLevel(file[lower].depth) THEN 0
        ELSE IF pairs = {} THEN 1
        ELSE IF first >= MinRecycle(depth) THEN first ELSE 0

OnLineage(c) == Below(file, c.page) \cap promoted # {}

Keepable(depth, items) ==
    IF phase = "merge" THEN Recyclable(depth, items)
    ELSE IF OnLineage(Head(items)) THEN 0 ELSE 1

Walking == Ready /\ reading = <<>> /\ ~AllEmpty(todo)
Depth == Lowest(todo)
Item == Head(todo[Depth])
Past == [todo EXCEPT ![Depth] = Tail(@)]

\* The level that is above a child has to be there (require_chain).
Lengthened(n) == [d \in 1..(IF n > Len(chain) THEN n ELSE Len(chain)) |->
                    IF d <= Len(chain) THEN chain[d] ELSE <<>>]

RecycleChildren ==
    /\ Walking
    /\ keep' = Keepable(Depth, todo[Depth]) /\ keep' > 0
    /\ chain' = Lengthened(Depth)
    /\ UNCHANGED <<file, segments, phase, pairs, reading, todo, leaf, hand, level, merge>>

KeepChild ==
    /\ keep > 0 /\ hand = <<>> /\ leaf = <<>> /\ \A d \in 1..(Depth - 1) : chain[d] = <<>>
    /\ hand' = <<AsItem(Item)>> /\ level' = Depth
    /\ todo' = Past /\ keep' = keep - 1
    /\ UNCHANGED <<file, segments, phase, pairs, reading, leaf, chain, merge>>

RewriteChild ==
    /\ Walking /\ Keepable(Depth, todo[Depth]) = 0
    /\ IF Depth > 1
       THEN /\ Free({Item.page} \cup OwnedOverflows(file[Item.page]))
            /\ todo' = [Past EXCEPT ![Depth - 1] = file[Item.page].items]
            /\ UNCHANGED reading
       ELSE /\ phase = "merge"
            /\ Free({Item.page})
            /\ todo' = Past
            /\ reading' = file[Item.page].items
    /\ UNCHANGED <<file, segments, phase, pairs, keep, writer, promoted, before, dropped, pending>>

\* survivors_rewrite_immediate_parent_of_skip.
SkipLeaf ==
    /\ Walking /\ Keepable(Depth, todo[Depth]) = 0 /\ Depth = 1 /\ phase = "survivors"
    /\ todo' = Past
    /\ UNCHANGED <<file, segments, phase, pairs, reading, keep, writer, merge>>

-----------------------------------------------------------------------------
(* Segments.                                                               *)

Init ==
    /\ file = <<>> /\ upper = NoPage /\ lower = NoPage /\ lost = {} /\ writes = 0
    /\ held = [upper |-> NoPairs, lower |-> NoPairs]
    /\ phase = "idle" /\ pairs = {} /\ reading = <<>> /\ todo = <<>> /\ keep = 0
    /\ leaf = <<>> /\ chain = NewChain /\ hand = <<>> /\ level = 1
    /\ promoted = {} /\ before = {} /\ freed = {} /\ refreed = {} /\ dropped = {}
    /\ pending = NoSegments

\* create_segment, write_leaves: a segment from memory.
Write ==
    /\ phase = "idle" /\ upper = NoPage /\ writes < Len(WriteBounds)
    /\ \E p \in [Keys -> WriteBounds[writes + 1].entries \cup {Absent}] :
         /\ IsFiniteSet(KeysOf(p)) /\ Cardinality(KeysOf(p)) \in 1..WriteBounds[writes + 1].pairs
         /\ pairs' = {Boxed(k, p[k]) : k \in KeysOf(p)}
    /\ phase' = "write" /\ writes' = writes + 1
    /\ UNCHANGED <<file, upper, lower, lost, held, reading, todo, keep, writer, merge>>

IsWritten == NothingLeft /\ HasRoot

EndWrite ==
    /\ phase = "write" /\ IsWritten
    /\ phase' = "idle"
    /\ upper' = Root /\ held' = [held EXCEPT !.upper = Contents(file, Root)]
    /\ chain' = NewChain
    /\ UNCHANGED <<file, lower, lost, writes, sources, leaf, hand, level, merge>>

MostTombstones(counts) ==
    IF \A i \in DOMAIN counts : counts[i] = 0 THEN DOMAIN counts
    ELSE {CHOOSE i \in DOMAIN counts :
             /\ \A j \in DOMAIN counts : counts[j] <= counts[i]
             /\ \A j \in DOMAIN counts : j < i => counts[j] < counts[i]}

\* choose_nodes_to_promote, with choose_one and choose_range: where the tombstones
\* are, or else anywhere (the code takes the page's number modulo the number of
\* choices).
Parents(f, root) ==
    {n \in Below(f, root) :
        /\ f[n].depth = 1
        /\ \A m \in Below(f, root) \ {n} : n \in Below(f, m) =>
             \E i \in MostTombstones([j \in DOMAIN f[m].items |-> f[m].items[j].tombstones]) :
                n \in Below(f, f[m].items[i].page)}

ChooseRange(items) ==
    LET want == IF Len(items) <= LeavesToPromote THEN Len(items) ELSE LeavesToPromote
        sums == [i \in 1..(Len(items) - want + 1) |->
                    Sum([j \in 1..want |-> items[i + j - 1].tombstones])]
    IN  {{items[i + j - 1].page : j \in 1..want} : i \in MostTombstones(sums)}

ToPromote(f, root) ==
    IF IsParent(f, root) THEN UNION {ChooseRange(f[n].items) : n \in Parents(f, root)}
    ELSE {{root}}

\* Rewriting the tree of a root begins: prepare_merge for the destination and the
\* survivors, where nothing of a parent is left but its items.
Taken(root) == IF root # NoPage /\ IsParent(file, root)
               THEN [d \in 1..file[root].depth |-> IF d = file[root].depth THEN file[root].items ELSE <<>>]
               ELSE <<>>
FreedWith(root) == IF root = NoPage THEN {}
                   ELSE {root} \cup (IF IsParent(file, root) THEN OwnedOverflows(file[root]) ELSE {})

BeginMerge ==
    /\ phase = "idle" /\ upper # NoPage
    /\ \E leaves \in ToPromote(file, upper) :
         promoted' = leaves /\ pairs' = ItemsOf(file, leaves)
    /\ phase' = "merge" /\ before' = DOMAIN file
    /\ todo' = Taken(lower)
    /\ reading' = IF lower # NoPage /\ ~IsParent(file, lower) THEN file[lower].items ELSE <<>>
    /\ Free(FreedWith(lower))
    /\ UNCHANGED <<file, segments, keep, writer, dropped, pending>>

\* The root of a new tree is a page that was written.
RootIsWritten(root) == root = NoPage \/ root \notin before

\* write_survivors: nothing survives of a segment that is one leaf.
BeginSurvivors ==
    /\ phase = "merge" /\ IsWritten
    /\ phase' = "survivors"
    /\ pending' = [pending EXCEPT !.lower = Root, !.panicked = ~RootIsWritten(Root)]
    /\ chain' = NewChain
    /\ todo' = Taken(upper)
    /\ Free(promoted \cup (IF IsParent(file, upper) THEN FreedWith(upper) ELSE {}))
    /\ UNCHANGED <<file, segments, pairs, reading, keep, leaf, hand, level, promoted, before, dropped>>

EndMerge ==
    /\ phase = "survivors" /\ IsWritten
    /\ phase' = "prepared"
    /\ pending' = [pending EXCEPT !.upper = Root]
    /\ chain' = NewChain
    /\ UNCHANGED <<file, segments, sources, leaf, hand, level, promoted, before, freed, refreed, dropped>>

\* commit_merge: what is inactive is free once nobody reads it, which is Reclaim's
\* subject.  When the assertion at the end of write_merge fails, the thread is gone
\* with its locks and the merge is never committed.
CommitMerge ==
    /\ phase = "prepared" /\ ~pending.panicked
    /\ phase' = "idle"
    /\ upper' = pending.upper /\ lower' = pending.lower
    /\ file' = [q \in DOMAIN file \ freed |-> file[q]]
    /\ lost' = lost \cup dropped
    /\ held' = [upper |-> Contents(file, pending.upper), lower |-> Contents(file, pending.lower)]
    /\ promoted' = {} /\ before' = {} /\ freed' = {} /\ dropped' = {} /\ pending' = NoSegments
    /\ todo' = <<>>
    /\ UNCHANGED <<writes, pairs, reading, keep, writer, refreed>>

Next ==
    \/ Write \/ EndWrite
    \/ BeginMerge \/ BeginSurvivors \/ EndMerge \/ CommitMerge
    \/ TakeRest \/ RewriteLeaf
    \/ RecycleChildren \/ KeepChild \/ RewriteChild \/ SkipLeaf
    \/ AddChild \/ FlushLeaf \/ FlushPage

Spec == Init /\ [][Next]_vars

-----------------------------------------------------------------------------
(* Properties.                                                             *)

IsOverflow(f, pg) == pg \in DOMAIN f /\ f[pg] = Overflow

\* What a parent of depth d says of a child is so.
AgreesWith(f, d, c) ==
    /\ c.page \in DOMAIN f /\ f[c.page].depth = d - 1
    /\ LET node == f[c.page]
           last == node.items[Len(node.items)]
       IN  /\ c.key = last.key
           /\ c.leaves = Leaves(node) /\ c.tombstones = Tombstones(node)
           /\ c.location = "borrowed" =>
                IF d = 1 THEN c.overflow = last.keyPage /\ c.overflow # NoPage
                ELSE last.location = "borrowed" /\ c.overflow = last.overflow
           /\ c.location = "inline" /\ d = 1 => last.keyPage = NoPage

\* A node: keys ascend, also those under the children of a parent; it is not larger
\* than a page; overflows are there, and what it says of its children is so.
Sound(f, pg) ==
    LET node == f[pg]
        items == node.items
    IN  /\ items # <<>>
        /\ \A i, j \in DOMAIN items : i < j => items[i].key < items[j].key
        /\ \A i \in DOMAIN items :
             \A q \in Overflows(node.depth, items[i]) : IsOverflow(f, q)
        /\ IF node.depth = 0 THEN LeafSize(items) <= LeafRoom
           ELSE /\ ParentSize(items) <= ParentRoom
                /\ \A i \in DOMAIN items :
                     /\ AgreesWith(f, node.depth, items[i])
                     /\ \A k \in KeysUnder(f, items[i].page) :
                          k <= items[i].key /\ (i > 1 => items[i - 1].key < k)

Roots == {upper, lower, pending.upper, pending.lower} \ {NoPage}

\* Every tree, those of a merge that is not committed yet among them, is sound: a
\* merge keeps nodes of the old tree under parents that it writes.
TreesAreSound ==
    \A root \in Roots : root \in DOMAIN file /\ \A n \in Below(file, root) : Sound(file, n)

\* The places where the trees of some roots refer to pages that they own.
References(f, roots) ==
    {r \in [in : {NoPage}, item : DOMAIN roots, what : {"root"}] : roots[r.item] # NoPage}
      \cup UNION {{r \in [in : {n}, item : DOMAIN f[n].items, what : {"child", "key", "value"}] :
                      PageOf(f[n].depth, f[n].items[r.item], r.what) # NoPage} :
                  n \in UNION {Nodes(f, roots[j]) : j \in DOMAIN roots}}
Target(f, roots, r) ==
    IF r.what = "root" THEN roots[r.item] ELSE PageOf(f[r.in].depth, f[r.in].items[r.item], r.what)
OwnedBy(f, roots) == {Target(f, roots, r) : r \in References(f, roots)}
OneOwner(f, roots) == Cardinality(OwnedBy(f, roots)) = Cardinality(References(f, roots))

Old == <<upper, lower>>
New == <<pending.upper, pending.lower>>

\* No page has two owners, within a tree or between the two segments: a node that
\* was kept, or an overflow that went from one leaf to another, would be freed while
\* the other owner still needs it.
PagesHaveOneOwner ==
    /\ OneOwner(file, Old)
    /\ phase = "prepared" => OneOwner(file, New) /\ OwnedBy(file, New) \cap freed = {}
    /\ refreed = {}

\* "all those pages must end up in one of the following places: the new dest
\* segment, the new from segment (survivors), inactive" (prepare_merge): nothing
\* that the new trees need is freed, and nothing is left that no tree needs, but for
\* the keys of dropped tombstones.
PagesAreAccountedFor ==
    /\ phase = "idle" => DOMAIN file = OwnedBy(file, Old) \cup lost
    /\ phase = "prepared" => DOMAIN file = OwnedBy(file, New) \cup freed \cup lost \cup dropped

\* The assertion at the end of write_merge: the root of the new tree is in the
\* buffer of a writer, so it was written by this merge.
NewRootIsWritten == ~pending.panicked

\* What the merges do to the pairs is what Segments says.
Abstract == INSTANCE Segments WITH
    upper <- held.upper,
    lower <- held.lower

ImplementsSegments == Abstract!Spec
=============================================================================
