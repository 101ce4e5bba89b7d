--------------------------- MODULE BlockAllocator ---------------------------
(***************************************************************************)
(* Which pages of the file are handed out: lsm/src/lib.rs, the block lists *)
(* of Space, get_block, and the page writers that take pages out of the    *)
(* blocks they were given.                                                 *)
(*                                                                         *)
(* Several page writers work at the same time (one per segment that is     *)
(* written or merged), each holding blocks it has only begun to use. What  *)
(* pages are written for, and when a segment's pages become free, is left  *)
(* to LsmTree and Reclaim.                                                 *)
(***************************************************************************)
EXTENDS Integers, FiniteSets, Sequences

CONSTANTS
    Writer,          \* page writers
    PagesPerBlock,   \* settings: how much the file grows at a time
    FirstOfGroup,    \* MINIMUM_SIZE_FIRST_BLOCK_IN_GROUP
    NextOfGroup,     \* the least block that a running group asks for
    RecentLimit,     \* add_free_blocks: lists in recent_free before they are sorted
    HeaderOverflows, \* what write_header may need: [pages, whole] records
    MaxPage,         \* bound: the last page of the file
    MaxKnown         \* bound: pages of an overflow whose length is known

ASSUME AllocatorAssumption ==
    /\ PagesPerBlock \in Nat \ {0, 1}
    /\ FirstOfGroup \in 2..PagesPerBlock
    /\ NextOfGroup \in Nat \ {0, 1}
    /\ RecentLimit \in Nat \ {0}
    /\ MaxPage \in Nat \ {0}
    /\ MaxKnown \in Nat
    /\ HeaderOverflows \subseteq [pages : Nat \ {0}, whole : BOOLEAN]

HeaderPage == 1
PageNumber == HeaderPage..MaxPage

Block == {b \in [first : PageNumber, last : PageNumber] : b.first <= b.last}

PageBlock(first, last) == [first |-> first, last |-> last]
Pages(b) == b.first..b.last
CountPages(b) == b.last - b.first + 1
PagesOf(S) == UNION {Pages(b) : b \in S}
SetOf(s) == {s[i] : i \in DOMAIN s}

VARIABLES space,     \* free_blocks, recent_free and next_page
          writers,   \* what each page writer holds
          used,      \* pages of finished segments
          overflow,  \* where the header in the file goes on, {} or one block
          goesOn,    \* where the header goes on that is being written
          fileLast   \* the last whole page of the file

allocatorVars == <<space, writers, used, overflow, goesOn, fileLast>>

\* A page writer: its inventory, what it has written, and the group of pages it
\* is writing for an overflow (known is 0 when its length is not known).
FreshWriter == [blocks |-> <<>>, mine |-> {}, inGroup |-> FALSE,
                inventory |-> <<>>, group |-> <<>>, known |-> 0]

PageWriter ==
    [blocks : Seq(Block), mine : SUBSET PageNumber, inGroup : BOOLEAN,
     inventory : Seq(Block), group : Seq(Block), known : 0..MaxKnown]

AllocatorTypeOK ==
    /\ space \in [free : SUBSET Block, recent : SUBSET SUBSET PageNumber, next : 1..MaxPage + 1]
    /\ writers \in [Writer -> PageWriter]
    /\ \A w \in Writer : Len(writers[w].blocks) <= 2 /\ Len(writers[w].inventory) <= 2
    /\ used \subseteq PageNumber
    /\ overflow \subseteq Block /\ goesOn \subseteq Block
    /\ fileLast \in PageNumber

AllocatorInit ==
    /\ space = [free |-> {}, recent |-> {}, next |-> HeaderPage + 1]
    /\ writers = [w \in Writer |-> FreshWriter]
    /\ used = {}
    /\ overflow = {} /\ goesOn = {}
    /\ fileLast = HeaderPage

-----------------------------------------------------------------------------
(* Space.  free_blocks is always sorted by size, largest first, and blocks *)
(* of the same size by page.                                               *)

Precedes(a, b) ==
    \/ CountPages(a) > CountPages(b)
    \/ CountPages(a) = CountPages(b) /\ a.first <= b.first

FirstOf(S) == CHOOSE a \in S : \A b \in S : Precedes(a, b)

\* sort_and_consolidate: the blocks that cover the pages of P with none of them
\* next to another.
Consolidated(P) ==
    {b \in Block : Pages(b) \subseteq P /\ b.first - 1 \notin P /\ b.last + 1 \notin P}

\* organize_free_blocks.  A block at the end of the file is given back.
Organized(s) ==
    LET blocks == Consolidated(PagesOf(s.free) \cup UNION s.recent)
        atEnd == {b \in blocks : b.last = s.next - 1}
    IN  [free |-> blocks \ atEnd, recent |-> {},
         next |-> IF atEnd = {} THEN s.next ELSE FirstOf(atEnd).first]

\* add_free_blocks.
WithFree(s, P) ==
    LET t == [s EXCEPT !.recent = @ \cup {P}]
    IN  IF Cardinality(t.recent) >= RecentLimit THEN Organized(t) ELSE t

\* The block requests.  starts are the pages the caller would like a block to
\* begin at; after is 0 when it does not matter.
MinimumSize(n) == [kind |-> "minimum", size |-> n, starts |-> {}, after |-> 0]
ExactSize(n) == [kind |-> "exact", size |-> n, starts |-> {}, after |-> 0]
EarlyExactSize(n) == [kind |-> "early", size |-> n, starts |-> {}, after |-> 0]
StartOrAny(starts) == [kind |-> "any", size |-> 0, starts |-> starts, after |-> 0]
StartOrAfterMinimumSize(starts, after, n) ==
    [kind |-> "minimum", size |-> n, starts |-> starts, after |-> after]

\* What the find_ functions look at: blocks that begin where the caller wants
\* one, otherwise the blocks that are large and late enough.
CandidatesAnywhere(free, req) ==
    LET starting == {b \in free : b.first \in req.starts}
    IN  IF starting # {} THEN starting
        ELSE {b \in free : CountPages(b) >= req.size}

Candidates(free, req) ==
    LET starting == {b \in free : b.first \in req.starts}
    IN  IF starting # {} THEN starting
        ELSE {b \in free : CountPages(b) >= req.size /\ b.first > req.after}

EndSizeOfBlock(free, next, req) ==
    IF free = {} \/ next \in req.starts \/ req.size < PagesPerBlock
    THEN PagesPerBlock ELSE req.size

\* How many pages come from the end of the file when no free block will do.
EndSize(free, next, req) ==
    IF req.kind = "early" THEN req.size
    ELSE IF free = {} \/ next \in req.starts \/ req.size < PagesPerBlock
    THEN PagesPerBlock ELSE req.size

SplitOverlapping(b, n) ==
    [block |-> PageBlock(b.first, b.first + n - 1), rest |-> b.first + n - 1..b.last]

\* An exact request is given the front of the block.
Split(b, n) ==
    [block |-> PageBlock(b.first, b.first + n - 1), rest |-> b.first + n..b.last]

\* get_block: the block and what is left of the space.
GetBlock(s0, req) ==
    LET s == IF s0.free = {} /\ s0.recent # {} THEN Organized(s0) ELSE s0
        candidates == Candidates(s.free, req)
        fromEnd == s.free = {} \/ s.next \in req.starts \/ candidates = {}
        n == EndSize(s.free, s.next, req)
        chosen == FirstOf(candidates)
        split == Split(chosen, req.size)
    IN  IF fromEnd
        THEN [block |-> PageBlock(s.next, s.next + n - 1),
              space |-> [s EXCEPT !.next = @ + n]]
        ELSE IF req.kind \in {"exact", "early"}
        THEN [block |-> split.block,
              space |-> [s EXCEPT !.free = @ \ {chosen},
                             !.recent = IF split.rest = {} THEN @ ELSE @ \cup {split.rest}]]
        ELSE [block |-> chosen, space |-> [s EXCEPT !.free = @ \ {chosen}]]

-----------------------------------------------------------------------------
(* Page writers.                                                           *)

\* get_page_from: the inventory without its first page.
Rest(blocks) ==
    IF CountPages(blocks[1]) = 1 THEN Tail(blocks)
    ELSE [blocks EXCEPT ![1].first = @ + 1]

\* A new block that follows the only page left is joined to it.
Restocked(blocks, b) ==
    IF blocks # <<>> /\ b.first = blocks[1].last + 1
    THEN <<PageBlock(blocks[1].first, b.last)>>
    ELSE Append(blocks, b)

RunsLow(blocks) == Len(blocks) = 1 /\ CountPages(blocks[1]) = 1

\* ensure_inventory and ensure_group_inventory: nothing is requested while
\* there is more than one page.
Stocked(blocks, req) ==
    IF blocks = <<>> \/ RunsLow(blocks)
    THEN LET got == GetBlock(space, req)
         IN  [blocks |-> Restocked(blocks, got.block), space |-> got.space]
    ELSE [blocks |-> blocks, space |-> space]

\* ensure_inventory.
InventoryRequest(blocks) ==
    IF blocks = <<>> THEN MinimumSize(2) ELSE StartOrAny({blocks[1].last + 1})

\* ensure_group_inventory.
GroupRequest(inventory, group) ==
    IF inventory = <<>> THEN MinimumSize(FirstOfGroup)
    ELSE IF group = <<>>
    THEN StartOrAfterMinimumSize({inventory[1].last + 1}, inventory[1].first, FirstOfGroup)
    ELSE StartOrAfterMinimumSize(
            {inventory[1].last + 1} \cup {group[i].last + 1 : i \in DOMAIN group},
            group[1].first, NextOfGroup)

\* add_page_no_reorder: a page extends the first block that ends before it.
WithPage(blocks, pg) ==
    LET ends == {i \in DOMAIN blocks : blocks[i].last + 1 = pg}
        first == CHOOSE i \in ends : \A j \in ends : i <= j
    IN  IF ends = {} THEN Append(blocks, PageBlock(pg, pg))
        ELSE [blocks EXCEPT ![first].last = pg]

WritePageAt(pg) == fileLast' = IF pg > fileLast THEN pg ELSE fileLast

\* write_page.
WritePage(w) ==
    LET wr == writers[w]
        stocked == Stocked(wr.blocks, InventoryRequest(wr.blocks))
        pg == stocked.blocks[1].first
    IN  /\ ~wr.inGroup
        /\ stocked.space.next <= MaxPage + 1
        /\ space' = stocked.space
        /\ writers' = [writers EXCEPT ![w] =
                          [wr EXCEPT !.blocks = Rest(stocked.blocks), !.mine = @ \cup {pg}]]
        /\ WritePageAt(pg)
        /\ UNCHANGED <<used, overflow, goesOn>>

\* begin_group: an overflow of known length is one block.
BeginGroup(w, known) ==
    LET wr == writers[w]
        got == GetBlock(space, EarlyExactSize(known))
    IN  /\ ~wr.inGroup
        /\ IF known = 0 THEN UNCHANGED space
           ELSE got.space.next <= MaxPage + 1 /\ space' = got.space
        /\ writers' = [writers EXCEPT ![w] =
              [wr EXCEPT !.inGroup = TRUE, !.known = known, !.group = <<>>,
                         !.inventory = IF known = 0 THEN <<>> ELSE <<got.block>>]]
        /\ UNCHANGED <<used, overflow, goesOn, fileLast>>

\* write_group_page.
WriteGroupPage(w) ==
    LET wr == writers[w]
        stocked == IF wr.known = 0
                   THEN Stocked(wr.inventory, GroupRequest(wr.inventory, wr.group))
                   ELSE [blocks |-> wr.inventory, space |-> space]
        pg == stocked.blocks[1].first
    IN  /\ wr.inGroup
        /\ wr.known = 0 \/ wr.inventory # <<>>
        /\ stocked.space.next <= MaxPage + 1
        /\ space' = stocked.space
        /\ writers' = [writers EXCEPT ![w] =
              [wr EXCEPT !.inventory = Rest(stocked.blocks), !.mine = @ \cup {pg},
                         !.group = WithPage(wr.group, pg)]]
        /\ WritePageAt(pg)
        /\ UNCHANGED <<used, overflow, goesOn>>

\* end_group: what is left of the inventory is free again.
EndGroup(w) ==
    LET wr == writers[w] IN
    /\ wr.inGroup
    /\ wr.group # <<>>
    /\ wr.known # 0 => wr.inventory = <<>>
    /\ space' = IF wr.inventory = <<>> THEN space
                ELSE WithFree(space, PagesOf(SetOf(wr.inventory)))
    /\ writers' = [writers EXCEPT ![w] =
          [wr EXCEPT !.inGroup = FALSE, !.inventory = <<>>, !.group = <<>>, !.known = 0]]
    /\ UNCHANGED <<used, overflow, goesOn, fileLast>>

GiveBackInventory(w) ==
    space' = IF writers[w].blocks = <<>> THEN space
             ELSE WithFree(space, PagesOf(SetOf(writers[w].blocks)))

\* PageWriter::end: the segment is finished.
End(w) ==
    /\ ~writers[w].inGroup
    /\ writers[w].mine # {}
    /\ GiveBackInventory(w)
    /\ used' = used \cup writers[w].mine
    /\ writers' = [writers EXCEPT ![w] = FreshWriter]
    /\ UNCHANGED <<overflow, goesOn, fileLast>>

\* Pages of old segments become free (add_inactive, maybe_release_segment).
AddFreeBlocks(P) ==
    /\ P # {} /\ goesOn = {}
    /\ used' = used \ P
    /\ space' = WithFree(space, P)
    /\ UNCHANGED <<writers, overflow, goesOn, fileLast>>

-----------------------------------------------------------------------------
(* The header and opening the file.                                        *)

\* write_header when the list of segments does not fit the header page.  What
\* does not fit is written first, at the start of a new block, and need not fill
\* the last of its pages (whole).
WriteHeaderOverflow(more) ==
    LET got == GetBlock(space, ExactSize(more.pages))
        full == got.block.first + more.pages - (IF more.whole THEN 1 ELSE 2)
    IN  /\ goesOn = {}
        /\ got.space.next <= MaxPage + 1 /\ full <= MaxPage
        /\ space' = got.space
        /\ goesOn' = {got.block}
        /\ WritePageAt(full)
        /\ UNCHANGED <<writers, used, overflow>>

\* Then the header page is written, which names that block or, when all fits
\* again, none; only then the old block is free.
WriteHeader ==
    /\ overflow # {} \/ goesOn # {}
    /\ overflow' = goesOn
    /\ goesOn' = {}
    /\ space' = IF overflow = {} THEN space ELSE WithFree(space, PagesOf(overflow))
    /\ UNCHANGED <<writers, used, fileLast>>

\* The process dies, maybe with a header half written, and the file is opened:
\* what the header in the file does not use is free (list_all_blocks, invert).
\* Some finished segments were not committed or waited for a cursor.
ReopenFile ==
    \E lost \in SUBSET used :
        LET kept == used \ lost
            inUse == {HeaderPage} \cup kept \cup PagesOf(overflow)
            last == CHOOSE p \in inUse : \A q \in inUse : q <= p
            end == IF fileLast > last THEN fileLast ELSE last
        IN  /\ used' = kept
            /\ space' = [free |-> Consolidated((1..end) \ inUse), recent |-> {},
                         next |-> fileLast + 1]
            /\ writers' = [w \in Writer |-> FreshWriter]
            /\ goesOn' = {}
            /\ UNCHANGED <<overflow, fileLast>>

WriterStep(w) ==
    \/ WritePage(w)
    \/ \E known \in 0..MaxKnown : BeginGroup(w, known)
    \/ WriteGroupPage(w)
    \/ EndGroup(w)
    \/ End(w)

\* While a header is written the space is locked: a page writer can only use what
\* it has.
AllocatorNext ==
    \/ \E w \in Writer : WriterStep(w) /\ (goesOn # {} => UNCHANGED space)
    \/ \E P \in SUBSET used : AddFreeBlocks(P)
    \/ \E more \in HeaderOverflows : WriteHeaderOverflow(more)
    \/ WriteHeader
    \/ ReopenFile

AllocatorSpec == AllocatorInit /\ [][AllocatorNext]_allocatorVars

-----------------------------------------------------------------------------
(* Properties.                                                             *)

\* Who a page belongs to: one entry for each list, writer or use it is in.
Claims(p) ==
    (IF p = HeaderPage THEN 1 ELSE 0)
    + Cardinality({b \in space.free : p \in Pages(b)})
    + Cardinality({P \in space.recent : p \in P})
    + Cardinality({w \in Writer : p \in PagesOf(SetOf(writers[w].blocks))})
    + Cardinality({w \in Writer : p \in PagesOf(SetOf(writers[w].inventory))})
    + Cardinality({w \in Writer : p \in writers[w].mine})
    + (IF p \in used THEN 1 ELSE 0)
    + Cardinality({b \in overflow : p \in Pages(b)})
    + Cardinality({b \in goesOn : p \in Pages(b)})

\* Every page of the file is free, in one writer's hands, or in one use, and
\* nothing beyond next_page is: however the writers' requests, the lists they
\* give back and the splitting and joining of blocks interleave, and wherever the
\* writing of a header is cut off, no page is given to two of them and none is
\* lost.  The header in the file keeps its block until another one is there.
\* (get_block, organize_free_blocks, write_header)
EveryPageOnce ==
    \A p \in 1..MaxPage + 1 : Claims(p) = IF p < space.next THEN 1 ELSE 0

\* The blocks of an overflow that is being written are in an order that can be
\* encoded: the first one comes before all others, and a page that is left when
\* the group runs low goes on from one of them. These are assertions of
\* ensure_group_inventory, get_group_page and encode_as_u64_list.
GroupIsEncodable ==
    \A w \in Writer :
        LET wr == writers[w]
            blocks == SetOf(wr.group)
        IN  wr.group # <<>> =>
                /\ \A b \in blocks \ {wr.group[1]} : b.first > wr.group[1].first
                /\ \A b \in SetOf(wr.inventory) : b.first > wr.group[1].first
                /\ RunsLow(wr.inventory) =>
                       wr.inventory[1].first \in {b.last + 1 : b \in blocks}
                /\ space.next > wr.group[1].first

\* An overflow whose length is known stays in one piece.  (begin_group)
KnownOverflowIsContiguous ==
    \A w \in Writer :
        writers[w].known # 0 =>
            /\ Len(writers[w].group) <= 1
            /\ Cardinality(PagesOf(SetOf(writers[w].group))
                           \cup PagesOf(SetOf(writers[w].inventory))) = writers[w].known

\* What a comment in DatabaseFile::new says of opening a file: it finds all that
\* is in use, and only other blocks are considered free.
OnlyUnusedIsFree ==
    \A p \in used \cup PagesOf(overflow) :
        p < space.next /\ p \notin PagesOf(space.free)
=============================================================================
