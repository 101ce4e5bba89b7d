# Verification of Elmo and its LSM storage engine

Elmo is a document database server that speaks the MongoDB wire protocol. Its
storage engine is an LSM tree library, `lsm`, written from scratch; almost all
of the concurrency, the ordering and the crash behaviour of the whole program
is in that one crate. This directory holds TLA+ models of it and of the layers
above it (collections and indexes, documents with their queries and updates,
the server's cursors), the TLC runs that check them on small instances, and
proofs of the most important results for every instance.

To run it: `tlc -config LsmTree_merges.cfg MCLsmTree.tla` (each run's module
and `.cfg` are in the table of section 5), `tlapm Space_proofs.tla` (each
`*_proofs` module by itself; the longest takes some minutes).

## 1. The system

Line numbers are of `lsm/src/lib.rs` unless another file is named; `SL` is
`storage/lsm/src/lib.rs`.

| part | state it keeps | operations | interacts with |
|---|---|---|---|
| `lsm` header (`InnerPart.header`, `HeaderData`) | lists `incoming`, `waiting`, `regular`, `change_counter`, `merge_counter` | `commit_segment`, `prepare_merge*`, `commit_merge*`, `write_header`, `read_header`, `open_cursor` | read by cursors, written by writers and merge threads under an `RwLock` |
| `lsm` space (`Space`) | `free_blocks`, `recent_free`, `next_page`, `rlocks`, `zombies`, `dependencies` | `get_block`, `add_free_blocks`, `organize_free_blocks`, `add_rlock`, `release_rlock`, `add_inactive`, `add_dependencies`, `maybe_release_segment` | everything that writes pages, every cursor |
| `lsm` merge threads | one thread, one channel and one `mergelock` per level | `merge_loop`, `merge`, `guts`, `notify_work`, `needs_merge`, `stop` | the header, the space, each other (desperate levels) |
| `lsm` merge writer | none between calls | `write_merge`, `write_survivors`, `merge_rewrite_leaf/parent`, `merge_process_pair`, `ParentNodeWriter` | reads segments, writes pages |
| `lsm` cursors | position, direction, current child | `MultiCursor`, `MergeCursor`, `LivingCursor`, `RangeCursor`, `PrefixCursor`, `PageCursor` | page cache, space (read locks) |
| `lsm` page cache (`PageCache`) | `pages: HashMap<PageNum, Weak<_>>` | `get`, `put` | pages of live cursors |
| `lsm` page writer (`PageWriter`) | block inventory, group inventory | `write_page`, `begin_group`, `write_group_page`, `end` | space |
| `storage/lsm` | in a writer: `pending`, the ids given out, the collection writer | `begin_write`, `commit`, `insert`, `update`, `delete`, `create_indexes`, `rename_collection`, ... | `lsm` |
| `storage/sqlite3` | a SQLite database | the same interface | vendored `rust-sqlite` |
| `elmo` | none between calls | insert, update, find_and_modify, delete, find, aggregate, query planning, matcher | a storage |
| `bson`, `misc` | none | encoding, comparison, varints, `Lend` | all |
| `server` | per connection: table of open query cursors | `handle_client`, `reply_2004`, `reply_2005` ... | `elmo` |
| `fsharp_*` | - | prototype kept "for reference purposes" | - |

How they interact. A writer gets the write lock (`get_write_lock`, after
waiting while incoming is desperate), writes its pairs as a segment through a
`PageWriter`, and commits it: the header is changed and written under the header
lock and the space lock, and a `Work` message goes to the incoming thread. That
thread and those of `waiting` and of each regular level promote segments in two
halves: `prepare_merge*` reads a snapshot of the header and writes new pages,
`commit_merge*` changes the header under the write lock; then the next level is
told. Merge locks, one per level, are held over both halves. A cursor takes a
read lock on all segments of the header when it is opened; `Space` keeps the
pages of replaced segments (zombies), and of what shares pages with them
(dependencies), until no cursor needs them. `storage/lsm` maps collections,
records and indexes to keys of that store, one transaction at a time, and
`elmo` turns commands into such transactions.

Which behaviours are hard, and what makes each part correct:

| part | hard | correct means |
|---|---|---|
| lists and merges | merges prepared from old snapshots; dropping tombstones; restarts between the halves | no merge step changes what a reader sees; the lists implement a map |
| reclaiming | pages shared by old and new segments; root pages reused; cursors dropped in any order | nothing in use is free, nothing waits for ever |
| allocation | interleaved writers with inventories; overflow groups; reopening | no page twice or lost, groups can be encoded |
| merge threads | lost wakeups; everyone waiting on everyone; panics and poisoned locks; stop | a quiet system needs no merge, writers proceed, stop returns |
| collections | transactions that do not see their own writes; ids; stale index entries | names, ids, records and entries agree |
| merge writer | which nodes are rewritten, recycled or kept; who owns an overflow | sound trees that hold the merged pairs, every page owned once and none lost |
| cursors | direction changes, equal keys in several segments, tombstones | a cursor shows the merged pairs in order, however it is called |
| header file | a crash between its overflow and its first page | the old or the new header is read, with its pages |
| page cache | pages dropped after their read lock | no page is read that was reused |
| planning, matching, updates | arrays, missing fields, kinds of numbers; order of operators; commits while a find runs | indexes find what matches, commands change what matches and nothing else |
| server cursors | getMore, killCursors, dropped collections, $out | a cursor's rows come once each, and it ends |

Everything in the code that is hard to test, with its line and the properties
about it, is listed under "hazards" in `PROJECT.json`.

## 2. Modules

| module | models | lines of Rust |
|---|---|---|
| `Pairs` | pairs of keys and values, tombstones, how segments shadow each other | `MergeCursor`, `LivingCursor`, `merge_rewrite_leaf` |
| `KvStore` | the abstract promise: a map that changes by whole batches | - |
| `LsmTree` | segment lists, commits, promotion from incoming, merges, restart, the view of a cursor | `InnerPart` 8035-9493, `necessary_tombstone`, `survivors_*` |
| `RunningTree` | `LsmTree` with the threads that make its merges: who was told, who panicked | 7475-7771, 8207-8221, the notifying ends of the commits |
| `LsmTree_proofs` | theorems about `LsmTree` and `RunningTree`, and lemmas about `Pairs` | - |
| `Reclaim` | read locks, zombies, dependencies, free pages | `Space` 6783-6972 with its callers |
| `BlockAllocator` | free block lists, block requests, page writers and overflow groups, the header's overflow, reopening | `BlockList`, `Space::get_block`, `PageWriter` 9497-9795 |
| `MergeLevels` | threads, channels, merge locks, desperate levels, write lock, stop | 7387-7786, 8207-8334, the notifying ends of the commits |
| `Segments` | the abstract promise of a merge: what moves from one segment to the next | - |
| `Trees` | pages of leaves, parents and overflows; writing a segment, merging it into the next, survivors, what becomes inactive | 2895-4800, `prepare_merge`, `commit_merge` |
| `TreeInvariant`, `Trees_proofs` | what holds of `Trees` between any two steps, and the theorems about it | - |
| `TreeContents`, `TreeContents_proofs` | what becomes of the pairs in between, where cursors stand, and that `Trees` implements `Segments` and `TreeCursors` implements `SortedCursor` | - |
| `SortedCursor` | the abstract promise of a cursor: a place among sorted keys | - |
| `TreeCursors` | cursors on one tree | `LeafCursor`, `ParentCursor`, `PageCursor` |
| `Cursors` | cursors over several segments | `MultiCursor`, `LivingCursor`, `RangeCursor`, `PrefixCursor`, `MergeCursor` |
| `Collections` | keys of names, properties, indexes, records and entries; writers; the commands that use them | `MyWriter` (SL 862-1500), `elmo` 2015-2580 |
| `Bson` | values, their order and that of their encoding, paths into documents, keys that may be stored | `bson` |
| `Matcher` | predicates of a query, and whether a document matches | `elmo/src/matcher.rs` |
| `Updates` | update operators, their conflicts, upserts | `elmo/src/lib.rs` 1100-2000 |
| `Plans` | index entries of a document, the choice of an index, bounds, the scan | `elmo` 2590-3000 and 5160-5322, SL 430-700 |
| `Documents` | insert, update, find_and_modify, delete, index commands, and finds that they overtake | `elmo` 1800-2580, SL 560-760 |
| `Server` | connections and their cursors, `$out` | `server/src/main.rs` |
| `Space_proofs` | the theorems about `Reclaim` and `BlockAllocator`, the two sides of `Space` | - |
| `MergeLevels_proofs`, `Collections_proofs`, `Server_proofs`, `Cursors_proofs` | the theorems about the module each is named for | - |
| `MC*` | definitions for TLC: symmetry and operators as constants | - |

The LSM is cut along its locks. `LsmTree` follows the data and leaves pages out;
`RunningTree` restricts its merges to those that some thread was told to make;
`Reclaim` follows pages as a set and leaves keys and levels out;
`BlockAllocator` follows page numbers and blocks and leaves out why pages become
free; `MergeLevels` follows control and leaves data out. `Trees`
follows pages and pairs of two neighbouring segments through merges and leaves
out what happens in between; `TreeCursors` extends it with a cursor on what was
written, and `Cursors` takes such cursors as the positions `SortedCursor`
promises. `Collections` stands on the store as `KvStore` promises it,
`Documents` on collections whose indexes are complete (`IndexesAreComplete`),
and `Server` on iterators over one commit, which is what a find's rows are when
`Documents` has answered it. Each leaves to another what that one models,
and says so in its heading.

### How state and actions correspond to the code

`LsmTree`. `incoming`, `waiting`, `regular` are the lists of `HeaderData`. A
segment is the function from keys to pairs it holds, and whether its root page
is a leaf or a parent, since the code decides by that. `pendingIncoming` and
`pending[t]` are `PendingMergeFromIncoming` and `PendingMerge` between the two
halves of a merge: thread `t` promotes into regular level `t`, thread 0 out of
waiting. `CommitSegment` is `commit_segment`; `PrepareMergeFromIncoming` takes
the oldest run of one page type, `WaitingAfter` is the loop at 9312;
`PrepareMerge` chooses any range of leaves that `choose_nodes_to_promote` might
choose, drops tombstones as `necessary_tombstone` does, and leaves survivors
where `write_survivors` does; `CommitMerge` replaces source and destination.
`Reopen` loses what was prepared and keeps the header. `View` is what
`open_cursor` and `LivingCursor` show. `commits` and `lastBatch` are history.

`RunningTree`. `told` are the threads that were sent a message since the file was
opened; one of them merges for as long as its level needs it, and the others sit
in `rx.recv()`. `TellNext` is `notify_work` at the end of a commit and of a
thread that is held back (`IncomingHeldBack`, `ThreadHeldBack`): the sender
panics when the receiver has. `LastPanics` is the thread of the last level, and
`MeetsPoisonedLock` the one before it. `ReopenAll` forgets who was told.
`arrived` is history: the threads whose level something was committed into.
That a thread which finds nothing waits again is not a step here, since whatever
changes its level tells it (`QuietMeansSettled` of `MergeLevels`).

`Reclaim`. A segment is its root page and the set of its pages. `held` is
`rlocks`; the code stores the roots only, and so do the operators that ask it,
while the model remembers whole segments so that properties can say what a
cursor reads. `Released` is the recursion of `maybe_release_segment` as the
least set closed under it. `FinishMerge` is the end of `prepare_merge`, with
every way in which the new segments may share pages with the old ones, and the
overflow of a dropped tombstone's key, which is in neither list.

`BlockAllocator`. `space` is `free_blocks`, `recent_free` and `next_page`. A
page writer has the inventory of at most two blocks and the group of the
overflow it is writing. `GetBlock` is `get_block` for each kind of request; the
order of the free list is the operator `Precedes`, so "first in the list" means
what it means in the code. `WriteHeaderOverflow` and `WriteHeader` are the two writes of `write_header`,
between which the process may die; `goesOn` is the block that no header in the
file names yet. `ReopenFile` is what of `read_header` and `DatabaseFile::new` decides
which pages are used.

`MergeLevels`. `thread` is where each `merge_loop` is; `mergelock` and
`poisoned` are the mutexes, `queue` the channels, `writelock` the write lock.
`regular` counts what a level holds in merges, and `tombstones` says which
levels have to be merged for their tombstones. `LockSecond` of the last level
panics, because it indexes a lock that does not exist; a panic poisons the locks
that are held, and `Die` is a thread that met an error. `stop` is `BeginStop`
and `Join`, one level after the other. `Init` is an empty file, `Reopened` one that
was used before (`Files`), whose threads nobody has told anything.

`Collections`. `store` is what is committed, a function on structured keys;
`tx` is the writer (`MyWriter`): `pending`, the ids it gave out, the collection
writer it keeps (`cw`). Operators such as `Inserted(t, n, doc)` are the methods
of `StorageWriter`, which take a writer to a writer; all they read is `store`,
as the writer's cursor was opened before. Actions are commands of `elmo`:
insert, update, delete, create_indexes and delete_indexes do several operations
in one transaction, the others one, then `Commit` or `Abandon`. What an update
or a delete matches is a committed document; the record it changes is the one
that the index on `_id` leads to.

`Trees`. `file` is the pages in use, a function on page numbers; a page is a
leaf, a parent or an overflow, and an item of a parent is `ItemForParent` with
the last key, the page that key's overflow is on, and the counts of leaves and
tombstones. Sizes are weights. Writing goes by steps, so that every state between
two of them can be reasoned about; a merge is alone with its pages until it is
committed, so how fine the steps are is of no consequence to anyone else. The
writer is `leaf` (`LeafUnderConstruction`), `chain` (the `ParentNodeWriter`s,
whose last entry is `result_one`) and `hand`, the item that `add_child` has got for
`level`. `TakeRest`, `TakeBetween`, `Replace` and `KeepPair` are what
`merge_process_pair` and `merge_rewrite_leaf` do with the next pair and the leaf
they are `reading`; `RecycleChildren` with `KeepChild`, `RewriteChild` and
`SkipLeaf` are `merge_rewrite_parent` and the survivors' `rewrite_node`, which
recurse over the parents in the code, and here over `todo`, the items left at each
depth; `AddChild` is `add_child` with `emit`, `FlushLeaf` and `FlushPage` what
`done` and `require_chain` write when a level has to be closed. `Write` to
`EndWrite` is `write_leaves`; `BeginMerge` is `choose_nodes_to_promote` and the
beginning of `prepare_merge`, `BeginSurvivors` that of `write_survivors`,
`EndMerge` the end of `prepare_merge`; `CommitMerge` frees what is inactive. `freed`
and `dropped` are what the merge has collected so far, `promoted` and `before`
what it began with. Operators have the names of the functions. `held` remembers
the pairs, so that the refinement of `Segments` can be stated.

`TreeCursors` and `Cursors`. A cursor is a value, and a method an operator that
takes a cursor to a cursor: `SetChild`, `MoveToPage`, `Search` and `SeekIn` on
trees; `FindMin`, `SortSubs`, the flags and `MultiNext`/`MultiPrev` over
segments. Every call is an action, in any order, as callers may use them. In
`Cursors`, `eaten` is what a merge has been told of shadowed overflows.

`Documents`. `docs` is the collection by record ids, `indexes` what
`list_indexes` yields. A command is one step, because `get_write_lock` is held
from its first read to its commit. A find is `StartFind` (list the indexes,
choose one), `ScanIndex` (collect record ids), `ReadRecords` (look each up and
match) with commits in between. `Bson`, `Matcher`, `Updates` and `Plans` are pure:
each operator is a function of the code on values, kept to the kinds of values
that the code treats differently.

`Server`. `cursors` is each connection's `cursor_num` and table. A message is an
action; `$out` is four, since it commits twice. `Batch`, `DoLimit` and `Reply`
are `grab`, `do_limit` and what the replies do with the cursor. `seen` is what
the client has been given. Rows are numbers.

## 3. Properties

Each is explained where it is defined. The main ones:

- `LsmTree`: `MergesPreserveView` (no merge or restart changes what a reader
  sees), `DroppedTombstonesHideNothing`, `PendingIsCurrent` (the assertions of
  `commit_merge`), `NoTombstoneInLastLevel`, `ImplementsKvStore` (refinement of
  `KvStore`).
- `RunningTree`: `MergesSettle` (liveness): a level that something came into
  settles, whatever was lost in restarts before. It is not said of a level that
  nothing came into since the file was opened: what needed a merge when it was
  closed stays, since `DatabaseFile::new` sends no message.
- `Reclaim`: `NothingInUseIsFree`, `EveryPageHasOnePlace`,
  `NothingWaitsForNobody`, `NoEntryIsOverwritten`.
- `Trees`: `TreesAreSound` (keys ascend, parents tell the truth),
  `PagesHaveOneOwner`, `PagesAreAccountedFor`, `ImplementsSegments` (refinement).
- `TreeCursors`, `Cursors`: `ImplementsSortedCursor` (refinement, one each),
  `SubcursorsFollow`, `EatenIsShadowed`.
- `BlockAllocator`: `EveryPageOnce`, `GroupIsEncodable`,
  `KnownOverflowIsContiguous`.
- `MergeLevels`: `QuietMeansSettled` (no lost wakeup), `NoThreadPanicsFirst`,
  `WritersAreHeldBack`, and the liveness `WritersProceed` and `StopReturns`. The
  only way out that `WritersProceed` leaves a writer is that the thread of incoming
  has panicked, for then its message fails and `get_write_lock` returns an error.
- `Collections`: `NamesAgree`, `NothingIsOrphaned`, `IndexesAreComplete`,
  `FoundRecordsExist`, `NoInsertIsLost`.
- `Documents`: `FindsWhatMatches` (a find that is overtaken by commits),
  `PlansFindAllThatMatch` (index entries and bounds against the matcher),
  `OrderOfOperatorsDoesNotMatter` (what the check for conflicts is for),
  `CommandsChangeWhatMatches`, `RetriedUpsertsUpdate`.
- `Server`: `EveryRowOnce`, `DroppedRowsAreGone`, and the liveness
  `EveryCursorEnds`.

`PlansFindAllThatMatch` and what depends on plans speak of plans that can be
trusted (`Trusted`): section 4 says which cannot, and why.

## 4. What the code does that its docs, comments or tests deny

The first has a run that ends with the counterexample. The others are named as
properties at the end of their modules, which the code violates: any of them put
as an INVARIANT into the configuration of the module's run shows it
(`BlockAllocator` with `HeaderOverflows` that do not fill a block,
`MergeLevels` in `MergeLevels_progress`).

1. *Runs of parents are reversed* (`LsmTree_run_of_parents`, 9314). When several
   parent segments of incoming are promoted together they reach waiting oldest
   first: the older one shadows the newer, and a deleted or overwritten value
   comes back. With writers that never let two parents queue up the lists do
   implement a map (`LsmTree_paced`, and `PacedImplementsKvStore` in general).
2. *The keys of dropped tombstones leak* (`Reclaim!SourcePagesAreAccountedFor`,
   3689). `merge_process_pair` returns at 3677 without recording anything, so
   the overflow pages of the key of a dropped tombstone are in no segment and in
   no list of inactive blocks until the file is opened again; 9114 says that all
   those pages end up in the new dest segment, the survivors or inactive.
   `PagesAreAccountedFor` in `Trees` holds but for these pages (`lost`).
3. *The header's overflow can be overwritten* (`BlockAllocator!OnlyUnusedIsFree`,
   6707). `write_header` gets a whole block but writes only the bytes it needs;
   `read_header` rounds the length of the file down to pages, so `next_page` is
   in that block; 7426 says that all OTHER blocks are considered free.
4. *The last level's thread panics* (`MergeLevels!LastLevelIsQuiet`, 7751). A
   merge into the last level wakes a thread that indexes a lock that does not
   exist; the other threads follow. 8227 says that this level needs no merge.
5. *Two updates of a document in one command leave a stale index entry*
   (`Collections!EntriesHaveRecords`, SL 1421), and once the document is deleted
   an index scan that meets it fails with `record id not found?!?` (SL 698).
6. *A merge can leave a root that it did not write* (`Trees!NewRootIsWritten`,
   4141). When only one child of the root remains and is recycled, the new root
   is that child, and `assert!(pb_seg == seg.root_page)` fails in the thread of
   the merge.

Also noticed, and followed by the models as the code has it:

- Storage: `find_earliest_block_minimum_size` returns the largest block (7023)
  where its comment (7013) wants the earliest; `truncate_file_if_possible` is
  never called; nothing refuses a second document with the key of a unique
  index; several indexes for a new collection in one command give it several
  ids; a collection renamed to its own name with `drop_target` loses its records;
  a process that dies after a segment is written and before the first header
  leaves a file with zeros for a header, and opening it divides by the page size
  that is read there (6708); record ids (the largest plus one) are used again after a delete, also while a
  find is between its cursors.
- Plans that miss documents, the exceptions of `Trusted`: `$gt` and `$lt` on a
  key that descends scan the wrong side; `$gte`/`$lte` null on a sparse index
  does not find documents without the key; `$lte` on a prefix of a unique
  compound index leaves out the greatest; arrays and documents as literals are
  encoded in another order than they are compared in. In a compound sparse index
  entries close up over missing keys.
- Queries and updates: two different `$eq` on one path are an error
  (`conflicting $eq`, `elmo` 2640) where the comment above says that both may
  hold; a conflict of positional paths is not found, nor one of two paths into an
  array that an operator makes or fills up: without `a`, setting `a.b` and then
  `a.0` makes a document, setting `a.0` first makes an array, and `a.b` fails; `$inc` by a fraction below one of a double is skipped; `$position`
  beyond the end of an array panics; `delete` ignores its limit; an update of
  several documents that fails midway keeps those before; `cmpdir` is not
  transitive; an upsert whose operators remove `_id` is given another.
- Server: the comment at `main.rs` 834 says that a batch of none evaluates the
  first row, the code does not; dropping a database and renaming leave cursors
  open on what is gone; a getMore of 1 ends the cursor; getMore does not look at
  the namespace; `$out` clears and writes in two commits, and a result that must
  not be stored leaves the collection empty; a number to return of -2^31 panics.

## 5. Runs

| run | expects | states | question |
|---|---|---|---|
| `LsmTree_merges` | pass | 440 000 | do merges and restarts preserve what readers see, and do they settle? |
| `LsmTree_paced` | pass | 86 000 | do the lists implement a map when writers are paced? |
| `LsmTree_run_of_parents` | violation | - | does every merge step preserve the view? |
| `Reclaim_pages` | pass | 75 000 | are pages reclaimed exactly when nothing uses them? |
| `BlockAllocator_pages` | pass | 449 000 | is any page handed out twice or lost, can every group be encoded? |
| `MergeLevels_wakeups` | pass | 3 514 000 | are wakeups lost, do threads panic, are writers held back? |
| `MergeLevels_progress` | pass | 347 000 | do writers get the lock and does stop return? |
| `Collections_commands` | pass | 238 000 | do names, ids, records and entries agree after all commands? |
| `Trees_merges` | pass | 398 000 | are merged trees sound, pages owned once and freed, pairs merged, and does a cursor on a tree follow the keys? |
| `Cursors_calls` | pass | 114 000 | do cursors over several segments follow the living keys, in any order of calls? |
| `Documents_commands` | pass | 96 000 | do plans, matcher, updates and overtaken finds agree? |
| `Server_cursors` | pass | 170 000 | does each row come once, and does each cursor end? |

Every property of a passing run has a mutant in `PROJECT.json`: a change of one
definition, as a plausible bug would make it, that breaks the property under the
run's own configuration.

### Bounds, and why they are enough

- `LsmTree`: two keys and one value; a value and a tombstone are enough to tell
  old from new, and a second key makes parents, partial promotion and survivors
  possible. Three regular levels are the least in which a level has one before
  it, one behind it and one behind that, which is what dropping a tombstone
  depends on. Three commits are a value, its tombstone and one more, enough for a
  merge into the last level, whose thread panics, while the levels before it still
  have work, and for a commit after a restart into levels that were left as they
  were. Proofs cover every other size.
- `Reclaim`: four pages, shared by two readers and two merge threads, with
  segments of up to four pages that are reused as soon as they are free: enough
  for a chain of two dependencies with a reader at its end.
- `BlockAllocator`: a file of seven pages, blocks of two, two writers.
- `MergeLevels`: two writers that may both have looked before either commits,
  three commits, all limits as low as they go so that every level is desperate
  at once. In `MergeLevels_wakeups` the second segment that is committed may be a
  parent and the others are leaves (`WriterKinds`), which incoming merges into leaves
  and parents. `MergeLevels_progress` has two regular levels and one writer
  that asks again and again; it begins with an empty file, and with one that holds a
  leaf in waiting and a segment in regular level 0, all of whose limits are 0. As
  nobody has told the threads of this file anything, one commit is enough to make
  incoming desperate as well: then the writer waits for incoming, incoming for
  waiting and waiting for regular level 0, and each has to be told by the one before
  it. The merge of that level goes into the last one, where the thread panics, so
  that the same run has the panics that reach back to the writer. `MaxQueue` bounds the `Work` messages that wait in a
  channel: a second one changes nothing that the thread does.
- `Collections`: two names, one index besides `_id`, one `_id` (so that
  duplicates arise), two values, ids of collections and records up to two, and
  two operations in a transaction. Ids are reused after a drop, so drops and
  creations go on without end within these bounds.

- `Trees`: six keys of four sizes and pages of weight three make trees of up to
  three levels; a large write of values in overflows, promoted two leaves at a
  time, and a second write of up to two pairs that replace or delete: every way
  of rewriting, recycling and surviving, with parents of a single child and
  with none left. Cursors are opened on single leaves and trees of three levels
  (`OpenDepths`).
- `Cursors`: four keys; three segments of values, two with tombstones, and
  single ones: three are needed for an equal run longer than two, tombstones in
  two for skipping in either direction.
- `Documents`: documents of up to weight nine over two fields with nested arrays
  and documents, two record ids (so that ids are reused), eleven updates that use
  every operator between them, two indexes (a plain one, and a compound sparse one
  that goes down and through arrays), one commit while a find is under way; in
  every state without a find 127 queries are tried with every index, and each two
  of 29 operators on every document, in both orders: they set, unset, count, push
  to, pop and rename the items of `a`, the fields of `a`, documents in `a`, and `a`
  itself, `b` and `c`, so that many of those that pass the check for conflicts meet
  in one array or document. One upsert makes a document with a document in it and
  is looked up through the compound index, where there is one.
- `Server`: a client with two cursors and a connection that only writes and
  drops; two collections, two rows written (and copied by `$out`), batches of one,
  two and none, all, and a hard limit of two.

`CHECK_DEADLOCK FALSE` stands only where the bounds end the behaviour: commits
run out in `LsmTree`, writes in `Trees`, pages in `Reclaim` and
`BlockAllocator`; and in `Cursors`, where nothing can be called after the end of
a merge. `MergeLevels`, `Collections`, `Documents` and `Server` are checked for
deadlock.

### Fairness

`RunningTree` has weak fairness of the steps of those merge threads that were sent
a message since the file was opened and have not panicked, since such a thread
goes on until its level needs nothing; a thread that nobody told does nothing, and
nothing is assumed of it. A level without tombstones need not be merged, as it may
be small. A thread that is held back tells the next one, or panics when that one is
gone; as sizes are left open, how long it is held back is too, and that it is not
for ever is what `WritersProceed` is about. `MergesSettle` assumes in addition that
restarts stop. In `MergeLevels`, `FairSpec` has strong fairness of
each merge thread, because it may find a lock taken again and again and
`std::sync::Mutex` lets every waiter in eventually under a fair scheduler; the
same for what a writer does while it waits for the write lock and when it drops
it; and weak fairness of `Join`. Writers need never begin, nor commit.

`Server` has weak fairness of what a thread does in the middle of a message, and
strong fairness of one thing a client does, since `EveryCursorEnds` is about a
client that goes on reading: it asks for another batch of two or more of each
cursor it knows. Nothing is assumed of any other message or connection.

## 6. Proofs

Every safety property that a run checks of `LsmTree`, `Reclaim`,
`BlockAllocator`, `MergeLevels`, `Collections`, `Server`, `Cursors`, and of
`Trees` with its cursors, is also proved, for every value of the constants.
None is inductive as it stands; each module `X_proofs` defines an invariant `IInv`
that is, states `Inductive == Spec => []IInv`, and derives the properties from it
(`AllocatorInv` and `AllocatorInductive` for `BlockAllocator`, as `Space_proofs`
has both). TLC was run
on each `IInv` before it was proved, on the configuration of the module's run or
a smaller one. What follows says what each invariant adds and why it is needed.

### LsmTree, for any keys ordered as integers, any values and any number of levels

| theorem | states |
|---|---|
| `TypeCorrect` | `TypeOK` |
| `PendingStaysCurrent` | `PendingIsCurrent` |
| `DroppingIsSafe` | `DroppedTombstonesHideNothing` |
| `LastLevelClean` | `NoTombstoneInLastLevel` |
| `ReadersUndisturbed` | `Spec => MergesPreserveView` |
| `PacedImplementsKvStore` | `PacedSpec => ImplementsKvStore` |
| `RunningIsLsmTree` | `RunningSpec => Spec` |
| `RunningIsSafe` | the safety of `LsmTree`, under `RunningSpec` |

Assumptions: `PairsAssumption` (tombstone and absence are no values, keys are
integers) and `LsmTreeAssumption`. `IInv` adds

- `LocksDisjoint`: two busy threads share no merge lock, so no thread changes
  another's source or destination; this gives `PendingIsCurrent`.
- `PendingMovesPairs`: what a pending merge will put into source and destination
  is what was there, each key moved or left, and a promoted tombstone absent
  only as `Dropped` says; without it a pending merge might hold anything.
- `PendingRunIsMerged`: the same of a merge out of incoming.
- `LastLevelStaysClean`: the new segment of the last level holds no tombstone.

`DroppedTombstonesHideNothing` is kept because a key can reach a level behind
only from the level before it, and that level, being the destination of the
pending merge or a level behind it, either does not have the key or is locked.
`MergesPreserveView` then goes through the chain of segments: `LookupConcat`
splits a lookup at any place of the chain, and `CommitMergeView` shows for each
key that source and destination together give the same living value before and
after; `CommitMergeFromIncomingView` does it for a run that is merged, and
`MovedBack` for one parent that is moved. For the refinement, `PacedInv` says
that incoming never holds two parents, so no run of several parents is promoted
(`NoRunOfParents`), and `CommitSegmentWrites` that a commit writes exactly its
batch in the sense of `KvStore`. `RunningStep` shows of every step of
`RunningTree` that it is one of `LsmTree` or leaves header and merges alone; so what
is proved of `Spec` holds of the process that `LsmTree_merges` runs.

### Reclaim, for any readers, merge threads and pages

| theorem | states |
|---|---|
| `PagesInUseAreSafe` | `NothingInUseIsFree` |
| `OnePlacePerPage` | `EveryPageHasOnePlace` |
| `NothingIsKeptInVain` | `NothingWaitsForNobody` |
| `EntriesAreFresh` | `NoEntryIsOverwritten` |

Assumption: `ReclaimAssumption` (readers are not merge threads). Neither `Page`
nor the sets of holders need be finite. The heart of `IInv` is `HeldIsKept`:
each page of a segment under a read lock is in a segment of the header, among
the zombies of some root, or leaked, where that segment or root waits, over any
chain of dependencies, for the segment that is held. `WaitsFor` is the least set
closed under the dependencies, which needs no recursion. It says what survives
when one link of the chain is released: whoever waited for what is released
waits no longer, but nothing that is held is released. `WaitingMakesSense` has
no circles in the dependencies, so that something at the end of each chain is
held, which is `NothingWaitsForNobody`; it is kept because a dependency is only
ever added on the root of a segment that is becoming a zombie, by one that is
new. `SegmentsAreApart`, `OutputsAreApart` and `SourcesAreSplit` say how pages
are shared between what a merge reads and writes, the only sharing there is:
without them, a page that two segments share could be freed with one of them.
`ZombiesArePinned` says that zombies still have their reason.

### BlockAllocator, for any page writers and sizes of blocks

| theorem | states |
|---|---|
| `AllocatorTypeCorrect` | `AllocatorTypeOK` |
| `PagesOnce` | `EveryPageOnce` |
| `GroupsEncodable` | `GroupIsEncodable` |
| `KnownOverflowsContiguous` | `KnownOverflowIsContiguous` |
| `PagesOnceWhenFilled` | `AllocatorSpec => []EveryPageOnce`, when headers fill their blocks |

Assumption: `AllocatorAssumption`. All but the last are about `SpecInFile`, which
is `AllocatorSpec` with the file opened only while the header's overflow ends where the
file ends, or before. That hypothesis is needed: section 4, item 3, is a file
that is opened otherwise, and then `EveryPageOnce` is false. It restricts the one
action `ReopenFile` and nothing that a running process does, for headers that fill
their blocks and others (`HeaderOverflows`). `PagesOnceWhenFilled` has `AllocatorSpec`
itself, and instead the assumption that what does not fit the header page is
always as long as the block it is given, as in the run: then the file always
ends where it should (`StaysInFile`).

`AllocatorInv` says that `SpacePages` (the free lists and everything from `next_page`
on), `HeldBy` of each writer, and `Kept` (the header page, finished segments, the
header's blocks) share out all pages, and that the lists in each have no page
twice. `GotBlock` shows of every kind of request that `get_block` moves one block
out of the space, of the size that was asked for or where it was asked for;
`StockedPages` that `ensure_inventory` then only moves pages between the space
and a writer. `SoundWriter` has at most one block in each inventory between two
steps: `ensure_inventory` fetches another when one page is left, and the page
that is then taken is that one. For `GroupIsEncodable`, `OrderedBlocks` orders
the blocks of a group and what is left of its inventory behind its first page,
which is what the `after` of the requests is for, and `UnknownBlocks` says where
the last page of the inventory goes on from; a request that is answered at the
end of the file is late enough because the first page of the group is before
`next_page`.

### MergeLevels, for any number of levels, limits and writers

| theorem | states |
|---|---|
| `TypeCorrect` | `TypeOK` |
| `NoWakeupIsLost` | `QuietMeansSettled` |
| `LastPanicsFirst` | `NoThreadPanicsFirst` |
| `WritersStayInBudget` | `WritersAreHeldBack` |

Assumptions: `LevelsAssumption` (there is a regular level, finitely many
writers), `WritersAssumption` (a writer is no level, as both are names of lock
holders), `SizesAssumption`, `KindsAssumption`. `WorkIsKnown` is the wakeup: a
level that needs a merge has a thread that is at work, a message that waits for
it, or the thread before it about to send one. It rests on `LockedWhileMerging`
and `LockedWhileCommitting`, since what a thread finds after it took its locks
must stay (`StillThere`), and on `QueuesHaveRoom`. `StopInOrder` says that
before the last thread has panicked no lock is poisoned and the levels end one
after the other; with `LastPromotesNothing` the last thread panics where it
indexes the lock that is not there, and nowhere else.
`IncomingIsInBudget` counts, besides what incoming holds, every commit of a
writer that has seen incoming below its limit and does not have the write lock
yet: that sum, and not the length of incoming, is what a step keeps.

### Collections, for any names, indexes, documents and sizes of a command

| theorem | states |
|---|---|
| `TypeCorrect` | `TypeOK` |
| `NamesLeadToTheirCollections` | `NamesAgree` |
| `NothingIsLeftBehind` | `NothingIsOrphaned` |
| `EveryRecordIsIndexed` | `IndexesAreComplete` |
| `IdsLeadToTheirRecords` | `FoundRecordsExist` |
| `InsertsAddUp` | `Spec => NoInsertIsLost` |

Assumptions: `BoundsAssumption` and `NameAssumption` (no collection has the empty
name, by which a writer without a collection is known). A commit writes what a
transaction collected over several operations, none of which sees what those
before it wrote, as the code has it. So `IInv` says of the transaction under way
what it will have to say of the store: `Sound(t)` is about what would be stored if
`t` were committed now, and holds of `tx` and of the transaction that wrote
nothing. What an operation may rely on though it reads the store alone differs
by command, and is what `Knows` is about: an insert or update finds the
collections and indexes it read still there (`CollectionsStay`, `IndexesStay`)
and records with the `_id` they had (`RecordsStay`); delete and delete_indexes
only erase (`OnlyErases`), so that nothing they miss can be in the way;
create_indexes writes no records; the ids given out are above all there are
(`IdsAreFresh`), and the collection the writer keeps has all its indexes
(`KeptIsKnown`), without which a record would miss an entry. `InsertsCounted` is
for `NoInsertIsLost`. That two updates of one document leave stale entries
(section 4, item 5) does not contradict these: `Leads` is about entries of `_id`,
`Complete` about entries that must be there.

### Server, for any connections, collections and sizes of batches

| theorem | states |
|---|---|
| `NoRowIsLost` | `EveryRowOnce` |
| `DroppedRowsStayGone` | `DroppedRowsAreGone` |

Assumptions: `BoundsAssumption`, `SizesAssumption`, and `CollectionsAssumption`
(finitely many of them, as listing them needs). `EveryRowOnce` is nearly
inductive: what is due is what was given and what the cursor still has, which
`Batch`, `DoLimit` and `Reply` keep, whichever way they end. For the rows of
dropped collections `RowsAreApart` (a row is in one collection or in the results
of one `$out`) and `DroppedIsNowhere` (no command brings a dropped row back) are
needed: a cursor that is opened later reads what is there later.

### Cursors, for any finite set of keys, segments and calls

| theorem | states |
|---|---|
| `SubcursorsAlwaysFollow` | `SubcursorsFollow` |
| `EatenAreShadowed` | `EatenIsShadowed` |
| `GoesByOrder` | `Spec => ImplementsSortedCursor` |

Assumptions: `CursorsAssumption` (finitely many keys, ordered as integers; at
least one segment) and `PrefixAssumption` (what begins with a prefix lies
together, behind it). The invariant has `SoundMulti` (the sorted entries are
each segment once, every cursor is on a key of its segment) and `Placed`: the
current cursor is the newest with its key, and as long as it is valid the
direction of the last call is a promise about all others. Going forward the
promise includes the flags: `EqualRun`, which `next` reads off the flags of an
earlier sort, is every other segment that has the key. That is why `next` may
skip the cursors that the flags do not name, and what a merge is told of is what
is shadowed.

- The sort: a round leaves the entries in order and each flag true of the entry
  before it, though a flag is not set again when an entry is passed twice
  (`InsertedSorted`, `FlagsTell`).
- `find_min` and `find_max`: when every cursor is on the least key of its segment
  among keys that have all that come after them, the current one is on the least
  of them all (`MinFollows`, `MaxFollows`). Every call, from any direction, puts
  the cursors there (`FirstGoes`, `LastGoes`, `SeekGoes`, `NextGoes`, `PrevGoes`).
- `skip_tombstones`: a round passes one tombstone and leaves fewer keys to come,
  so the loop ends within as many rounds as there are keys, and on no tombstone
  (`SkipsForward`, `SkipsBackward`). In the module the loops are functions of the
  number of rounds; `LoopExists` shows that there are such functions.
- Bounds: the keys of a range or a prefix lie together (`BoundsAreTogether`), so
  that the cursor is past them when it has left them.
- The refinement: one lemma says for each call where it goes among the living
  keys, or for a merge among all, and `StepRefines` that this is the step of
  `SortedCursor`, where opening a cursor is its `Open`.

### Trees, for any keys, sizes, rooms and writes

| theorem | states |
|---|---|
| `TreesAreAlwaysSound` | `TreesAreSound` |
| `PagesAlwaysHaveOneOwner` | `PagesHaveOneOwner` |
| `PagesAreAlwaysAccountedFor` | `PagesAreAccountedFor` |
| `ReadersAreNotDisturbed` | until it is committed, a merge changes no page and no pair of the trees it reads |
| `HeldIsAlwaysContents` | `held` is what the trees hold |
| `CursorsChangeNothing` | the first two of `TreeCursors` too |
| `MergesAreRight` | `Spec => []MergeInv` |
| `TreesImplementSegments` | `Spec => ImplementsSegments` |
| `CursorsAreRight` | `CursorSpec => []CursorInv` |
| `TreeCursorsAreSorted` | `CursorSpec => ImplementsSortedCursor` |

Assumptions: `PairsAssumption` and `TreesAssumption` (every key has a size, a key
that is kept inline fits a leaf and a parent, a parent has room for two keys in
overflows, which is what `MakeTwoFit` needs). Trees may be of any height and
files of any size; keys need not be finite. The invariant is in `TreeInvariant`,
and has two parts.

- `SInv`: everything that is in a list anywhere is as it would have to be in a
  page. Pages are sound (`FileOk`); so are the leaf and the levels of the chain
  under construction, those above coming before those below, and the item in hand
  belongs where it goes (`WriterOk`); so is what is left of the leaf and the
  parents that are rewritten (`SourcesOk`). `InOrder` says that all that the
  writer has comes before all that is still to come, which is why whatever is
  taken next can be put at the end. `KeepOk` says of the children that
  `RecycleChildren` found that the next pair is behind them, and `CleanOk` that no
  promoted leaf is under anything that is kept.
- `OInv`: every page of the file has one holder: the leaf, the hand, a level of
  the chain, the pairs, the leaf that is read, a level of what is left to do, a
  root, a node that refers to it, the freed or the lost pages (`Partition`). A
  step moves pages from some holders to others and leaves the rest
  (`Exchange`). A promoted leaf is the one page that is referred to from a node
  while its contents are on the way elsewhere, so `LivePages` leaves it out once
  it is freed. The two parts need each other: that two trees have no page in common
  (`Apart`) is what lets `BeginMerge` free one root and read the other, and a
  freed page is not in what is kept only because it has no other holder.

That `Trees` implements `Segments` is proved in `TreeContents_proofs`, on top of
these. `MergeInv` says at every step of a merge where the pairs are. `Done` is a
pair that is in the leaf, in hand or under a level of the chain, `Left` one that
is still to be read or under an item that is left to do, and `Here` either.
`MergedSoFar` says, key by key, that of what was promoted and has been taken
there is the promoted pair or, of a tombstone, nothing, and of all other keys
exactly what the old lower tree has. `LeftSoFar` is the same of the survivors,
where a promoted key is never written; that `SkipLeaf` loses no other pair is
`AwayFrom`: an item that is left either has a promoted leaf under it or shares no
key with one. A step of the writer takes no pair away (`WriterKeepsPairs`), one
that puts a pair adds that pair (`PutPairAdds`), and one that takes a node apart
or keeps it leaves the pairs where they are (`PastPairs`); that a pair which is
taken is the only one with its key rests on `InOrder`. When nothing is left the
root has everything (`RootHolds`), so a commit moves each key or lets it stay
(`CommitImplements`).

Nothing here asks for induction over the writer: as a step puts one pair or one
item, each lemma is about one. Induction over the height of a tree is needed for
`Below` and `KeysUnder`, and is by the well-foundedness of inclusion, as described
below. TLC cannot evaluate `IInv` as it stands (the holders are infinitely many);
with as many holders as there can be pages it was run on the behaviours of fewer
keys before it was proved, and the run checks the properties that follow from it.

That `TreeCursors` implements `SortedCursor` is proved there too, for trees of any
height. `CursorInv` says what the code takes for granted between two calls: at
every depth the cursor is on a node of that depth of the committed tree, where a
parent has a current child the cursor below is on that child, and `at` is the key
of the pair in the leaf, or nowhere if there is none. It does not say that the cursors
below a parent without a current child are under it; they are where the last call
left them, and each call has to set them again. Each loop of a call, up or
down the depths, is a function of the depth whose entries are followed one by one
(`CountUp`, `CountDown`). First and last reach the first and the last key under
the node they start on. For next, prev and seek the statement at depth `d` is about the
keys under the node there: `NextUnder` says that the cursor is on the least of them
that is greater, or that there is none and it has none; `PrevUnder` and `SeekUnder`
are the same for their calls. From one depth to the next this needs that the keys
under one child come before those under the next one (`LiesAmong`), and of a seek
that the child whose largest key is the first not less than the one sought is the only
one that can have it. The binary search in a leaf is `SearchInv`: what is left of `min` is
smaller and what is right of `max` is larger, `le` and `ge` are beside them, and each
round takes at least one pair, so that as many rounds as there are pairs are enough.
TLC was run on `CursorInv`, in the run `Trees_merges`, before it was proved.

### How the proofs are laid out

One lemma for each action, `...Keeps` or `...Inv`, with a step for each conjunct
that it can disturb; lemmas about the module's operators before them; the
theorems at the end. Where an argument asks for a least or a largest number, as
the next record id or the last page of the file do, it is taken from the
well-foundedness of inclusion among finite sets, which the library states without
an operator parameter, because its induction theorems cannot be used
(`LeastNumber`, `LastPage`).

### Only model-checked

The properties of `Documents`, and every liveness property (`MergesSettle`,
`WritersProceed`, `StopReturns`, `EveryCursorEnds`). Liveness under fairness and
`ENABLED` are out of the prover's reach, and so is induction over data, and with
it what `Bson`, `Matcher` and `Updates` compute with recursive operators.
The modules with theorems use none.

## 7. Not modelled

`PROJECT.json` has the reason for every part. In short:

- the page cache: `Reclaim` shows that no page under an open cursor is reused,
  which is what cursors rely on; how long a weak reference survives the read lock
  of its cursor is not modelled;
- the encoding of pages, prefixes, bloom filters, of overflows and of the header;
  a failure of the system, after which writes may be missing in any order (the
  code syncs nothing, and promises nothing);
- bson and wire formats, parsing of commands and queries, projections, and the
  aggregation pipeline (sequential transformations of rows); `$regex`, `$where`,
  `$text` and geographic queries;
- text index scans, which the code has not implemented;
- `storage/sqlite3` and its vendored binding (another implementation of the same
  interface, without concurrency of its own); the F# prototype; diagnostics.

## 8. Plan

In the order of importance; 1 to 9 are done.

1. `LsmTree` over `Pairs`, with `KvStore` as its abstraction, its proofs, and
   `RunningTree`.
2. `Reclaim`.
3. `BlockAllocator`.
4. `MergeLevels`.
5. `Collections`.
6. `Trees` as an implementation of `Segments`.
7. `TreeCursors` and `Cursors` as implementations of `SortedCursor`.
8. `Documents` over `Bson`, `Matcher`, `Updates` and `Plans`.
9. `Server`.
10. The page cache.

A proof still worth doing: that what `Reclaim` takes for free pages is what
`BlockAllocator` hands out, as a lemma of the two together.
