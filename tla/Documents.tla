----------------------------- MODULE Documents -----------------------------
(***************************************************************************)
(* The commands of one collection and the finds that run beside them:      *)
(* elmo/src/lib.rs, Connection, on the readers of storage/lsm/src/lib.rs.  *)
(*                                                                         *)
(* A command holds the write lock from its first read to its commit, so it *)
(* is one step.  A find holds nothing: it lists the indexes, scans one of  *)
(* them and reads the records with three cursors, each of which sees what  *)
(* was committed when it was opened.                                       *)
(*                                                                         *)
(* What indexes and records are in the store is in Collections; that every *)
(* record has its entries is its IndexesAreComplete.  Left to Collections  *)
(* are also documents that share an _id, and several statements in one     *)
(* command.                                                                *)
(***************************************************************************)
EXTENDS Plans, Updates

CONSTANTS
    Inserts,    \* documents that are inserted
    Queries,    \* queries of find and delete
    Hints,      \* hints of find: names of indexes, "natural", or "" for none
    Changes,    \* [query, queryId, ops, new, multi, upsert] of update
    Modifies,   \* [query, sort, queryId, ops, new, remove, upsert] of find_and_modify
    Catalogue,  \* the indexes that can be created, a sequence
    Probes,     \* queries that are tried wherever no find is under way
    Operators,  \* operators, a sequence: each two are tried wherever no find is under way
    MaxRecord,  \* bound: record ids
    MaxCommits, \* bound: commands that commit while a find is under way
    MaxWeight   \* bound: what a document holds

ASSUME BoundsAssumption == MaxRecord \in 1..4 /\ MaxCommits \in Nat /\ MaxWeight \in Nat

VARIABLES docs,     \* what is committed, a function on some record ids
          indexes,  \* the collection's indexes as they are listed, a sequence
          find      \* the find that is under way, or its result

vars == <<docs, indexes, find>>

NoFind == [phase |-> "none"]

Init == docs = <<>> /\ indexes = <<IdIndex>> /\ find = NoFind

-----------------------------------------------------------------------------
(* Bounds.                                                                 *)

\* What a document holds: its scalars, by their size, and its containers.
RECURSIVE Weight(_)
Weight(v) ==
    LET sum(item(_)) == FoldLeft(LAMBDA n, x : n + 1 + Weight(item(x)), 0, Items(v))
    IN  CASE IsDoc(v) -> sum(LAMBDA x : x[2])
          [] IsArr(v) -> sum(LAMBDA x : x)
          [] OTHER -> IF v[2] < 0 THEN -v[2] ELSE v[2]

InBound(ds) ==
    \A r \in DOMAIN ds : r <= MaxRecord /\ Weight(ds[r]) <= MaxWeight

-----------------------------------------------------------------------------
(* Storage.                                                                *)

Overlay(f, g) == [k \in DOMAIN f \cup DOMAIN g |-> IF k \in DOMAIN g THEN g[k] ELSE f[k]]
With(f, k, v) == Overlay(f, [j \in {k} |-> v])

\* use_next_record_id.
NextRecord(ds) == 1 + (IF ds = <<>> THEN 0 ELSE CHOOSE r \in DOMAIN ds : \A s \in DOMAIN ds : s <= r)

\* The _id that is made up for the next document, unlike every other.
MadeUp(ds) == <<"oid", NextRecord(ds)>>

SameId(d, e) == CompareEncoded(Id(d), Id(e)) = 0
IdIsFree(ds, doc) == ~\E r \in DOMAIN ds : SameId(ds[r], doc)

\* validate_for_storage.
Valid(doc) == HasValidId(doc) /\ KeysAreValid(doc)

\* StorageWriter::insert, of a document whose _id is free.
Stored(ds, doc) == With(ds, NextRecord(ds), IdFirst(doc))

\* StorageWriter::update and delete, of the record that the index on _id leads to.
FoundById(ds, doc) == CHOOSE r \in DOMAIN ds : SameId(ds[r], doc)
Replaced(ds, doc) == IF IdIsFree(ds, doc) THEN ds ELSE With(ds, FoundById(ds, doc), IdFirst(doc))
Without(ds, S) == [r \in (DOMAIN ds) \ S |-> ds[r]]

-----------------------------------------------------------------------------
(* Commands.  One that is refused commits nothing, except what a multi     *)
(* update has written before.                                              *)

\* Whether something may be committed, as far as the find under way, if any, goes;
\* and that it was.
UnderWay == find.phase \in {"planned", "scanned"}
MayCommit == IF UnderWay THEN find.commits < MaxCommits ELSE find.phase = "none"
Overtake == find' = IF UnderWay THEN [find EXCEPT !.commits = @ + 1] ELSE find

Commit(new) ==
    /\ new # docs
    /\ InBound(new)
    /\ docs' = new
    /\ Overtake
    /\ UNCHANGED indexes

\* What a writer's reader yields, in the order of its plan: it sees what is
\* committed.
RowsOfPlan(ds, plan, query) == IF plan = Refused THEN <<>> ELSE Rows(ds, Scan(ds, plan), query)
MatchingRows(ds, query) == RowsOfPlan(ds, ChooseIndex(indexes, query, ""), query)

\* The query is not refused, and nothing matches it.
PlanFindsNothing(plan, query) == plan # Refused /\ RowsOfPlan(docs, plan, query) = <<>>
FindsNothing(query) == PlanFindsNothing(ChooseIndex(indexes, query, ""), query)

\* ensure_id.
EnsureId(doc, id) == IF Id(doc) = Missing THEN WithChild(doc, "_id", id) ELSE doc

\* insert.
CommitInsert(doc) ==
    doc # Error /\ Valid(doc) /\ IdIsFree(docs, doc) /\ Commit(Stored(docs, doc))
Insert(doc) == CommitInsert(EnsureId(doc, MadeUp(docs)))

AcceptedWithAnyId(old, new) ==
    CASE new = Error -> Error
      [] new = old -> old
      [] OTHER -> IF Valid(new) THEN new ELSE Error

\* What update operators make of a document that was found: the _id must still be
\* there and be the same, byte for byte.
Accepted(old, new) ==
    CASE new = Error -> Error
      [] new = old -> old
      [] OTHER -> IF Id(new) = Id(old) /\ Valid(new) THEN new ELSE Error
Updated(old, ops, pos) == Accepted(old, ApplyUpdateOps(old, ops, FALSE, pos))

\* The replacement of a document that was found.
Replacement(old, new) == Accepted(old, EnsureId(new, Id(old)))

\* The multi branch of update, row by row: a row that fails ends it, and what was
\* written stays.
RECURSIVE UpdateAll(_, _, _), UpdateOnward(_, _, _, _)
UpdateAll(ds, rows, ops) ==
    IF rows = <<>> THEN ds
    ELSE UpdateOnward(ds, Updated(docs[Head(rows).record], ops, Head(rows).match.pos), rows, ops)
UpdateOnward(ds, new, rows, ops) ==
    IF new = Error THEN ds ELSE UpdateAll(Replaced(ds, new), Tail(rows), ops)

\* The document that is inserted when nothing was found.
Upserted(u) ==
    IF u.ops # <<>> THEN UpsertWithOperators(u.query, u.ops, MadeUp(docs))
    ELSE SimpleUpsert(u.queryId, u.new, MadeUp(docs))

\* parse_update_doc fails on a conflict.
Parses(u) == ~HasConflict(u.ops)

CommitReplaced(new) == new # Error /\ Commit(Replaced(docs, new))
CommitOne(u, row) ==
    CommitReplaced(IF u.ops # <<>> THEN Updated(docs[row.record], u.ops, row.match.pos)
                   ELSE Replacement(docs[row.record], u.new))

UpdateRows(u, rows) ==
    /\ rows # <<>>
    /\ IF u.multi THEN u.ops # <<>> /\ Commit(UpdateAll(docs, rows, u.ops))
       ELSE CommitOne(u, rows[1])
UpdateFound(u) == Parses(u) /\ UpdateRows(u, MatchingRows(docs, u.query))

Upsert(u) ==
    /\ Parses(u) /\ u.upsert /\ (u.multi => u.ops # <<>>)
    /\ FindsNothing(u.query)
    /\ CommitInsert(Upserted(u))

\* delete: the limit is not looked at.
Delete(query) ==
    Commit(Without(docs, {row.record : row \in ToSet(MatchingRows(docs, query))}))

\* get_one_match with an order.
IsFirst(row, rows, keys) ==
    docs[row.record] = Head(Sorted([i \in DOMAIN rows |-> docs[rows[i].record]], keys))

\* find_and_modify, of what was found: the first in the order, updated or removed.
ModifyRows(m, rows) ==
    \E row \in ToSet(rows) :
        /\ IsFirst(row, rows, m.sort)
        /\ IF m.remove THEN ~m.upsert /\ Commit(Without(docs, {row.record}))
           ELSE Parses(m) /\ CommitOne(m, row)
ModifyFound(m) == ModifyRows(m, MatchingRows(docs, m.query))

ModifyUpsert(m) ==
    /\ ~m.remove /\ Parses(m) /\ m.upsert
    /\ FindsNothing(m.query)
    /\ CommitInsert(Upserted(m))

\* create_indexes and drop_index.  The index on _id stays.
CreateIndex(index) ==
    /\ ~\E i \in DOMAIN indexes : indexes[i].name = index.name
    /\ indexes' = Append(indexes, index)
    /\ Overtake
    /\ UNCHANGED docs

DropIndex(i) ==
    /\ i \in 2..Len(indexes)
    /\ indexes' = RemoveAt(indexes, i)
    /\ Overtake
    /\ UNCHANGED docs

-----------------------------------------------------------------------------
(* Finds.                                                                  *)

\* list_indexes and choose_index.  A hint that names no index is refused.
IsHint(hint) == hint \in {"", "natural"} \cup {indexes[i].name : i \in DOMAIN indexes}
Started(query, plan) ==
    IF plan = Refused THEN [phase |-> "refused"]
    ELSE [phase |-> "planned", query |-> query, plan |-> plan, commits |-> 0]
StartFind(query, hint) ==
    /\ find.phase = "none"
    /\ find' = IF IsHint(hint) THEN Started(query, ChooseIndex(indexes, query, hint))
               ELSE [phase |-> "refused"]
    /\ UNCHANGED <<docs, indexes>>

Listed(plan) ==
    plan = NoPlan \/ \E i \in DOMAIN indexes : indexes[i].name = plan.index.name

MatchingNow(query) == {r \in DOMAIN docs : Matches(query, docs[r])}

\* The index is looked up by its name and scanned to the end.  A scan of the
\* collection reads the records as it goes: it has one cursor, so what it sees is
\* kept.  What matches at this moment is kept to compare with.
ScanIndex ==
    /\ find.phase = "planned"
    /\ find' = IF ~Listed(find.plan) THEN [phase |-> "failed"]
               ELSE [phase |-> "scanned", query |-> find.query, plan |-> find.plan,
                     commits |-> find.commits,
                     records |-> Scan(docs, find.plan), due |-> MatchingNow(find.query),
                     snapshot |-> IF find.plan = NoPlan THEN <<docs>> ELSE <<>>]
    /\ UNCHANGED <<docs, indexes>>

\* The records are read with a cursor that is opened now; one that is gone fails
\* the find.
ReadRecords ==
    LET source == IF find.snapshot # <<>> THEN find.snapshot[1] ELSE docs
    IN  /\ find.phase = "scanned"
        /\ find' = IF ~(ToSet(find.records) \subseteq DOMAIN source)
                   THEN [phase |-> "failed"]
                   ELSE [phase |-> "done", plan |-> find.plan,
                         expected |-> {r \in find.due \cap DOMAIN source : Matches(find.query, source[r])},
                         rows |-> Rows(source, find.records, find.query)]
        /\ UNCHANGED <<docs, indexes>>

Finish ==
    /\ find.phase \in {"done", "failed", "refused"}
    /\ find' = NoFind
    /\ UNCHANGED <<docs, indexes>>

Command ==
    \/ \E doc \in Inserts : Insert(doc)
    \/ \E u \in Changes : UpdateFound(u) \/ Upsert(u)
    \/ \E query \in Queries : Delete(query)
    \/ \E m \in Modifies : ModifyFound(m) \/ ModifyUpsert(m)
    \/ \E i \in DOMAIN Catalogue : CreateIndex(Catalogue[i])
    \/ \E i \in DOMAIN indexes : DropIndex(i)

Next ==
    \/ MayCommit /\ Command
    \/ \E query \in Queries, hint \in Hints : StartFind(query, hint)
    \/ ScanIndex
    \/ ReadRecords
    \/ Finish

Spec == Init /\ [][Next]_vars

-----------------------------------------------------------------------------
(* Properties.                                                             *)

\* What a plan can be trusted with: an inequality on a key that runs forward, with
\* a literal that is encoded in the order it is compared in, that a document
\* without the key does not satisfy when the index is sparse, and that is all of
\* an entry when the index is unique and the literal is included.
Trusted(plan) ==
    LET last == plan.vals[Len(plan.vals)]
    IN  plan.bound \in {"gt", "gte", "lt", "lte"} =>
            /\ ~last[2]
            /\ ~IsContainer(last[1])
            /\ ~(plan.index.sparse /\ plan.bound \in {"gte", "lte"} /\ last[1] = Null)
            /\ ~(plan.index.unique /\ plan.bound = "lte" /\ Len(plan.vals) < Len(plan.index.keys))

\* A find that is answered returns every document that matched when the index was
\* scanned and still did when the records were read, and none twice, whatever was
\* committed and whichever indexes came and went in between.  (find,
\* get_reader_regular_index_scan, which opens its cursors at different times)
FindsWhatMatches ==
    find.phase = "done" =>
        /\ \A i, j \in DOMAIN find.rows : find.rows[i].record = find.rows[j].record => i = j
        /\ Trusted(find.plan) =>
               find.expected \subseteq {find.rows[i].record : i \in DOMAIN find.rows}

\* Each index that fits a query leads to all documents that the query matches,
\* through arrays, missing fields, nested conditions and numbers of different
\* kinds.  (fit_index_to_query, get_index_entries, against matcher.rs)
PlansFindAllThatMatch ==
    find.phase = "none" =>
        \A query \in Probes, i \in DOMAIN indexes :
            LET plan == Fit(indexes[i], query)
            IN  plan # NoPlan /\ Trusted(plan) =>
                    \A r \in MatchingNow(query) : Reached(docs[r], plan) # {}

OnlyWritesMatches(query) ==
    \A r \in DOMAIN docs :
        docs'[r] # docs[r] =>
            /\ Matches(query, docs[r])
            /\ Items(docs'[r])[1] = <<"_id", Id(docs[r])>>
            /\ KeysAreValid(docs'[r])

\* An update leaves alone what its query does not match, and never gives a
\* document another _id, moves it from the front or stores a key that must not be
\* stored.  A delete removes all that matches and nothing else.  (update, delete,
\* find_and_modify: the plan, the matcher and the index on _id have to agree)
CommandsChangeWhatMatches ==
    [][/\ docs' # docs /\ DOMAIN docs' = DOMAIN docs =>
              /\ \A u \in Changes : UpdateFound(u) => OnlyWritesMatches(u.query)
              /\ \A m \in Modifies : ModifyFound(m) => OnlyWritesMatches(m.query)
       /\ DOMAIN docs' # DOMAIN docs =>
              \A query \in Queries :
                  Trusted(ChooseIndex(indexes, query, "")) /\ Delete(query) =>
                      DOMAIN docs' = {r \in DOMAIN docs : ~Matches(query, docs[r])}]_vars

\* What is left when the order of fields is ignored.
RECURSIVE Fields(_)
Fields(v) ==
    CASE IsDoc(v) -> <<"doc", {<<Items(v)[i][1], Fields(Items(v)[i][2])>> : i \in DOMAIN Items(v)}>>
      [] IsArr(v) -> <<"arr", [i \in DOMAIN Items(v) |-> Fields(Items(v)[i])]>>
      [] OTHER -> v

IsPositional(op) == \E path \in ToSet(Paths(op)) : Contains(path, "$")

\* An operator that goes on, through what the document has at a path that both go
\* through, with the index of an item: it makes the array that is missing, or fills
\* it up to that item, and the other finds what it made.
MakesArray(doc, p, n) ==
    LET e == Entry(doc, SubSeq(p, 1, n))
    IN  /\ IsIndex(p[n + 1])
        /\ e = Missing \/ (IsArr(e) /\ IndexOf[p[n + 1]] > Len(Items(e)))
MakesArrayForOther(doc, op, other) ==
    \E p \in ToSet(Paths(op)), q \in ToSet(Paths(other)) : \E n \in 1..Len(p) - 1 :
        /\ IsPrefix(SubSeq(p, 1, n), q)
        /\ MakesArray(doc, p, n)

\* The same update, with its two operators in this order and in the other.
SameInEitherOrder(doc, ops) ==
    Fields(ApplyUpdateOps(doc, ops, FALSE, NoPosition)) =
    Fields(ApplyUpdateOps(doc, Reverse(ops), FALSE, NoPosition))

PairsOfOperators ==
    UNION {{<<Operators[i], Operators[j]>> : j \in i + 1..Len(Operators)} : i \in DOMAIN Operators}
    \cup {u.ops : u \in {c \in Changes : Len(c.ops) = 2}}
PairsThatPass ==
    {ops \in PairsOfOperators :
        ~HasConflict(ops) /\ ~IsPositional(ops[1]) /\ ~IsPositional(ops[2])}

\* Two operators of an update that passes the check for conflicts give the same in
\* either order, but for the order of fields: on the items of an array, on the
\* fields of a document, and for what a rename moves out of one and into another.
\* (check_update_doc_for_conflicts is meant to leave only such updates; it looks at
\* paths before "$" is resolved, and not at the arrays that an operator makes)
OrderOfOperatorsDoesNotMatter ==
    find.phase = "none" =>
        \A ops \in PairsThatPass, r \in DOMAIN docs :
            \/ MakesArrayForOther(docs[r], ops[1], ops[2])
            \/ MakesArrayForOther(docs[r], ops[2], ops[1])
            \/ SameInEitherOrder(docs[r], ops)

\* An upsert that is sent again finds the document it inserted, when its operators
\* write nothing the query looks at.  (build_upsert_with_update_operators and
\* get_eqs, against the plan and the matcher)
RetriedUpsertsUpdate ==
    [][DOMAIN docs' # DOMAIN docs => \A u \in Changes :
           /\ u.ops # <<>> /\ Upsert(u)
           /\ Comparisons(u.query) # <<>>
           /\ \A c \in ToSet(Comparisons(u.query)) : c.op = "eq" /\
                 \A op \in ToSet(u.ops) : \A path \in ToSet(Paths(op)) : ~Conflict(path, c.path)
           => MatchingRows(docs', u.query) # <<>>]_vars
=============================================================================
