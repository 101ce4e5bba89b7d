---------------------------- MODULE Collections ----------------------------
(***************************************************************************)
(* Collections, documents and indexes as keys of one ordered store:        *)
(* storage/lsm/src/lib.rs, MyWriter, and the transactions elmo/src/lib.rs  *)
(* runs on it.                                                             *)
(*                                                                         *)
(* A transaction collects what it writes in pending and commits it as one  *)
(* segment.  Whatever it reads comes from a cursor that was opened when it *)
(* began: it does not see its own writes.  What the store does is in       *)
(* LsmTree; here it is a function.                                         *)
(***************************************************************************)
EXTENDS Integers, FiniteSets, Sequences

CONSTANTS
    Name,       \* names of collections, all in one database
    IndexName,  \* names of indexes that users create
    Id,         \* values of _id
    Value,      \* values of the field that users' indexes are about
    MaxColl,    \* bound: collection ids
    MaxRecord,  \* bound: record ids in a collection
    MaxIndex,   \* bound: index ids in a collection
    MaxBatch    \* bound: operations in a transaction

ASSUME BoundsAssumption ==
    /\ MaxColl \in Nat \ {0} /\ MaxRecord \in Nat \ {0}
    /\ MaxIndex \in Nat \ {0} /\ MaxBatch \in Nat \ {0}

\* The empty name stands for no collection below.
ASSUME NameAssumption == "" \notin Name

PrimaryIndex == 0
PrimaryName == "_id_"
AnyIndexName == IndexName \cup {PrimaryName}

\* What is not indexed of a document is left out.
Document == [id : Id, value : Value]

\* The keys of the store, by the tag they begin with.  The key of a unique index
\* holds no record id.
NameKey(n) == <<"name", n>>
PropertiesKey(c) == <<"properties", c>>
IndexNameKey(c, x) == <<"indexname", c, x>>
IndexKey(c, i) == <<"index", c, i>>
RecordKey(c, r) == <<"record", c, r>>
EntryKey(c, i, v, r, unique) ==
    IF unique THEN <<"entry", c, i, v>> ELSE <<"entry", c, i, v, r>>

VARIABLES store,  \* what is committed, a function on some keys
          tx      \* the transaction that holds the write lock

vars == <<store, tx>>

Keys(tag) == {k \in DOMAIN store : k[1] = tag}
KeysOf(tag, c) == {k \in Keys(tag) : k[2] = c}

\* A transaction writes values <<v>> and tombstones <<>>.  The ids it has given
\* out and the collection it last wrote to are kept; command is what it is for.
Tombstone == <<>>
NoCollection == [name |-> "", coll |-> 0, indexes |-> {}]
NoTransaction == [command |-> "none", count |-> 0, pending |-> <<>>, maxColl |-> 0,
                  maxRecord |-> <<>>, maxIndex |-> <<>>, cw |-> NoCollection]

Overlay(f, g) == [k \in DOMAIN f \cup DOMAIN g |-> IF k \in DOMAIN g THEN g[k] ELSE f[k]]
With(f, k, v) == Overlay(f, [j \in {k} |-> v])

Put(t, k, v) == [t EXCEPT !.pending = With(@, k, <<v>>)]
Erase(t, S) == [t EXCEPT !.pending = Overlay(@, [k \in S |-> Tombstone])]
PutAll(t, f) == [t EXCEPT !.pending = Overlay(@, [k \in DOMAIN f |-> <<f[k]>>])]

Index == [index : 0..MaxIndex, unique : BOOLEAN]

TypeOK ==
    /\ \A k \in Keys("name") : k[2] \in Name /\ store[k] \in 1..MaxColl
    /\ \A k \in Keys("properties") : k[2] \in 1..MaxColl /\ store[k] \in Name
    /\ \A k \in Keys("indexname") : k[3] \in AnyIndexName /\ store[k] \in 0..MaxIndex
    /\ \A k \in Keys("index") : k[3] \in 0..MaxIndex /\ store[k].name \in AnyIndexName
    /\ \A k \in Keys("record") : k[3] \in 1..MaxRecord /\ store[k] \in Document
    /\ \A k \in Keys("entry") : store[k] \in 1..MaxRecord
    /\ tx.count \in 0..MaxBatch
    /\ tx.cw.indexes \subseteq Index

Init == store = <<>> /\ tx = NoTransaction

-----------------------------------------------------------------------------
(* Ids.                                                                    *)

Largest(S) == CHOOSE n \in S : \A m \in S : m <= n

\* use_next_collection_id: what the transaction gave out last, or else the
\* largest id that is committed.
NextColl(t) ==
    1 + (IF t.maxColl # 0 THEN t.maxColl
         ELSE Largest({k[2] : k \in Keys("properties")} \cup {0}))

NextRecordOfStore(t, c) == 1 + Largest({k[3] : k \in KeysOf("record", c)} \cup {0})

\* use_next_record_id.
NextRecord(t, c) ==
    1 + (IF c \in DOMAIN t.maxRecord THEN t.maxRecord[c]
         ELSE Largest({k[3] : k \in KeysOf("record", c)} \cup {0}))

\* use_next_index_id.
NextIndex(t, c) ==
    1 + (IF c \in DOMAIN t.maxIndex THEN t.maxIndex[c]
         ELSE Largest({k[3] : k \in KeysOf("index", c)} \cup {PrimaryIndex}))

-----------------------------------------------------------------------------
(* Collections.                                                            *)

Exists(n) == NameKey(n) \in DOMAIN store

\* base_create_collection, when there is no such collection.  The index on _id
\* can be left out.
NewCollection(t, n, autoIndex) ==
    LET c == NextColl(t)
        u == PutAll([t EXCEPT !.maxColl = c],
                    [k \in {NameKey(n), PropertiesKey(c)} |->
                        IF k = NameKey(n) THEN c ELSE n])
    IN  IF autoIndex
        THEN Put(Put(u, IndexNameKey(c, PrimaryName), PrimaryIndex),
                 IndexKey(c, PrimaryIndex), [name |-> PrimaryName, unique |-> TRUE])
        ELSE u

Created(t, n) == IF Exists(n) THEN t ELSE NewCollection(t, n, TRUE)
CollectionId(t, n) == IF Exists(n) THEN store[NameKey(n)] ELSE NextColl(t)

\* list_indexes_for_collection_writer.
IndexesOf(c) ==
    {[index |-> k[3], unique |-> store[k].unique] : k \in KeysOf("index", c)}

\* get_collection_writer: the collection is looked up, and made if need be, only
\* when the transaction wrote to another one before.
CollectionWriter(t, n) ==
    IF t.cw.name = n THEN t
    ELSE [Created(t, n) EXCEPT !.cw =
             [name |-> n, coll |-> CollectionId(t, n),
              indexes |-> IF Exists(n) THEN IndexesOf(store[NameKey(n)])
                          ELSE {[index |-> PrimaryIndex, unique |-> TRUE]}]]

KeysOfCollectionButRecords(c) ==
    UNION {KeysOf(tag, c) : tag \in {"properties", "indexname", "index", "entry"}}

KeysOfCollection(c) ==
    UNION {KeysOf(tag, c) : tag \in {"properties", "indexname", "index", "record", "entry"}}

\* base_drop_collection.
Dropped(t, n) ==
    IF Exists(n)
    THEN Erase(t, {NameKey(n)} \cup KeysOfCollection(store[NameKey(n)]))
    ELSE t

-----------------------------------------------------------------------------
(* Documents.                                                              *)

\* make_index_entry, for all indexes of the collection.
Entries(cw, r, doc) ==
    {EntryKey(cw.coll, x.index, IF x.index = PrimaryIndex THEN doc.id ELSE doc.value,
              r, x.unique) : x \in cw.indexes}

WithEntries(t, r, doc) == PutAll(t, [k \in Entries(t.cw, r, doc) |-> r])

\* find_record: what the index on _id says.
Found(c, id) ==
    LET k == EntryKey(c, PrimaryIndex, id, 0, TRUE)
    IN  IF k \in DOMAIN store THEN {store[k]} ELSE {}

Matches(n, id) ==
    {k \in IF Exists(n) THEN KeysOf("record", store[NameKey(n)]) ELSE {} :
        store[k].id = id}

\* StorageWriter::insert.
Inserted(t, n, doc) ==
    LET u == CollectionWriter(t, n)
        r == NextRecord(u, u.cw.coll)
    IN  WithEntries([Put(u, RecordKey(u.cw.coll, r), doc)
                        EXCEPT !.maxRecord = With(@, u.cw.coll, r)], r, doc)

\* StorageWriter::update, of the record that was found.
UpdatedInsertingFirst(t, r, doc) ==
    LET k == RecordKey(t.cw.coll, r)
    IN  Erase(WithEntries(Put(t, k, doc), r, doc), Entries(t.cw, r, store[k]))

Updated(t, r, doc) ==
    LET k == RecordKey(t.cw.coll, r)
    IN  WithEntries(Erase(Put(t, k, doc), Entries(t.cw, r, store[k])), r, doc)

\* StorageWriter::delete.
DeletedKeepingEntries(t, r) == Erase(t, {RecordKey(t.cw.coll, r)})

Deleted(t, r) ==
    LET k == RecordKey(t.cw.coll, r)
    IN  Erase(t, {k} \cup Entries(t.cw, r, store[k]))

-----------------------------------------------------------------------------
(* The commands.  insert, update, delete, create_indexes and delete_indexes *)
(* take several operations in one transaction, the others one.             *)

Does(command) ==
    \/ tx.command = "none"
    \/ tx.command = command /\ tx.count < MaxBatch

\* The transaction t goes on for a command that takes several operations.
Batch(command, t) ==
    /\ Does(command)
    /\ tx' = [t EXCEPT !.command = command, !.count = tx.count + 1]
    /\ UNCHANGED store

Single(t) ==
    /\ tx.command = "none"
    /\ tx' = [t EXCEPT !.command = "single", !.count = 1]
    /\ UNCHANGED store

InBounds(t) ==
    /\ t.maxColl <= MaxColl
    /\ \A c \in DOMAIN t.maxRecord : t.maxRecord[c] <= MaxRecord
    /\ \A c \in DOMAIN t.maxIndex : t.maxIndex[c] <= MaxIndex

Insert(n, doc) ==
    LET t == Inserted(tx, n, doc)
    IN  InBounds(t) /\ Batch("insert", t)

\* update, which found a document that it changes: the new form is written to the
\* record that the index on _id leads to.
Update(n, doc) ==
    LET t == CollectionWriter(tx, n)
    IN  /\ \E k \in Matches(n, doc.id) : store[k] # doc
        /\ \E r \in Found(t.cw.coll, doc.id) : Batch("update", Updated(t, r, doc))

\* update, whose query found nothing and that may insert.  The query need not be
\* about the _id of what is inserted.
Upsert(n, doc) ==
    LET t == Inserted(tx, n, doc)
    IN  InBounds(t) /\ Batch("update", t)

Delete(n, id) ==
    LET t == CollectionWriter(tx, n)
    IN  /\ Matches(n, id) # {}
        /\ \E r \in Found(t.cw.coll, id) : Batch("delete", Deleted(t, r))

\* create_index, when the collection has no index of that name yet: the records
\* that are committed are indexed.
CreateIndex(n, x, unique) ==
    LET t == Created(tx, n)
        c == CollectionId(tx, n)
        i == NextIndex(t, c)
        entries == [k \in KeysOf("record", c) |->
                       EntryKey(c, i, store[k].value, k[3], unique)]
        \* Of several records with one key of a unique index the last is kept.
        written == {k[3] : k \in DOMAIN entries}
        of(e) == Largest({r \in written : entries[RecordKey(c, r)] = e})
        u == [t EXCEPT !.maxIndex = With(@, c, i)]
        v == Put(u, IndexNameKey(c, x), i)
        w == PutAll(v, [e \in {entries[k] : k \in DOMAIN entries} |-> of(e)])
    IN  /\ IndexNameKey(c, x) \notin DOMAIN store
        /\ InBounds(w)
        /\ Batch("create_indexes",
                 Put(w, IndexKey(c, i), [name |-> x, unique |-> unique]))

\* drop_index.
DropIndex(n, x) ==
    /\ Exists(n)
    /\ LET c == store[NameKey(n)]
           k == IndexNameKey(c, x)
       IN  /\ k \in DOMAIN store
           /\ Batch("delete_indexes",
                    Erase(tx, {k} \cup {j \in KeysOf("index", c) \cup KeysOf("entry", c) :
                                           j[3] = store[k]}))

CreateCollection(n, autoIndex) ==
    LET t == NewCollection(tx, n, autoIndex)
    IN  ~Exists(n) /\ InBounds(t) /\ Single(t)

DropCollection(n) == Exists(n) /\ Single(Dropped(tx, n))

DropDatabase ==
    LET ids == {store[k] : k \in Keys("name")}
    IN  ids # {} /\ Single(Erase(tx, Keys("name") \cup UNION {KeysOfCollection(c) : c \in ids}))

\* base_clear_collection.
Cleared(t, n) ==
    IF Exists(n)
    THEN LET c == store[NameKey(n)]
         IN  Erase(t, KeysOf("record", c) \cup KeysOf("entry", c))
    ELSE Created(t, n)

ClearCollection(n) == LET t == Cleared(tx, n) IN InBounds(t) /\ Single(t)

\* base_rename_collection, of a collection that exists.
RenamedKeepingProperties(t, old, new) ==
    Put(Erase(t, {NameKey(old)}), NameKey(new), store[NameKey(old)])

Renamed(t, old, new) ==
    LET c == store[NameKey(old)]
        u == Put(Erase(t, {NameKey(old)}), NameKey(new), c)
    IN  IF PropertiesKey(c) \in DOMAIN store THEN Put(u, PropertiesKey(c), new) ELSE u

Rename(old, new, dropTarget) ==
    /\ dropTarget \/ ~Exists(new)
    /\ LET t == IF dropTarget THEN Dropped(tx, new) ELSE tx
           u == IF Exists(old) THEN Renamed(t, old, new) ELSE Created(t, new)
       IN  InBounds(u) /\ Single(u)

\* commit: the pending writes become one segment.
Commit ==
    /\ tx.command # "none"
    /\ LET written == Overlay([k \in DOMAIN store |-> <<store[k]>>], tx.pending)
       IN  store' = [k \in {j \in DOMAIN written : written[j] # Tombstone} |-> written[k][1]]
    /\ tx' = NoTransaction

\* A command that fails drops its writer.
Abandon ==
    /\ tx.command # "none"
    /\ tx' = NoTransaction
    /\ UNCHANGED store

Next ==
    \/ \E n \in Name, doc \in Document : Insert(n, doc) \/ Update(n, doc) \/ Upsert(n, doc)
    \/ \E n \in Name, id \in Id : Delete(n, id)
    \/ \E n \in Name, x \in IndexName, unique \in BOOLEAN : CreateIndex(n, x, unique)
    \/ \E n \in Name, x \in AnyIndexName : DropIndex(n, x)
    \/ \E n \in Name, autoIndex \in BOOLEAN : CreateCollection(n, autoIndex)
    \/ \E n \in Name : DropCollection(n) \/ ClearCollection(n)
    \/ DropDatabase
    \/ \E old, new \in Name, dropTarget \in BOOLEAN : Rename(old, new, dropTarget)
    \/ Commit
    \/ Abandon

Spec == Init /\ [][Next]_vars

-----------------------------------------------------------------------------
(* Properties of what is committed.                                        *)

\* A name leads to a collection whose properties hold that name, so no two names
\* lead to one collection, whatever was renamed, dropped and created again.
\* (base_rename_collection, use_next_collection_id)
NamesAgree ==
    \A k \in Keys("name") :
        LET p == PropertiesKey(store[k]) IN p \in DOMAIN store /\ store[p] = k[2]

\* Nothing is left of what was dropped, for a later collection or index with the
\* same id to find: every record and index is one of a collection, every entry
\* one of an index.  (base_drop_collection, base_drop_index, the ids)
NothingIsOrphaned ==
    /\ \A k \in Keys("record") \cup Keys("index") \cup Keys("indexname") :
          PropertiesKey(k[2]) \in DOMAIN store
    /\ \A k \in Keys("entry") : IndexKey(k[2], k[3]) \in DOMAIN store

\* Every record has its entry in every index that is not unique, so a query
\* finds the same documents with an index and without it, though operations of
\* one transaction do not see each other.  (update_indexes_insert, create_index)
IndexesAreComplete ==
    \A x \in Keys("index") : ~store[x].unique =>
        \A k \in KeysOf("record", x[2]) :
            EntryKey(x[2], x[3], store[k].value, k[3], FALSE) \in DOMAIN store

\* What the index on _id leads to is a record with that _id: update and delete
\* unwrap what they read there.  (find_record, update, delete)
FoundRecordsExist ==
    \A k \in Keys("entry") : k[3] = PrimaryIndex =>
        LET r == RecordKey(k[2], store[k]) IN r \in DOMAIN store /\ store[r].id = k[4]

\* A command that inserts loses nothing: what was stored is still there, and
\* there is one more record for every document.  (use_next_record_id)
NoInsertIsLost ==
    [][Commit /\ tx.command = "insert" =>
          /\ \A k \in Keys("record") : k \in DOMAIN store' /\ store'[k] = store[k]
          /\ Cardinality({k \in DOMAIN store' : k[1] = "record"})
                = Cardinality(Keys("record")) + tx.count]_vars

\* What get_reader_regular_index_scan takes for granted ("record id not
\* found?!?"): an index leads only to records that are there.
EntriesHaveRecords ==
    \A k \in Keys("entry") : RecordKey(k[2], store[k]) \in DOMAIN store
=============================================================================
