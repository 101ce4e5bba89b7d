------------------------- MODULE Collections_proofs -------------------------
(***************************************************************************)
(* Proofs about Collections, for any names, documents and bounds.          *)
(***************************************************************************)
EXTENDS Collections, FiniteSetTheorems, WellFoundedInduction, TLAPS

-----------------------------------------------------------------------------
(* Keys, and what a transaction would leave behind each.                   *)

CollId == 1..MaxColl
RecordId == 1..MaxRecord
IndexId == 0..MaxIndex
EntryValue == Id \cup Value

\* The parts of a key; an entry of a unique index has no record id.
TagOf(k) == k[1]
CollOf(k) == k[2]
PartOf(k) == k[3]
ValueOf(k) == k[4]
RecordOf(k) == k[5]
SizeOf(k) == Len(k)

IsEntry(k) ==
    \E c \in CollId, i \in IndexId, v \in EntryValue, r \in RecordId, unique \in BOOLEAN :
        k = EntryKey(c, i, v, r, unique)

IsKey(k) ==
    \/ \E n \in Name : k = NameKey(n)
    \/ \E c \in CollId : k = PropertiesKey(c)
    \/ \E c \in CollId, x \in AnyIndexName : k = IndexNameKey(c, x)
    \/ \E c \in CollId, i \in IndexId : k = IndexKey(c, i)
    \/ \E c \in CollId, r \in RecordId : k = RecordKey(c, r)
    \/ IsEntry(k)

\* What is stored if the transaction t commits, and what it has written.
Has(t, k) == IF k \in DOMAIN t.pending THEN t.pending[k] # Tombstone ELSE k \in DOMAIN store
At(t, k) == IF k \in DOMAIN t.pending THEN t.pending[k][1] ELSE store[k]
Writes(t, k) == k \in DOMAIN t.pending

-----------------------------------------------------------------------------
(* The inductive invariant: what t would leave behind is sound.            *)

Shaped(t) == \A k \in DOMAIN store \cup DOMAIN t.pending : Has(t, k) => IsKey(k)

Typed(t) ==
    /\ \A n \in Name : Has(t, NameKey(n)) => At(t, NameKey(n)) \in CollId
    /\ \A c \in CollId : Has(t, PropertiesKey(c)) => At(t, PropertiesKey(c)) \in Name
    /\ \A c \in CollId, x \in AnyIndexName :
           Has(t, IndexNameKey(c, x)) => At(t, IndexNameKey(c, x)) \in IndexId
    /\ \A c \in CollId, i \in IndexId :
           Has(t, IndexKey(c, i)) =>
               /\ At(t, IndexKey(c, i)) \in [name : AnyIndexName, unique : BOOLEAN]
               /\ i = PrimaryIndex => At(t, IndexKey(c, i)).unique
    /\ \A c \in CollId, r \in RecordId :
           Has(t, RecordKey(c, r)) => At(t, RecordKey(c, r)) \in Document
    /\ \A c \in CollId, i \in IndexId, v \in EntryValue, r \in RecordId, unique \in BOOLEAN :
           Has(t, EntryKey(c, i, v, r, unique)) =>
               /\ At(t, EntryKey(c, i, v, r, unique)) \in RecordId
               /\ i = PrimaryIndex => unique

Named(t) ==
    \A n \in Name : Has(t, NameKey(n)) =>
        /\ Has(t, PropertiesKey(At(t, NameKey(n))))
        /\ At(t, PropertiesKey(At(t, NameKey(n)))) = n

Owned(t) ==
    /\ \A c \in CollId, x \in AnyIndexName : Has(t, IndexNameKey(c, x)) => Has(t, PropertiesKey(c))
    /\ \A c \in CollId, i \in IndexId : Has(t, IndexKey(c, i)) => Has(t, PropertiesKey(c))
    /\ \A c \in CollId, r \in RecordId : Has(t, RecordKey(c, r)) => Has(t, PropertiesKey(c))
    /\ \A c \in CollId, i \in IndexId, v \in EntryValue, r \in RecordId, unique \in BOOLEAN :
           Has(t, EntryKey(c, i, v, r, unique)) => Has(t, IndexKey(c, i))

Complete(t) ==
    \A c \in CollId, i \in IndexId, r \in RecordId :
        /\ Has(t, IndexKey(c, i)) /\ ~At(t, IndexKey(c, i)).unique
        /\ Has(t, RecordKey(c, r))
        => Has(t, EntryKey(c, i, At(t, RecordKey(c, r)).value, r, FALSE))

\* The entry of an _id, and the record that it leads to.
IdKey(c, v) == EntryKey(c, PrimaryIndex, v, 0, TRUE)

Leads(t) ==
    \A c \in CollId, v \in EntryValue : Has(t, IdKey(c, v)) =>
        /\ Has(t, RecordKey(c, At(t, IdKey(c, v))))
        /\ At(t, RecordKey(c, At(t, IdKey(c, v)))).id = v

Sound(t) == Shaped(t) /\ Typed(t) /\ Named(t) /\ Owned(t) /\ Complete(t) /\ Leads(t)

-----------------------------------------------------------------------------
(* What a transaction knows while it goes on.                              *)

IsTransaction(t) ==
    t = [command |-> t.command, count |-> t.count, pending |-> t.pending,
         maxColl |-> t.maxColl, maxRecord |-> t.maxRecord, maxIndex |-> t.maxIndex, cw |-> t.cw]

IdsTyped(t) ==
    /\ t.maxColl \in Nat
    /\ \A c \in DOMAIN t.maxRecord : t.maxRecord[c] \in Nat
    /\ \A c \in DOMAIN t.maxIndex : t.maxIndex[c] \in Nat

\* The ids given out next are larger than all that there are.
IdsAreFresh(t) ==
    /\ \A c \in CollId : Has(t, PropertiesKey(c)) \/ PropertiesKey(c) \in DOMAIN store => c < NextColl(t)
    /\ \A c \in CollId, r \in RecordId :
           Has(t, RecordKey(c, r)) \/ RecordKey(c, r) \in DOMAIN store => r < NextRecord(t, c)

Adding == {"insert", "update", "create_indexes"}
Erasing == {"delete", "delete_indexes"}
Writing == {"insert", "update", "delete"}

\* Collections stay; a command that writes documents leaves their indexes alone.
CollectionsStay(t) ==
    \A c \in CollId : PropertiesKey(c) \in DOMAIN store => Has(t, PropertiesKey(c))

IndexesStay(t) ==
    \A c \in CollId, i \in IndexId : PropertiesKey(c) \in DOMAIN store =>
        /\ Has(t, IndexKey(c, i)) <=> IndexKey(c, i) \in DOMAIN store
        /\ IndexKey(c, i) \in DOMAIN store => At(t, IndexKey(c, i)) = store[IndexKey(c, i)]

\* delete and delete_indexes write nothing but tombstones.
OnlyErases(t) ==
    \A k \in DOMAIN t.pending : t.pending[k] = Tombstone

\* Records of an update keep their _id; create_indexes writes none.
RecordsStay(t) ==
    \A c \in CollId, r \in RecordId : RecordKey(c, r) \in DOMAIN store =>
        Has(t, RecordKey(c, r)) /\ At(t, RecordKey(c, r)).id = store[RecordKey(c, r)].id

NoRecords(t) == \A c \in CollId, r \in RecordId : ~Writes(t, RecordKey(c, r))

\* The collection that is kept is the one that the name leads to, or a new one, with
\* all its indexes.
KeptAs(t, n, c, indexes) ==
    /\ n \in Name /\ c \in CollId
    /\ Has(t, PropertiesKey(c))
    /\ Exists(n) => c = store[NameKey(n)]
    /\ \A x \in indexes :
           /\ x \in Index
           /\ Has(t, IndexKey(c, x.index))
           /\ At(t, IndexKey(c, x.index)).unique = x.unique
    /\ \A i \in IndexId : Has(t, IndexKey(c, i)) =>
           [index |-> i, unique |-> At(t, IndexKey(c, i)).unique] \in indexes

HasWriter(t) == t.cw.name # ""

KeptIsKnown(t) == HasWriter(t) => KeptAs(t, t.cw.name, t.cw.coll, t.cw.indexes)

\* An insert writes one record for every document, and none that was there.
InsertsCounted(t, n) ==
    LET new == {k \in DOMAIN t.pending : TagOf(k) = "record"}
    IN  /\ \A k \in new : t.pending[k] # Tombstone /\ k \notin DOMAIN store
        /\ IsFiniteSet(new) /\ Cardinality(new) = n

KnowsFor(command, t) ==
    /\ command \in Adding => IdsAreFresh(t)
    /\ command \in Adding \cup {"delete"} => CollectionsStay(t)
    /\ command \in Writing => IndexesStay(t) /\ KeptIsKnown(t)
    /\ command \in Erasing => OnlyErases(t)
    /\ command \in {"insert", "update"} => RecordsStay(t)
    /\ command = "create_indexes" => NoRecords(t)
    /\ command \notin Writing => ~HasWriter(t)

Good(t) == IsTransaction(t) /\ IdsTyped(t) /\ t.cw.indexes \subseteq Index

Knows(t) ==
    /\ Good(t)
    /\ t.count \in 0..MaxBatch
    /\ t.command \in Adding \cup Erasing \cup {"none", "single"}
    /\ t.command = "none" => t = NoTransaction
    /\ KnowsFor(t.command, t)
    /\ t.command = "insert" => InsertsCounted(t, t.count)

IInv == Sound(NoTransaction) /\ Sound(tx) /\ Knows(tx)

-----------------------------------------------------------------------------
(* Keys.                                                                   *)

\* A key has the parts that it was made of (the encoding of keys by MyWriter).
LEMMA KeyParts ==
    /\ \A n : TagOf(NameKey(n)) = "name" /\ CollOf(NameKey(n)) = n
    /\ \A c : TagOf(PropertiesKey(c)) = "properties" /\ CollOf(PropertiesKey(c)) = c
    /\ \A c, x : /\ TagOf(IndexNameKey(c, x)) = "indexname"
                 /\ CollOf(IndexNameKey(c, x)) = c /\ PartOf(IndexNameKey(c, x)) = x
    /\ \A c, i : /\ TagOf(IndexKey(c, i)) = "index"
                 /\ CollOf(IndexKey(c, i)) = c /\ PartOf(IndexKey(c, i)) = i
    /\ \A c, r : /\ TagOf(RecordKey(c, r)) = "record"
                 /\ CollOf(RecordKey(c, r)) = c /\ PartOf(RecordKey(c, r)) = r
BY DEF TagOf, CollOf, PartOf, NameKey, PropertiesKey, IndexNameKey, IndexKey, RecordKey

\* The same of entries: those of a unique index are one for all records.
LEMMA EntryParts ==
    /\ \A c, i, v, r, unique :
           /\ TagOf(EntryKey(c, i, v, r, unique)) = "entry"
           /\ CollOf(EntryKey(c, i, v, r, unique)) = c
           /\ PartOf(EntryKey(c, i, v, r, unique)) = i
           /\ ValueOf(EntryKey(c, i, v, r, unique)) = v
    /\ \A c, i, v, r, unique :
           /\ SizeOf(EntryKey(c, i, v, r, unique)) = IF unique THEN 4 ELSE 5
           /\ ~unique => RecordOf(EntryKey(c, i, v, r, unique)) = r
    /\ \A c, i, v, r : /\ RecordOf(EntryKey(c, i, v, r, FALSE)) = r
                       /\ SizeOf(EntryKey(c, i, v, r, FALSE)) = 5
                       /\ SizeOf(EntryKey(c, i, v, r, TRUE)) = 4
    /\ \A c, i, v, r, s : EntryKey(c, i, v, r, TRUE) = EntryKey(c, i, v, s, TRUE)
BY DEF TagOf, CollOf, PartOf, ValueOf, RecordOf, SizeOf, EntryKey

\* The entry of an _id is the same for all records.
LEMMA IdKeyParts ==
    /\ \A c, v : /\ TagOf(IdKey(c, v)) = "entry" /\ CollOf(IdKey(c, v)) = c
                 /\ PartOf(IdKey(c, v)) = PrimaryIndex /\ ValueOf(IdKey(c, v)) = v
    /\ \A c, v, r : EntryKey(c, PrimaryIndex, v, r, TRUE) = IdKey(c, v)
BY DEF IdKey, TagOf, CollOf, PartOf, ValueOf, EntryKey

\* What Keys and KeysOf select.
LEMMA KeysSelect ==
    /\ \A tag, k : k \in Keys(tag) <=> k \in DOMAIN store /\ TagOf(k) = tag
    /\ \A tag, c, k : k \in KeysOf(tag, c) <=>
           k \in DOMAIN store /\ TagOf(k) = tag /\ CollOf(k) = c
BY DEF Keys, KeysOf, TagOf, CollOf

-----------------------------------------------------------------------------
(* What a write changes of what a transaction would leave behind.          *)

Keeps(t, u) ==
    /\ IsTransaction(u)
    /\ u.command = t.command /\ u.count = t.count /\ u.cw = t.cw
    /\ u.maxColl = t.maxColl /\ u.maxRecord = t.maxRecord /\ u.maxIndex = t.maxIndex

\* t writes S over what u had: f is what it puts there.
LEMMA OverlayView ==
    ASSUME NEW t, NEW u, NEW f,
           u.pending = Overlay(t.pending, f)
    PROVE  /\ \A k : Has(u, k) <=> IF k \in DOMAIN f THEN f[k] # Tombstone ELSE Has(t, k)
           /\ \A k : At(u, k) = IF k \in DOMAIN f THEN f[k][1] ELSE At(t, k)
           /\ \A k : Writes(u, k) <=> Writes(t, k) \/ k \in DOMAIN f
<1>1. /\ DOMAIN u.pending = DOMAIN t.pending \cup DOMAIN f
      /\ \A k \in DOMAIN u.pending :
             u.pending[k] = IF k \in DOMAIN f THEN f[k] ELSE t.pending[k]
  BY DEF Overlay
<1> QED
  BY <1>1 DEF Has, At, Writes

\* A write of one key (MyWriter's insert into pending).
LEMMA PutView ==
    ASSUME NEW t, IsTransaction(t), NEW key, NEW v
    PROVE  /\ Keeps(t, Put(t, key, v))
           /\ \A k : Has(Put(t, key, v), k) <=> Has(t, k) \/ k = key
           /\ \A k : At(Put(t, key, v), k) = IF k = key THEN v ELSE At(t, k)
           /\ \A k : Writes(Put(t, key, v), k) <=> Writes(t, k) \/ k = key
<1> DEFINE u == Put(t, key, v)
           f == [j \in {key} |-> <<v>>]
<1>1. u = [command |-> t.command, count |-> t.count, pending |-> Overlay(t.pending, f),
           maxColl |-> t.maxColl, maxRecord |-> t.maxRecord, maxIndex |-> t.maxIndex, cw |-> t.cw]
  BY DEF Put, With, IsTransaction
<1>2. Keeps(t, u) /\ u.pending = Overlay(t.pending, f)
  BY <1>1 DEF IsTransaction, Keeps
<1>3. DOMAIN f = {key} /\ f[key] # Tombstone /\ f[key][1] = v
  BY DEF Tombstone
<1> HIDE DEF u, f
<1>4. /\ \A k : Has(u, k) <=> IF k \in DOMAIN f THEN f[k] # Tombstone ELSE Has(t, k)
      /\ \A k : At(u, k) = IF k \in DOMAIN f THEN f[k][1] ELSE At(t, k)
      /\ \A k : Writes(u, k) <=> Writes(t, k) \/ k \in DOMAIN f
  BY <1>2, OverlayView
<1> QED
  BY <1>2, <1>3, <1>4 DEF u

\* Tombstones for a set of keys.
LEMMA EraseView ==
    ASSUME NEW t, IsTransaction(t), NEW S
    PROVE  /\ Keeps(t, Erase(t, S))
           /\ \A k : Has(Erase(t, S), k) <=> Has(t, k) /\ k \notin S
           /\ \A k : k \notin S => At(Erase(t, S), k) = At(t, k)
           /\ \A k : Writes(Erase(t, S), k) <=> Writes(t, k) \/ k \in S
<1> DEFINE u == Erase(t, S)
           f == [k \in S |-> Tombstone]
<1>1. u = [command |-> t.command, count |-> t.count, pending |-> Overlay(t.pending, f),
           maxColl |-> t.maxColl, maxRecord |-> t.maxRecord, maxIndex |-> t.maxIndex, cw |-> t.cw]
  BY DEF Erase, IsTransaction
<1>2. Keeps(t, u) /\ u.pending = Overlay(t.pending, f)
  BY <1>1 DEF IsTransaction, Keeps
<1>3. DOMAIN f = S /\ \A k \in S : f[k] = Tombstone
  OBVIOUS
<1> HIDE DEF u, f
<1>4. /\ \A k : Has(u, k) <=> IF k \in DOMAIN f THEN f[k] # Tombstone ELSE Has(t, k)
      /\ \A k : At(u, k) = IF k \in DOMAIN f THEN f[k][1] ELSE At(t, k)
      /\ \A k : Writes(u, k) <=> Writes(t, k) \/ k \in DOMAIN f
  BY <1>2, OverlayView
<1> QED
  BY <1>2, <1>3, <1>4 DEF u

\* Values for a set of keys.
LEMMA PutAllView ==
    ASSUME NEW t, IsTransaction(t), NEW g
    PROVE  /\ Keeps(t, PutAll(t, g))
           /\ \A k : Has(PutAll(t, g), k) <=> Has(t, k) \/ k \in DOMAIN g
           /\ \A k : At(PutAll(t, g), k) = IF k \in DOMAIN g THEN g[k] ELSE At(t, k)
           /\ \A k : Writes(PutAll(t, g), k) <=> Writes(t, k) \/ k \in DOMAIN g
<1> DEFINE u == PutAll(t, g)
           f == [k \in DOMAIN g |-> <<g[k]>>]
<1>1. u = [command |-> t.command, count |-> t.count, pending |-> Overlay(t.pending, f),
           maxColl |-> t.maxColl, maxRecord |-> t.maxRecord, maxIndex |-> t.maxIndex, cw |-> t.cw]
  BY DEF PutAll, IsTransaction
<1>2. Keeps(t, u) /\ u.pending = Overlay(t.pending, f)
  BY <1>1 DEF IsTransaction, Keeps
<1>3. DOMAIN f = DOMAIN g /\ \A k \in DOMAIN g : f[k] # Tombstone /\ f[k][1] = g[k]
  BY DEF Tombstone
<1> HIDE DEF u, f
<1>4. /\ \A k : Has(u, k) <=> IF k \in DOMAIN f THEN f[k] # Tombstone ELSE Has(t, k)
      /\ \A k : At(u, k) = IF k \in DOMAIN f THEN f[k][1] ELSE At(t, k)
      /\ \A k : Writes(u, k) <=> Writes(t, k) \/ k \in DOMAIN f
  BY <1>2, OverlayView
<1> QED
  BY <1>2, <1>3, <1>4 DEF u

\* What is not written stays: two transactions with the same pending writes.
LEMMA SameView ==
    ASSUME NEW t, NEW u, u.pending = t.pending
    PROVE  /\ \A k : Has(u, k) <=> Has(t, k)
           /\ \A k : At(u, k) = At(t, k)
           /\ \A k : Writes(u, k) <=> Writes(t, k)
BY DEF Has, At, Writes

\* Before a transaction writes, it would leave what there is.
LEMMA NoView ==
    /\ \A k : Has(NoTransaction, k) <=> k \in DOMAIN store
    /\ \A k : At(NoTransaction, k) = store[k]
    /\ \A k : ~Writes(NoTransaction, k)
<1>1. DOMAIN NoTransaction.pending = {}
  BY DEF NoTransaction
<1> QED
  BY <1>1 DEF Has, At, Writes

\* Nothing but keys is stored.
LEMMA ShapedKeys ==
    ASSUME NEW t
    PROVE  Shaped(t) <=> \A k : Has(t, k) => IsKey(k)
<1>1. \A k : Has(t, k) => k \in DOMAIN store \cup DOMAIN t.pending
  BY DEF Has
<1> QED
  BY <1>1 DEF Shaped

-----------------------------------------------------------------------------
(* Ids.                                                                    *)

\* A bounded set of numbers that is not empty has a largest one (the cursors of
\* use_next_collection_id, use_next_record_id and use_next_index_id seek for it).
LEMMA LargestNumber ==
    ASSUME NEW b \in Nat, NEW S \in SUBSET (0..b), S # {}
    PROVE  Largest(S) \in S /\ \A m \in S : m <= Largest(S)
<1> DEFINE T == {n..b : n \in S}
<1>1. T \subseteq FiniteSubsetsOf(Nat) /\ T # {}
  <2>1. \A n \in S : n..b \in SUBSET Nat /\ IsFiniteSet(n..b)
    BY FS_Interval
  <2> QED
    BY <2>1 DEF FiniteSubsetsOf
<1>2. PICK X \in T : \A Y \in T : <<Y, X>> \notin StrictSubsetOrdering(Nat)
  BY <1>1, FS_StrictSubsetOrderingWellFounded, WFMin, Zenon
<1>3. PICK n \in S : X = n..b
  OBVIOUS
<1>4. ASSUME NEW m \in S, n < m
      PROVE  FALSE
  <2>1. n \in n..b /\ n \notin m..b /\ m..b \subseteq n..b
    BY <1>4
  <2>2. <<m..b, n..b>> \in StrictSubsetOrdering(Nat)
    BY <2>1 DEF StrictSubsetOrdering
  <2> QED
    BY <1>2, <1>3, <2>2
<1>5. \E k \in S : \A m \in S : m <= k
  BY <1>4
<1> QED
  BY <1>5 DEF Largest

\* The ids of what is stored are in bounds.
LEMMA StoredIds ==
    ASSUME Sound(NoTransaction)
    PROVE  /\ {k[2] : k \in Keys("properties")} \cup {0} \in SUBSET (0..MaxColl)
           /\ \A c : {k[3] : k \in KeysOf("record", c)} \cup {0} \in SUBSET (0..MaxRecord)
           /\ \A c : {k[3] : k \in KeysOf("index", c)} \cup {PrimaryIndex} \in SUBSET (0..MaxIndex)
<1>1. \A k \in DOMAIN store : IsKey(k)
  BY ShapedKeys, NoView DEF Sound
<1>2. MaxColl \in Nat /\ MaxRecord \in Nat /\ MaxIndex \in Nat
  BY BoundsAssumption
<1>3. ASSUME NEW k \in Keys("properties")
      PROVE  k[2] \in 0..MaxColl
  <2>1. \E c \in CollId : k = PropertiesKey(c)
    BY <1>1, KeysSelect, KeyParts, EntryParts DEF IsKey, IsEntry
  <2> QED
    BY <2>1, KeyParts, <1>2 DEF CollId, CollOf
<1>4. ASSUME NEW c, NEW k \in KeysOf("record", c)
      PROVE  k[3] \in 0..MaxRecord
  <2>1. \E d \in CollId, r \in RecordId : k = RecordKey(d, r)
    BY <1>1, KeysSelect, KeyParts, EntryParts DEF IsKey, IsEntry
  <2> QED
    BY <2>1, KeyParts, <1>2 DEF RecordId, PartOf
<1>5. ASSUME NEW c, NEW k \in KeysOf("index", c)
      PROVE  k[3] \in 0..MaxIndex
  <2>1. \E d \in CollId, i \in IndexId : k = IndexKey(d, i)
    BY <1>1, KeysSelect, KeyParts, EntryParts DEF IsKey, IsEntry
  <2> QED
    BY <2>1, KeyParts, <1>2 DEF IndexId, PartOf
<1> QED
  BY <1>2, <1>3, <1>4, <1>5 DEF PrimaryIndex

\* The next ids are numbers, and at first larger than those of the store.
LEMMA NextIds ==
    ASSUME Sound(NoTransaction)
    PROVE  /\ \A t : t.maxColl \in Nat => NextColl(t) \in Nat \ {0}
           /\ \A t, c : (c \in DOMAIN t.maxRecord => t.maxRecord[c] \in Nat) =>
                  NextRecord(t, c) \in Nat \ {0}
           /\ \A t, c : (c \in DOMAIN t.maxIndex => t.maxIndex[c] \in Nat) =>
                  NextIndex(t, c) \in Nat \ {0}
           /\ IdsAreFresh(NoTransaction)
<1> DEFINE C == {k[2] : k \in Keys("properties")} \cup {0}
           R(c) == {k[3] : k \in KeysOf("record", c)} \cup {0}
           I(c) == {k[3] : k \in KeysOf("index", c)} \cup {PrimaryIndex}
<1>1. MaxColl \in Nat /\ MaxRecord \in Nat /\ MaxIndex \in Nat
  BY BoundsAssumption
<1>2. Largest(C) \in C /\ (\A m \in C : m <= Largest(C)) /\ Largest(C) \in Nat
  <2>1. C \in SUBSET (0..MaxColl) /\ C # {}
    BY StoredIds
  <2> HIDE DEF C
  <2>2. Largest(C) \in C /\ (\A m \in C : m <= Largest(C))
    BY <1>1, <2>1, LargestNumber
  <2>3. Largest(C) \in 0..MaxColl
    BY <2>1, <2>2, Zenon
  <2> QED
    BY <1>1, <2>2, <2>3
<1>3. ASSUME NEW c
      PROVE  Largest(R(c)) \in R(c) /\ (\A m \in R(c) : m <= Largest(R(c))) /\ Largest(R(c)) \in Nat
  <2> DEFINE S == R(c)
  <2>1. S \in SUBSET (0..MaxRecord) /\ S # {}
    BY StoredIds
  <2> HIDE DEF S
  <2>2. Largest(S) \in S /\ (\A m \in S : m <= Largest(S))
    BY <1>1, <2>1, LargestNumber
  <2>3. Largest(S) \in 0..MaxRecord
    BY <2>1, <2>2, Zenon
  <2>4. Largest(S) \in Nat
    BY <1>1, <2>3
  <2> QED
    BY <2>2, <2>4 DEF S
<1>4. ASSUME NEW c
      PROVE  Largest(I(c)) \in Nat
  <2> DEFINE S == I(c)
  <2>1. S \in SUBSET (0..MaxIndex) /\ S # {}
    BY StoredIds
  <2> HIDE DEF S
  <2>2. Largest(S) \in S
    BY <1>1, <2>1, LargestNumber
  <2>3. Largest(S) \in 0..MaxIndex
    BY <2>1, <2>2, Zenon
  <2>4. Largest(S) \in Nat
    BY <1>1, <2>3
  <2> QED
    BY <2>2, <2>4 DEF S
<1>5. /\ \A t : NextColl(t) = 1 + (IF t.maxColl # 0 THEN t.maxColl ELSE Largest(C))
      /\ \A t, c : NextRecord(t, c) =
             1 + (IF c \in DOMAIN t.maxRecord THEN t.maxRecord[c] ELSE Largest(R(c)))
      /\ \A t, c : NextIndex(t, c) =
             1 + (IF c \in DOMAIN t.maxIndex THEN t.maxIndex[c] ELSE Largest(I(c)))
  BY DEF NextColl, NextRecord, NextIndex
<1>6. NoTransaction.maxColl = 0 /\ DOMAIN NoTransaction.maxRecord = {}
  BY DEF NoTransaction
<1>7. ASSUME NEW c \in CollId, PropertiesKey(c) \in DOMAIN store
      PROVE  c \in C
  BY <1>7, KeysSelect, KeyParts DEF CollOf
<1>8. ASSUME NEW c \in CollId, NEW r \in RecordId, RecordKey(c, r) \in DOMAIN store
      PROVE  r \in R(c)
  BY <1>8, KeysSelect, KeyParts DEF PartOf
<1> HIDE DEF C, R, I
<1>9. ASSUME NEW c \in CollId, PropertiesKey(c) \in DOMAIN store
      PROVE  c < NextColl(NoTransaction)
  <2>1. c <= Largest(C) /\ NextColl(NoTransaction) = 1 + Largest(C)
    BY <1>2, <1>5, <1>6, <1>7, <1>9
  <2> QED
    BY <1>1, <1>2, <2>1 DEF CollId
<1>10. ASSUME NEW c \in CollId, NEW r \in RecordId, RecordKey(c, r) \in DOMAIN store
       PROVE  r < NextRecord(NoTransaction, c)
  <2>1. r <= Largest(R(c)) /\ NextRecord(NoTransaction, c) = 1 + Largest(R(c))
    BY <1>3, <1>5, <1>6, <1>8, <1>10
  <2> QED
    BY <1>1, <1>3, <2>1 DEF RecordId
<1>11. IdsAreFresh(NoTransaction)
  BY <1>9, <1>10, NoView DEF IdsAreFresh
<1>12. \A t : t.maxColl \in Nat => NextColl(t) \in Nat \ {0}
  BY <1>2, <1>5
<1>13. \A t, c : (c \in DOMAIN t.maxRecord => t.maxRecord[c] \in Nat) => NextRecord(t, c) \in Nat \ {0}
  BY <1>3, <1>5
<1>14. \A t, c : (c \in DOMAIN t.maxIndex => t.maxIndex[c] \in Nat) => NextIndex(t, c) \in Nat \ {0}
  BY <1>4, <1>5
<1> QED
  BY <1>11, <1>12, <1>13, <1>14

\* The next ids depend on what was given out and on the store.
LEMMA SameIds ==
    ASSUME NEW t, NEW u, u.maxColl = t.maxColl, u.maxRecord = t.maxRecord, u.maxIndex = t.maxIndex
    PROVE  /\ NextColl(u) = NextColl(t)
           /\ \A c : NextRecord(u, c) = NextRecord(t, c)
           /\ \A c : NextIndex(u, c) = NextIndex(t, c)
BY DEF NextColl, NextRecord, NextIndex

-----------------------------------------------------------------------------
(* From one operation of a transaction to the next.                        *)

\* A transaction that has not begun knows all it needs for any command.
LEMMA StartKnows ==
    ASSUME Sound(NoTransaction)
    PROVE  /\ Good(NoTransaction) /\ NoTransaction.count = 0
           /\ InsertsCounted(NoTransaction, 0)
           /\ \A command : KnowsFor(command, NoTransaction)
<1>1. /\ NoTransaction.count = 0 /\ NoTransaction.maxColl = 0
      /\ DOMAIN NoTransaction.pending = {}
      /\ DOMAIN NoTransaction.maxRecord = {} /\ DOMAIN NoTransaction.maxIndex = {}
  BY DEF NoTransaction
<1>2. NoTransaction.cw.name = "" /\ NoTransaction.cw.indexes = {}
  <2>1. NoTransaction.cw = NoCollection
    BY DEF NoTransaction
  <2>2. NoCollection.name = "" /\ NoCollection.indexes = {}
    BY DEF NoCollection
  <2> QED
    BY <2>1, <2>2
<1>3. Good(NoTransaction)
  <2>1. IsTransaction(NoTransaction)
    BY DEF NoTransaction, IsTransaction
  <2>2. IdsTyped(NoTransaction)
    BY <1>1 DEF IdsTyped
  <2> QED
    BY <1>2, <2>1, <2>2 DEF Good
<1>4. InsertsCounted(NoTransaction, 0)
  <2>1. {k \in DOMAIN NoTransaction.pending : TagOf(k) = "record"} = {}
    BY <1>1
  <2> QED
    BY <2>1, FS_EmptySet DEF InsertsCounted
<1>5. IdsAreFresh(NoTransaction)
  BY NextIds
<1>6. CollectionsStay(NoTransaction) /\ NoRecords(NoTransaction)
  BY NoView DEF CollectionsStay, NoRecords
<1>7. IndexesStay(NoTransaction) /\ RecordsStay(NoTransaction)
  BY NoView DEF IndexesStay, RecordsStay
<1>8. OnlyErases(NoTransaction) /\ KeptIsKnown(NoTransaction)
  BY <1>1, <1>2 DEF OnlyErases, KeptIsKnown, HasWriter
<1> QED
  BY <1>1, <1>2, <1>3, <1>4, <1>5, <1>6, <1>7, <1>8 DEF KnowsFor, HasWriter

\* What a command finds when it goes on.
LEMMA Ready ==
    ASSUME IInv, NEW command \in Adding \cup Erasing, Does(command)
    PROVE  /\ Good(tx) /\ KnowsFor(command, tx)
           /\ tx.count + 1 \in 0..MaxBatch
           /\ command = "insert" => InsertsCounted(tx, tx.count)
<1>1. MaxBatch \in Nat \ {0}
  BY BoundsAssumption
<1>2. CASE tx.command = "none"
  <2>1. tx = NoTransaction
    BY <1>2 DEF IInv, Knows
  <2> QED
    BY <1>1, <2>1, StartKnows DEF IInv
<1>3. CASE tx.command = command /\ tx.count < MaxBatch
  BY <1>1, <1>3 DEF IInv, Knows
<1> QED
  BY <1>2, <1>3 DEF Does

\* A step of the transaction keeps the invariant when what it makes is sound.
LEMMA Goes ==
    ASSUME IInv, NEW u, Sound(u), Knows(u), tx' = u, UNCHANGED store
    PROVE  IInv'
<1>1. Sound(NoTransaction)'
  <2>1. /\ \A k : Has(NoTransaction, k)' <=> Has(NoTransaction, k)
        /\ \A k : At(NoTransaction, k)' = At(NoTransaction, k)
    BY DEF Has, At
  <2>2. Shaped(NoTransaction)'
    BY <2>1 DEF IInv, Sound, Shaped
  <2>3. Typed(NoTransaction)'
    BY <2>1 DEF IInv, Sound, Typed
  <2>4. Named(NoTransaction)' /\ Owned(NoTransaction)'
    BY <2>1 DEF IInv, Sound, Named, Owned
  <2>5. Complete(NoTransaction)'
    BY <2>1 DEF IInv, Sound, Complete
  <2>6. Leads(NoTransaction)'
    BY <2>1 DEF IInv, Sound, Leads
  <2> QED
    BY <2>2, <2>3, <2>4, <2>5, <2>6 DEF Sound
<1>2. Sound(tx)'
  <2>1. /\ \A k : Has(tx, k)' <=> Has(u, k)
        /\ \A k : At(tx, k)' = At(u, k)
    BY DEF Has, At
  <2>2. Shaped(tx)'
    BY <2>1 DEF IInv, Sound, Shaped
  <2>3. Typed(tx)'
    BY <2>1 DEF IInv, Sound, Typed
  <2>4. Named(tx)' /\ Owned(tx)'
    BY <2>1 DEF IInv, Sound, Named, Owned
  <2>5. Complete(tx)'
    BY <2>1 DEF IInv, Sound, Complete
  <2>6. Leads(tx)'
    BY <2>1 DEF IInv, Sound, Leads
  <2> QED
    BY <2>2, <2>3, <2>4, <2>5, <2>6 DEF Sound
<1>3. Knows(tx)'
  BY DEF Knows, Good, KnowsFor, IsTransaction, IdsTyped, IdsAreFresh, CollectionsStay, IndexesStay,
         KeptIsKnown, KeptAs, HasWriter, OnlyErases, RecordsStay, NoRecords, InsertsCounted, Has, At, Writes,
         NextColl, NextRecord, KeysOf, Keys, Exists
<1> QED
  BY <1>1, <1>2, <1>3 DEF IInv

\* Only what a transaction would write matters for what it would leave behind.
LEMMA SameSound ==
    ASSUME NEW t, NEW u, Sound(t), u.pending = t.pending
    PROVE  Sound(u)
<1>1. /\ \A k : Has(u, k) <=> Has(t, k)
      /\ \A k : At(u, k) = At(t, k)
  BY SameView
<1>2. Shaped(u)
  BY <1>1 DEF Sound, Shaped
<1>3. Typed(u)
  BY <1>1 DEF Sound, Typed
<1>4. Named(u) /\ Owned(u)
  BY <1>1 DEF Sound, Named, Owned
<1>5. Complete(u)
  BY <1>1 DEF Sound, Complete
<1>6. Leads(u)
  BY <1>1 DEF Sound, Leads
<1> QED
  BY <1>2, <1>3, <1>4, <1>5, <1>6 DEF Sound

\* What it knows depends on its writes, its ids and the collection it keeps.
LEMMA SameKnows ==
    ASSUME NEW t, NEW u, NEW command, KnowsFor(command, t), u.pending = t.pending, u.cw = t.cw,
           u.maxColl = t.maxColl, u.maxRecord = t.maxRecord, u.maxIndex = t.maxIndex
    PROVE  KnowsFor(command, u)
<1>1. /\ \A k : Has(u, k) <=> Has(t, k)
      /\ \A k : At(u, k) = At(t, k)
      /\ \A k : Writes(u, k) <=> Writes(t, k)
  BY SameView
<1>2. IdsAreFresh(t) => IdsAreFresh(u)
  BY <1>1, SameIds DEF IdsAreFresh
<1>3. /\ CollectionsStay(t) => CollectionsStay(u)
      /\ IndexesStay(t) => IndexesStay(u)
      /\ RecordsStay(t) => RecordsStay(u)
      /\ NoRecords(t) => NoRecords(u)
  BY <1>1 DEF CollectionsStay, IndexesStay, RecordsStay, NoRecords
<1>4. OnlyErases(t) => OnlyErases(u)
  BY DEF OnlyErases
<1>5. (HasWriter(t) <=> HasWriter(u)) /\ (KeptIsKnown(t) => KeptIsKnown(u))
  <2>1. \A n, c, X : KeptAs(t, n, c, X) => KeptAs(u, n, c, X)
    BY <1>1 DEF KeptAs
  <2>2. HasWriter(t) <=> HasWriter(u)
    BY DEF HasWriter
  <2> QED
    BY <2>1, <2>2 DEF KeptIsKnown
<1> QED
  BY <1>2, <1>3, <1>4, <1>5 DEF KnowsFor

\* Command and count of what goes on.
Marked(t, command, n) == [t EXCEPT !.command = command, !.count = n]

\* Command and count are all that changes.
LEMMA MarkedKeeps ==
    ASSUME NEW t, Good(t), NEW command, NEW n
    PROVE  /\ Good(Marked(t, command, n))
           /\ Marked(t, command, n).command = command
           /\ Marked(t, command, n).count = n
           /\ Marked(t, command, n).pending = t.pending
           /\ Marked(t, command, n).cw = t.cw
           /\ Marked(t, command, n).maxColl = t.maxColl
           /\ Marked(t, command, n).maxRecord = t.maxRecord
           /\ Marked(t, command, n).maxIndex = t.maxIndex
<1> DEFINE u == Marked(t, command, n)
<1>1. IsTransaction(t)
  BY DEF Good
<1>2. u = [command |-> command, count |-> n, pending |-> t.pending,
           maxColl |-> t.maxColl, maxRecord |-> t.maxRecord, maxIndex |-> t.maxIndex, cw |-> t.cw]
  <2> DEFINE v == [t EXCEPT !.command = command]
  <2>1. v = [command |-> command, count |-> t.count, pending |-> t.pending,
             maxColl |-> t.maxColl, maxRecord |-> t.maxRecord, maxIndex |-> t.maxIndex, cw |-> t.cw]
    BY <1>1 DEF IsTransaction
  <2>2. u = [v EXCEPT !.count = n]
    BY DEF Marked
  <2> HIDE DEF v, u
  <2> QED
    BY <2>1, <2>2
<1>3. /\ u.command = command /\ u.count = n /\ u.pending = t.pending /\ u.cw = t.cw
      /\ u.maxColl = t.maxColl /\ u.maxRecord = t.maxRecord /\ u.maxIndex = t.maxIndex
  BY <1>2
<1>4. IsTransaction(u)
  BY <1>2, <1>3 DEF IsTransaction
<1> HIDE DEF u
<1>5. IdsTyped(u)
  BY <1>3 DEF Good, IdsTyped
<1>6. u.cw.indexes \subseteq Index
  BY <1>3 DEF Good
<1>7. Good(u)
  BY <1>4, <1>5, <1>6 DEF Good
<1> QED
  BY <1>3, <1>7 DEF u

\* An operation of a command of several.
LEMMA BatchKeeps ==
    ASSUME IInv, NEW command \in Adding \cup Erasing, NEW u,
           Batch(command, u), Good(u), Sound(u), KnowsFor(command, u),
           command = "insert" => InsertsCounted(u, tx.count + 1)
    PROVE  IInv'
<1> DEFINE n == tx.count + 1
           w == Marked(u, command, n)
<1>1. tx' = w /\ UNCHANGED store /\ Does(command)
  BY DEF Batch, Marked
<1>8. n \in 0..MaxBatch
  BY <1>1, Ready
<1> HIDE DEF n
<1>3. /\ Good(w)
      /\ w.command = command /\ w.count = n /\ w.pending = u.pending /\ w.cw = u.cw
      /\ w.maxColl = u.maxColl /\ w.maxRecord = u.maxRecord /\ w.maxIndex = u.maxIndex
  BY MarkedKeeps
<1> HIDE DEF w
<1>6. Sound(w)
  BY <1>3, SameSound
<1>7. KnowsFor(command, w)
  BY <1>3, SameKnows
<1>9. command = "insert" => InsertsCounted(w, w.count)
  BY <1>3 DEF InsertsCounted, n
<1>10. Knows(w)
  BY <1>3, <1>7, <1>8, <1>9 DEF Knows, Adding, Erasing
<1> QED
  BY <1>1, <1>6, <1>10, Goes

\* There is room for an operation.
LEMMA OneFits == 1 \in 0..MaxBatch
BY BoundsAssumption

\* A command of one operation.
LEMMA SingleKeeps ==
    ASSUME IInv, NEW u, Single(u), Good(u), Sound(u), KnowsFor("single", u)
    PROVE  IInv'
<1> DEFINE single == "single"
           one == 1
           w == Marked(u, single, one)
<1>1. tx' = w /\ UNCHANGED store
  BY DEF Single, Marked
<1>2. one \in 0..MaxBatch
  BY OneFits
<1> HIDE DEF single, one
<1>3. /\ Good(w)
      /\ w.command = single /\ w.count = one /\ w.pending = u.pending /\ w.cw = u.cw
      /\ w.maxColl = u.maxColl /\ w.maxRecord = u.maxRecord /\ w.maxIndex = u.maxIndex
  BY MarkedKeeps
<1> HIDE DEF w
<1>6. Sound(w)
  BY <1>3, SameSound
<1>7. KnowsFor(single, w)
  BY <1>3, SameKnows DEF single
<1>9. Knows(w)
  BY <1>2, <1>3, <1>7 DEF Knows, single
<1> QED
  BY <1>1, <1>6, <1>9, Goes

-----------------------------------------------------------------------------
(* A new collection (base_create_collection).                              *)

PrimaryEntry == [name |-> PrimaryName, unique |-> TRUE]

IsNew(k, c, n, autoIndex) ==
    \/ k = NameKey(n) \/ k = PropertiesKey(c)
    \/ autoIndex /\ (k = IndexNameKey(c, PrimaryName) \/ k = IndexKey(c, PrimaryIndex))

\* u is what t would leave with a collection c, named n, that t has not.
Founds(t, u, c, n, autoIndex) ==
    /\ \A k : Has(u, k) <=> Has(t, k) \/ IsNew(k, c, n, autoIndex)
    /\ \A k : ~IsNew(k, c, n, autoIndex) => At(u, k) = At(t, k)
    /\ At(u, NameKey(n)) = c /\ At(u, PropertiesKey(c)) = n
    /\ autoIndex => /\ At(u, IndexNameKey(c, PrimaryName)) = PrimaryIndex
                    /\ At(u, IndexKey(c, PrimaryIndex)) = PrimaryEntry
    /\ \A k : Writes(u, k) <=> Writes(t, k) \/ IsNew(k, c, n, autoIndex)

\* What base_create_collection writes.
LEMMA NewCollectionView ==
    ASSUME NEW t, Good(t), NEW n, NEW autoIndex
    PROVE  /\ Founds(t, NewCollection(t, n, autoIndex), NextColl(t), n, autoIndex)
           /\ IsTransaction(NewCollection(t, n, autoIndex))
           /\ NewCollection(t, n, autoIndex).cw = t.cw
           /\ NewCollection(t, n, autoIndex).maxColl = NextColl(t)
           /\ NewCollection(t, n, autoIndex).maxRecord = t.maxRecord
           /\ NewCollection(t, n, autoIndex).maxIndex = t.maxIndex
<1> DEFINE c == NextColl(t)
           s == [t EXCEPT !.maxColl = c]
           g == [k \in {NameKey(n), PropertiesKey(c)} |-> IF k = NameKey(n) THEN c ELSE n]
           u == PutAll(s, g)
           v == Put(u, IndexNameKey(c, PrimaryName), PrimaryIndex)
           w == Put(v, IndexKey(c, PrimaryIndex), PrimaryEntry)
<1>1. NewCollection(t, n, autoIndex) = IF autoIndex THEN w ELSE u
  BY DEF NewCollection, PrimaryEntry
<1>2. /\ DOMAIN g = {NameKey(n), PropertiesKey(c)}
      /\ g[NameKey(n)] = c /\ g[PropertiesKey(c)] = n
  BY KeyParts
<1> HIDE DEF c, g
<1>3. s = [command |-> t.command, count |-> t.count, pending |-> t.pending,
           maxColl |-> c, maxRecord |-> t.maxRecord, maxIndex |-> t.maxIndex, cw |-> t.cw]
  <2>1. IsTransaction(t)
    BY DEF Good
  <2> QED
    BY <2>1 DEF IsTransaction
<1>4. /\ s.command = t.command /\ s.count = t.count /\ s.pending = t.pending /\ s.cw = t.cw
      /\ s.maxColl = c /\ s.maxRecord = t.maxRecord /\ s.maxIndex = t.maxIndex
  BY <1>3
<1>5. IsTransaction(s)
  BY <1>3, <1>4 DEF IsTransaction
<1> HIDE DEF s
<1>6. /\ \A k : Has(s, k) <=> Has(t, k)
      /\ \A k : At(s, k) = At(t, k)
      /\ \A k : Writes(s, k) <=> Writes(t, k)
  BY <1>4, SameView
<1>7. /\ Keeps(s, u)
      /\ \A k : Has(u, k) <=> Has(s, k) \/ k \in DOMAIN g
      /\ \A k : At(u, k) = IF k \in DOMAIN g THEN g[k] ELSE At(s, k)
      /\ \A k : Writes(u, k) <=> Writes(s, k) \/ k \in DOMAIN g
  BY <1>5, PutAllView
<1> HIDE DEF u
<1>8. /\ Keeps(u, v)
      /\ \A k : Has(v, k) <=> Has(u, k) \/ k = IndexNameKey(c, PrimaryName)
      /\ \A k : At(v, k) = IF k = IndexNameKey(c, PrimaryName) THEN PrimaryIndex ELSE At(u, k)
      /\ \A k : Writes(v, k) <=> Writes(u, k) \/ k = IndexNameKey(c, PrimaryName)
  <2>1. IsTransaction(u)
    BY <1>7 DEF Keeps
  <2> QED
    BY <2>1, PutView
<1> HIDE DEF v
<1>9. /\ Keeps(v, w)
      /\ \A k : Has(w, k) <=> Has(v, k) \/ k = IndexKey(c, PrimaryIndex)
      /\ \A k : At(w, k) = IF k = IndexKey(c, PrimaryIndex) THEN PrimaryEntry ELSE At(v, k)
      /\ \A k : Writes(w, k) <=> Writes(v, k) \/ k = IndexKey(c, PrimaryIndex)
  <2>1. IsTransaction(v)
    BY <1>8 DEF Keeps
  <2> QED
    BY <2>1, PutView
<1> HIDE DEF w
<1>10. Founds(t, u, c, n, FALSE)
  BY <1>2, <1>6, <1>7 DEF Founds, IsNew
<1>11. Founds(t, w, c, n, TRUE)
  <2>1. \A k : Has(w, k) <=> Has(t, k) \/ IsNew(k, c, n, TRUE)
    BY <1>2, <1>6, <1>7, <1>8, <1>9 DEF IsNew
  <2>2. \A k : ~IsNew(k, c, n, TRUE) => At(w, k) = At(t, k)
    BY <1>2, <1>6, <1>7, <1>8, <1>9 DEF IsNew
  <2>3. \A k : Writes(w, k) <=> Writes(t, k) \/ IsNew(k, c, n, TRUE)
    BY <1>2, <1>6, <1>7, <1>8, <1>9 DEF IsNew
  <2>4. /\ At(w, NameKey(n)) = c /\ At(w, PropertiesKey(c)) = n
        /\ At(w, IndexNameKey(c, PrimaryName)) = PrimaryIndex
        /\ At(w, IndexKey(c, PrimaryIndex)) = PrimaryEntry
    BY <1>2, <1>7, <1>8, <1>9, KeyParts
  <2> QED
    BY <2>1, <2>2, <2>3, <2>4 DEF Founds
<1>12. /\ u.cw = t.cw /\ u.maxColl = c /\ u.maxRecord = t.maxRecord /\ u.maxIndex = t.maxIndex
       /\ IsTransaction(u)
  BY <1>4, <1>7 DEF Keeps
<1>13. /\ w.cw = t.cw /\ w.maxColl = c /\ w.maxRecord = t.maxRecord /\ w.maxIndex = t.maxIndex
       /\ IsTransaction(w)
  BY <1>8, <1>9, <1>12 DEF Keeps
<1>14. CASE autoIndex
  <2>1. NewCollection(t, n, autoIndex) = w /\ (autoIndex <=> TRUE)
    BY <1>1, <1>14
  <2> QED
    BY <2>1, <1>11, <1>13, <1>14 DEF c, Founds, IsNew
<1>15. CASE ~autoIndex
  <2>1. NewCollection(t, n, autoIndex) = u /\ (autoIndex <=> FALSE)
    BY <1>1, <1>15
  <2> QED
    BY <2>1, <1>10, <1>12, <1>15 DEF c, Founds, IsNew
<1> QED
  BY <1>14, <1>15

\* A collection with an id that nothing has yet leaves all sound.
LEMMA NewCollectionSound ==
    ASSUME NEW t, Sound(t), NEW u, NEW c \in CollId, NEW n \in Name, NEW autoIndex,
           ~Has(t, PropertiesKey(c)), Founds(t, u, c, n, autoIndex)
    PROVE  Sound(u)
<1>1. /\ \A k : Has(u, k) <=> Has(t, k) \/ IsNew(k, c, n, autoIndex)
      /\ \A k : ~IsNew(k, c, n, autoIndex) => At(u, k) = At(t, k)
      /\ At(u, NameKey(n)) = c /\ At(u, PropertiesKey(c)) = n
      /\ autoIndex => /\ At(u, IndexNameKey(c, PrimaryName)) = PrimaryIndex
                      /\ At(u, IndexKey(c, PrimaryIndex)) = PrimaryEntry
  BY DEF Founds
<1>2. PrimaryIndex \in IndexId /\ PrimaryName \in AnyIndexName
  BY BoundsAssumption DEF IndexId, PrimaryIndex, AnyIndexName
<1>3. PrimaryEntry \in [name : AnyIndexName, unique : BOOLEAN] /\ PrimaryEntry.unique
  BY <1>2 DEF PrimaryEntry
<1>4. /\ \A m : IsNew(NameKey(m), c, n, autoIndex) <=> m = n
      /\ \A d : IsNew(PropertiesKey(d), c, n, autoIndex) <=> d = c
      /\ \A d, x : IsNew(IndexNameKey(d, x), c, n, autoIndex) <=> autoIndex /\ d = c /\ x = PrimaryName
      /\ \A d, i : IsNew(IndexKey(d, i), c, n, autoIndex) <=> autoIndex /\ d = c /\ i = PrimaryIndex
      /\ \A d, r : ~IsNew(RecordKey(d, r), c, n, autoIndex)
      /\ \A d, i, v, r, unique : ~IsNew(EntryKey(d, i, v, r, unique), c, n, autoIndex)
  BY KeyParts, EntryParts DEF IsNew
<1>5. Shaped(u)
  <2>1. \A k : Has(t, k) => IsKey(k)
    BY ShapedKeys DEF Sound
  <2>2. \A k : IsNew(k, c, n, autoIndex) => IsKey(k)
    BY <1>2 DEF IsNew, IsKey
  <2> QED
    BY <1>1, <2>1, <2>2, ShapedKeys
<1>6. Typed(u)
  BY <1>1, <1>2, <1>3, <1>4 DEF Sound, Typed
<1>7. Named(u)
  BY <1>1, <1>4 DEF Sound, Named
<1>8. Owned(u)
  BY <1>1, <1>4 DEF Sound, Owned
<1>9. ~\E r \in RecordId : Has(t, RecordKey(c, r))
  BY DEF Sound, Owned
<1>10. Complete(u)
  BY <1>1, <1>3, <1>4, <1>9 DEF Sound, Complete
<1>11. Leads(u)
  <2>1. \A d, r : /\ Has(u, RecordKey(d, r)) <=> Has(t, RecordKey(d, r))
                  /\ At(u, RecordKey(d, r)) = At(t, RecordKey(d, r))
    BY <1>1, <1>4
  <2>2. \A d, v : /\ Has(u, IdKey(d, v)) <=> Has(t, IdKey(d, v))
                  /\ At(u, IdKey(d, v)) = At(t, IdKey(d, v))
    BY <1>1, <1>4 DEF IdKey
  <2>3. Leads(t)
    BY DEF Sound
  <2> QED
    BY <2>1, <2>2, <2>3 DEF Leads
<1> QED
  BY <1>5, <1>6, <1>7, <1>8, <1>10, <1>11 DEF Sound

-----------------------------------------------------------------------------
(* A record and its entries (insert, update, delete).                      *)

EntryOf(c, i, doc, r, unique) ==
    EntryKey(c, i, IF i = PrimaryIndex THEN doc.id ELSE doc.value, r, unique)

\* Whether k is an entry that a document needs in an index of c.
Needs(t, c, r, doc, k) ==
    \E i \in IndexId :
        Has(t, IndexKey(c, i)) /\ k = EntryOf(c, i, doc, r, At(t, IndexKey(c, i)).unique)

\* An entry of the record r.
IsOf(c, r, k) ==
    \E i \in IndexId, v \in EntryValue, unique \in BOOLEAN : k = EntryKey(c, i, v, r, unique)

\* u is what t would leave with doc as the record r, without the entries in G.
Stores(t, u, c, r, doc, G) ==
    /\ \A k : Has(u, k) <=> \/ k = RecordKey(c, r) \/ Needs(t, c, r, doc, k)
                            \/ Has(t, k) /\ k \notin G
    /\ \A k : Needs(t, c, r, doc, k) => At(u, k) = r
    /\ At(u, RecordKey(c, r)) = doc
    /\ \A k : k # RecordKey(c, r) /\ ~Needs(t, c, r, doc, k) /\ k \notin G => At(u, k) = At(t, k)
    /\ \A k : Writes(u, k) <=> \/ Writes(t, k) \/ k = RecordKey(c, r)
                               \/ Needs(t, c, r, doc, k) \/ k \in G

\* Values of a document are values of entries.
LEMMA DocumentValues ==
    ASSUME NEW doc \in Document
    PROVE  /\ doc.id \in EntryValue /\ doc.value \in EntryValue
           /\ \A i : (IF i = PrimaryIndex THEN doc.id ELSE doc.value) \in EntryValue
BY DEF Document, EntryValue

\* Entries of another record that are not in a unique index are others.
LEMMA OthersEntries ==
    ASSUME NEW c, NEW r, NEW d, NEW s, ~(d = c /\ s = r)
    PROVE  \A i, v : ~IsOf(c, r, EntryKey(d, i, v, s, FALSE))
<1>1. \A i, v, j, w : EntryKey(d, i, v, s, FALSE) # EntryKey(c, j, w, r, FALSE)
  BY DEF EntryKey
<1>2. \A i, v, j, w : EntryKey(d, i, v, s, FALSE) # EntryKey(c, j, w, r, TRUE)
  BY DEF EntryKey
<1> QED
  BY <1>1, <1>2 DEF IsOf

\* What the record and its entries leave as it was.
LEMMA StoresElsewhere ==
    ASSUME NEW t, NEW u, NEW c, NEW r, NEW doc, NEW G,
           Stores(t, u, c, r, doc, G),
           \A k \in G : IsOf(c, r, k)
    PROVE  /\ \A k : TagOf(k) # "record" /\ TagOf(k) # "entry" =>
                  (Has(u, k) <=> Has(t, k)) /\ At(u, k) = At(t, k) /\ (Writes(u, k) <=> Writes(t, k))
           /\ \A k : TagOf(k) = "record" /\ k # RecordKey(c, r) =>
                  (Has(u, k) <=> Has(t, k)) /\ At(u, k) = At(t, k) /\ (Writes(u, k) <=> Writes(t, k))
           /\ Has(u, RecordKey(c, r)) /\ At(u, RecordKey(c, r)) = doc /\ Writes(u, RecordKey(c, r))
<1>1. \A k : Needs(t, c, r, doc, k) \/ k \in G => TagOf(k) = "entry"
  BY EntryParts DEF Needs, EntryOf, IsOf
<1> QED
  BY <1>1, KeyParts DEF Stores

\* A document stored under an id that no entry of another _id leads to.
LEMMA StoreSound ==
    ASSUME NEW t, Sound(t), NEW u, NEW c \in CollId, NEW r \in RecordId, NEW doc \in Document, NEW G,
           Has(t, PropertiesKey(c)),
           Stores(t, u, c, r, doc, G),
           \A k \in G : IsOf(c, r, k),
           \A v \in EntryValue : Has(t, IdKey(c, v)) /\ At(t, IdKey(c, v)) = r => v = doc.id
    PROVE  Sound(u)
<1>1. /\ \A n : (Has(u, NameKey(n)) <=> Has(t, NameKey(n))) /\ At(u, NameKey(n)) = At(t, NameKey(n))
      /\ \A d : /\ Has(u, PropertiesKey(d)) <=> Has(t, PropertiesKey(d))
                /\ At(u, PropertiesKey(d)) = At(t, PropertiesKey(d))
      /\ \A d, x : /\ Has(u, IndexNameKey(d, x)) <=> Has(t, IndexNameKey(d, x))
                   /\ At(u, IndexNameKey(d, x)) = At(t, IndexNameKey(d, x))
      /\ \A d, i : /\ Has(u, IndexKey(d, i)) <=> Has(t, IndexKey(d, i))
                   /\ At(u, IndexKey(d, i)) = At(t, IndexKey(d, i))
  BY StoresElsewhere, KeyParts
<1>2. /\ \A d, s : Has(u, RecordKey(d, s)) <=> Has(t, RecordKey(d, s)) \/ (d = c /\ s = r)
      /\ \A d, s : ~(d = c /\ s = r) => At(u, RecordKey(d, s)) = At(t, RecordKey(d, s))
      /\ At(u, RecordKey(c, r)) = doc
  BY StoresElsewhere, KeyParts
<1>3. \A k : Has(u, k) /\ TagOf(k) = "entry" =>
          \/ Needs(t, c, r, doc, k) /\ At(u, k) = r
          \/ Has(t, k) /\ At(u, k) = At(t, k)
  BY KeyParts DEF Stores
<1>4. ASSUME NEW i \in IndexId, Has(t, IndexKey(c, i))
      PROVE  At(t, IndexKey(c, i)).unique \in BOOLEAN /\ (i = PrimaryIndex => At(t, IndexKey(c, i)).unique)
  BY <1>4 DEF Sound, Typed
<1>5. ASSUME NEW d, NEW i, NEW v, NEW s, NEW unique \in BOOLEAN,
             Needs(t, c, r, doc, EntryKey(d, i, v, s, unique))
      PROVE  /\ d = c /\ Has(t, IndexKey(c, i))
             /\ v = IF i = PrimaryIndex THEN doc.id ELSE doc.value
             /\ i = PrimaryIndex => unique
  <2>1. PICK j \in IndexId : /\ Has(t, IndexKey(c, j))
                             /\ EntryKey(d, i, v, s, unique) = EntryOf(c, j, doc, r, At(t, IndexKey(c, j)).unique)
    BY <1>5 DEF Needs
  <2>2. d = c /\ i = j /\ v = IF i = PrimaryIndex THEN doc.id ELSE doc.value
    BY <2>1, EntryParts DEF EntryOf
  <2>3. i = PrimaryIndex => At(t, IndexKey(c, j)).unique = TRUE
    BY <1>4, <2>1, <2>2
  <2>4. i = PrimaryIndex => unique = TRUE
    BY <2>1, <2>2, <2>3, EntryParts DEF EntryOf
  <2> QED
    BY <2>1, <2>2, <2>4
<1>6. Shaped(u)
  <2>1. \A k : Needs(t, c, r, doc, k) => IsEntry(k)
    <3>1. ASSUME NEW k, NEW i \in IndexId, Has(t, IndexKey(c, i)),
                 k = EntryOf(c, i, doc, r, At(t, IndexKey(c, i)).unique)
          PROVE  IsEntry(k)
      BY <1>4, <3>1, DocumentValues DEF EntryOf, IsEntry
    <3> QED
      BY <3>1 DEF Needs
  <2>2. \A k : Has(t, k) => IsKey(k)
    BY ShapedKeys DEF Sound
  <2>3. \A k : Has(u, k) => IsKey(k)
    BY <2>1, <2>2 DEF IsKey, Stores
  <2> QED
    BY <2>3, ShapedKeys
<1>7. Typed(u)
  <2>1. ASSUME NEW d \in CollId, NEW i \in IndexId, NEW v \in EntryValue, NEW s \in RecordId,
               NEW unique \in BOOLEAN, Has(u, EntryKey(d, i, v, s, unique))
        PROVE  /\ At(u, EntryKey(d, i, v, s, unique)) \in RecordId
               /\ i = PrimaryIndex => unique
    <3>1. CASE /\ Needs(t, c, r, doc, EntryKey(d, i, v, s, unique))
               /\ At(u, EntryKey(d, i, v, s, unique)) = r
      BY <1>5, <3>1
    <3>2. CASE /\ Has(t, EntryKey(d, i, v, s, unique))
               /\ At(u, EntryKey(d, i, v, s, unique)) = At(t, EntryKey(d, i, v, s, unique))
      BY <3>2 DEF Sound, Typed
    <3> QED
      BY <1>3, <2>1, <3>1, <3>2, EntryParts
  <2>2. \A d \in CollId, s \in RecordId :
            Has(u, RecordKey(d, s)) => At(u, RecordKey(d, s)) \in Document
    BY <1>2 DEF Sound, Typed
  <2> QED
    BY <1>1, <2>1, <2>2 DEF Sound, Typed
<1>8. Named(u)
  BY <1>1 DEF Sound, Named
<1>9. Owned(u)
  <2>1. ASSUME NEW d \in CollId, NEW i \in IndexId, NEW v \in EntryValue, NEW s \in RecordId,
               NEW unique \in BOOLEAN, Has(u, EntryKey(d, i, v, s, unique))
        PROVE  Has(u, IndexKey(d, i))
    <3>1. CASE Needs(t, c, r, doc, EntryKey(d, i, v, s, unique))
      BY <1>1, <1>5, <3>1
    <3>2. CASE Has(t, EntryKey(d, i, v, s, unique))
      BY <1>1, <3>2 DEF Sound, Owned
    <3> QED
      BY <1>3, <2>1, <3>1, <3>2, EntryParts
  <2>2. \A d \in CollId, s \in RecordId : Has(u, RecordKey(d, s)) => Has(u, PropertiesKey(d))
    BY <1>1, <1>2 DEF Sound, Owned
  <2> QED
    BY <1>1, <2>1, <2>2 DEF Sound, Owned
<1>10. Complete(u)
  <2> SUFFICES ASSUME NEW d \in CollId, NEW i \in IndexId, NEW s \in RecordId,
                      Has(t, IndexKey(d, i)), ~At(t, IndexKey(d, i)).unique,
                      Has(u, RecordKey(d, s))
               PROVE  Has(u, EntryKey(d, i, At(u, RecordKey(d, s)).value, s, FALSE))
    BY <1>1 DEF Complete
  <2>1. CASE d = c /\ s = r
    <3>1. i # PrimaryIndex /\ At(t, IndexKey(c, i)).unique = FALSE
      BY <1>4, <2>1
    <3>2. Needs(t, c, r, doc, EntryKey(c, i, doc.value, r, FALSE))
      BY <2>1, <3>1 DEF Needs, EntryOf
    <3> QED
      BY <1>2, <2>1, <3>2 DEF Stores
  <2>2. CASE ~(d = c /\ s = r)
    <3>1. At(u, RecordKey(d, s)) = At(t, RecordKey(d, s)) /\ Has(t, RecordKey(d, s))
      BY <1>2, <2>2
    <3>2. Has(t, EntryKey(d, i, At(t, RecordKey(d, s)).value, s, FALSE))
      BY <3>1 DEF Sound, Complete
    <3>3. EntryKey(d, i, At(t, RecordKey(d, s)).value, s, FALSE) \notin G
      BY <2>2, OthersEntries
    <3> QED
      BY <3>1, <3>2, <3>3 DEF Stores
  <2> QED
    BY <2>1, <2>2
<1>11. Leads(u)
  <2> SUFFICES ASSUME NEW d \in CollId, NEW v \in EntryValue, Has(u, IdKey(d, v))
               PROVE  /\ Has(u, RecordKey(d, At(u, IdKey(d, v))))
                      /\ At(u, RecordKey(d, At(u, IdKey(d, v)))).id = v
    BY DEF Leads
  <2>1. CASE Needs(t, c, r, doc, IdKey(d, v)) /\ At(u, IdKey(d, v)) = r
    <3>1. d = c /\ v = doc.id
      BY <1>5, <2>1 DEF IdKey
    <3> QED
      BY <1>2, <2>1, <3>1
  <2>2. CASE Has(t, IdKey(d, v)) /\ At(u, IdKey(d, v)) = At(t, IdKey(d, v))
    <3>1. /\ Has(t, RecordKey(d, At(t, IdKey(d, v))))
          /\ At(t, RecordKey(d, At(t, IdKey(d, v)))).id = v
      BY <2>2 DEF Sound, Leads
    <3>2. CASE d = c /\ At(t, IdKey(d, v)) = r
      <4>1. v = doc.id
        BY <2>2, <3>2
      <4> QED
        BY <1>2, <2>2, <3>2, <4>1
    <3>3. CASE ~(d = c /\ At(t, IdKey(d, v)) = r)
      BY <1>2, <2>2, <3>1, <3>3
    <3> QED
      BY <3>2, <3>3
  <2>3. TagOf(IdKey(d, v)) = "entry"
    BY EntryParts DEF IdKey
  <2> QED
    BY <1>3, <2>1, <2>2, <2>3
<1> QED
  BY <1>6, <1>7, <1>8, <1>9, <1>10, <1>11 DEF Sound

-----------------------------------------------------------------------------
(* What is taken away, and indexes and names.                              *)

\* u is a part of what t would leave.
PartOfWhat(t, u) == \A k : Has(u, k) => Has(t, k) /\ At(u, k) = At(t, k)

\* A part of what is well-typed is well-typed.
LEMMA PartTyped ==
    ASSUME NEW t, Sound(t), NEW u, PartOfWhat(t, u)
    PROVE  Shaped(u) /\ Typed(u)
<1>1. Shaped(u)
  <2>1. \A k : Has(t, k) => IsKey(k)
    BY ShapedKeys DEF Sound
  <2> QED
    BY <2>1, ShapedKeys DEF PartOfWhat
<1>2. Typed(u)
  BY DEF Sound, Typed, PartOfWhat
<1> QED
  BY <1>1, <1>2

\* Nothing is missing where an entry only goes with its index or its record.
LEMMA PartComplete ==
    ASSUME NEW t, Sound(t), NEW u, PartOfWhat(t, u),
           \A d, i, v, s :
               /\ Has(u, IndexKey(d, i)) /\ Has(u, RecordKey(d, s)) /\ Has(t, EntryKey(d, i, v, s, FALSE))
               => Has(u, EntryKey(d, i, v, s, FALSE))
    PROVE  Complete(u)
<1> SUFFICES ASSUME NEW d \in CollId, NEW i \in IndexId, NEW s \in RecordId,
                    Has(u, IndexKey(d, i)), ~At(u, IndexKey(d, i)).unique,
                    Has(u, RecordKey(d, s))
             PROVE  Has(u, EntryKey(d, i, At(u, RecordKey(d, s)).value, s, FALSE))
  BY DEF Complete
<1>1. At(u, RecordKey(d, s)) = At(t, RecordKey(d, s)) /\ Has(t, RecordKey(d, s))
  BY DEF PartOfWhat
<1>2. Has(t, IndexKey(d, i)) /\ ~At(t, IndexKey(d, i)).unique
  BY DEF PartOfWhat
<1>3. Has(t, EntryKey(d, i, At(t, RecordKey(d, s)).value, s, FALSE))
  BY <1>1, <1>2 DEF Sound, Complete
<1> QED
  BY <1>1, <1>3

\* A record is deleted with its entries (StorageWriter::delete).
LEMMA RemoveSound ==
    ASSUME NEW t, Sound(t), NEW u, NEW c \in CollId, NEW r \in RecordId, NEW G,
           PartOfWhat(t, u),
           \A k : Has(u, k) <=> Has(t, k) /\ k # RecordKey(c, r) /\ k \notin G,
           \A k \in G : IsOf(c, r, k),
           \A v \in EntryValue : Has(t, IdKey(c, v)) /\ At(t, IdKey(c, v)) = r => IdKey(c, v) \in G
    PROVE  Sound(u)
<1>1. \A k \in G : TagOf(k) = "entry"
  BY EntryParts DEF IsOf
<1>2. \A k : TagOf(k) # "record" /\ TagOf(k) # "entry" =>
          (Has(u, k) <=> Has(t, k)) /\ (Has(u, k) => At(u, k) = At(t, k))
  BY <1>1, KeyParts DEF PartOfWhat
<1>3. /\ \A n : Has(u, NameKey(n)) <=> Has(t, NameKey(n))
      /\ \A d : Has(u, PropertiesKey(d)) <=> Has(t, PropertiesKey(d))
      /\ \A d, x : Has(u, IndexNameKey(d, x)) <=> Has(t, IndexNameKey(d, x))
      /\ \A d, i : Has(u, IndexKey(d, i)) <=> Has(t, IndexKey(d, i))
  BY <1>2, KeyParts
<1>4. \A d, s : Has(u, RecordKey(d, s)) <=> Has(t, RecordKey(d, s)) /\ ~(d = c /\ s = r)
  BY <1>1, KeyParts
<1>5. Named(u)
  BY <1>3 DEF Sound, Named, PartOfWhat
<1>6. Owned(u)
  BY <1>3, <1>4 DEF Sound, Owned, PartOfWhat
<1>7. Complete(u)
  <2> SUFFICES ASSUME NEW d \in CollId, NEW i \in IndexId, NEW s \in RecordId,
                      Has(u, IndexKey(d, i)), ~At(u, IndexKey(d, i)).unique,
                      Has(u, RecordKey(d, s))
               PROVE  Has(u, EntryKey(d, i, At(u, RecordKey(d, s)).value, s, FALSE))
    BY DEF Complete
  <2>1. At(u, RecordKey(d, s)) = At(t, RecordKey(d, s)) /\ Has(t, RecordKey(d, s))
    BY DEF PartOfWhat
  <2>2. Has(t, IndexKey(d, i)) /\ ~At(t, IndexKey(d, i)).unique
    BY DEF PartOfWhat
  <2>3. Has(t, EntryKey(d, i, At(t, RecordKey(d, s)).value, s, FALSE))
    BY <2>1, <2>2 DEF Sound, Complete
  <2>4. ~(d = c /\ s = r)
    BY <1>4
  <2>5. EntryKey(d, i, At(t, RecordKey(d, s)).value, s, FALSE) \notin G
    BY <2>4, OthersEntries
  <2>6. EntryKey(d, i, At(t, RecordKey(d, s)).value, s, FALSE) # RecordKey(c, r)
    BY KeyParts, EntryParts
  <2> QED
    BY <2>1, <2>3, <2>5, <2>6
<1>8. Leads(u)
  <2> SUFFICES ASSUME NEW d \in CollId, NEW v \in EntryValue, Has(u, IdKey(d, v))
               PROVE  /\ Has(u, RecordKey(d, At(u, IdKey(d, v))))
                      /\ At(u, RecordKey(d, At(u, IdKey(d, v)))).id = v
    BY DEF Leads
  <2>1. /\ Has(t, IdKey(d, v)) /\ At(u, IdKey(d, v)) = At(t, IdKey(d, v))
        /\ IdKey(d, v) \notin G
    BY DEF PartOfWhat
  <2>2. /\ Has(t, RecordKey(d, At(t, IdKey(d, v))))
        /\ At(t, RecordKey(d, At(t, IdKey(d, v)))).id = v
    BY <2>1 DEF Sound, Leads
  <2>3. ~(d = c /\ At(t, IdKey(d, v)) = r)
    BY <2>1
  <2>4. Has(u, RecordKey(d, At(t, IdKey(d, v))))
    BY <1>4, <2>2, <2>3
  <2> QED
    BY <2>1, <2>2, <2>4 DEF PartOfWhat
<1> QED
  BY <1>5, <1>6, <1>7, <1>8, PartTyped DEF Sound

\* Whole collections go, and every name that led to one of them
\* (base_drop_collection, drop_database).
Drops(t, u, M, C) ==
    /\ PartOfWhat(t, u)
    /\ \A k : Has(u, k) <=> /\ Has(t, k)
                            /\ ~(TagOf(k) = "name" /\ CollOf(k) \in M)
                            /\ ~(TagOf(k) # "name" /\ CollOf(k) \in C)

\* What is left of the others is sound.
LEMMA DropsSound ==
    ASSUME NEW t, Sound(t), NEW u, NEW M, NEW C, Drops(t, u, M, C),
           \A m \in Name : Has(t, NameKey(m)) /\ At(t, NameKey(m)) \in C => m \in M
    PROVE  Sound(u)
<1>1. /\ \A n : Has(u, NameKey(n)) <=> Has(t, NameKey(n)) /\ n \notin M
      /\ \A d : Has(u, PropertiesKey(d)) <=> Has(t, PropertiesKey(d)) /\ d \notin C
      /\ \A d, x : Has(u, IndexNameKey(d, x)) <=> Has(t, IndexNameKey(d, x)) /\ d \notin C
      /\ \A d, i : Has(u, IndexKey(d, i)) <=> Has(t, IndexKey(d, i)) /\ d \notin C
      /\ \A d, r : Has(u, RecordKey(d, r)) <=> Has(t, RecordKey(d, r)) /\ d \notin C
  BY KeyParts DEF Drops
<1>2. \A d, i, v, r, unique :
          Has(u, EntryKey(d, i, v, r, unique)) <=> Has(t, EntryKey(d, i, v, r, unique)) /\ d \notin C
  BY EntryParts DEF Drops
<1>3. \A k : Has(u, k) => Has(t, k) /\ At(u, k) = At(t, k)
  BY DEF Drops, PartOfWhat
<1>4. Named(u)
  BY <1>1, <1>3 DEF Sound, Named
<1>5. Owned(u)
  BY <1>1, <1>2 DEF Sound, Owned
<1>6. Complete(u)
  <2>1. PartOfWhat(t, u)
    BY DEF Drops
  <2>2. \A d, i, v, s :
            /\ Has(u, IndexKey(d, i)) /\ Has(u, RecordKey(d, s)) /\ Has(t, EntryKey(d, i, v, s, FALSE))
            => Has(u, EntryKey(d, i, v, s, FALSE))
    BY <1>1, <1>2
  <2> QED
    BY <2>1, <2>2, PartComplete
<1>7. Leads(u)
  <2>1. \A d, v : Has(u, IdKey(d, v)) => Has(t, IdKey(d, v)) /\ At(u, IdKey(d, v)) = At(t, IdKey(d, v)) /\ d \notin C
    BY <1>2, <1>3 DEF IdKey
  <2>2. Leads(t)
    BY DEF Sound
  <2> QED
    BY <1>1, <1>3, <2>1, <2>2 DEF Leads
<1> QED
  BY <1>4, <1>5, <1>6, <1>7, PartTyped DEF Sound, Drops

\* A collection loses all records and entries (base_clear_collection).
LEMMA ClearSound ==
    ASSUME NEW t, Sound(t), NEW u, NEW c \in CollId, PartOfWhat(t, u),
           \A k : Has(u, k) <=>
               Has(t, k) /\ ~((TagOf(k) = "record" \/ TagOf(k) = "entry") /\ CollOf(k) = c)
    PROVE  Sound(u)
<1>1. /\ \A n : Has(u, NameKey(n)) <=> Has(t, NameKey(n))
      /\ \A d : Has(u, PropertiesKey(d)) <=> Has(t, PropertiesKey(d))
      /\ \A d, x : Has(u, IndexNameKey(d, x)) <=> Has(t, IndexNameKey(d, x))
      /\ \A d, i : Has(u, IndexKey(d, i)) <=> Has(t, IndexKey(d, i))
      /\ \A d, r : Has(u, RecordKey(d, r)) <=> Has(t, RecordKey(d, r)) /\ d # c
  BY KeyParts
<1>2. \A d, i, v, r, unique :
          Has(u, EntryKey(d, i, v, r, unique)) <=> Has(t, EntryKey(d, i, v, r, unique)) /\ d # c
  BY EntryParts
<1>3. \A k : Has(u, k) => Has(t, k) /\ At(u, k) = At(t, k)
  BY DEF PartOfWhat
<1>4. Named(u)
  BY <1>1, <1>3 DEF Sound, Named
<1>5. Owned(u)
  BY <1>1, <1>2 DEF Sound, Owned
<1>6. Complete(u)
  <2>1. \A d, i, v, s :
            /\ Has(u, IndexKey(d, i)) /\ Has(u, RecordKey(d, s)) /\ Has(t, EntryKey(d, i, v, s, FALSE))
            => Has(u, EntryKey(d, i, v, s, FALSE))
    BY <1>1, <1>2
  <2> QED
    BY <2>1, PartComplete
<1>7. Leads(u)
  <2>1. \A d, v : Has(u, IdKey(d, v)) => Has(t, IdKey(d, v)) /\ At(u, IdKey(d, v)) = At(t, IdKey(d, v)) /\ d # c
    BY <1>2, <1>3 DEF IdKey
  <2>2. Leads(t)
    BY DEF Sound
  <2> QED
    BY <1>1, <1>3, <2>1, <2>2 DEF Leads
<1> QED
  BY <1>4, <1>5, <1>6, <1>7, PartTyped DEF Sound

\* An index goes with its entries (drop_index).
LEMMA DropIndexSound ==
    ASSUME NEW t, Sound(t), NEW u, NEW c \in CollId, NEW i, NEW x, PartOfWhat(t, u),
           \A k : Has(u, k) <=>
               /\ Has(t, k) /\ k # IndexNameKey(c, x)
               /\ ~((TagOf(k) = "index" \/ TagOf(k) = "entry") /\ CollOf(k) = c /\ PartOf(k) = i)
    PROVE  Sound(u)
<1>1. /\ \A n : Has(u, NameKey(n)) <=> Has(t, NameKey(n))
      /\ \A d : Has(u, PropertiesKey(d)) <=> Has(t, PropertiesKey(d))
      /\ \A d, y : Has(u, IndexNameKey(d, y)) => Has(t, IndexNameKey(d, y))
      /\ \A d, j : Has(u, IndexKey(d, j)) <=> Has(t, IndexKey(d, j)) /\ ~(d = c /\ j = i)
      /\ \A d, r : Has(u, RecordKey(d, r)) <=> Has(t, RecordKey(d, r))
  BY KeyParts
<1>2. \A d, j, v, r, unique :
          Has(u, EntryKey(d, j, v, r, unique)) <=>
              Has(t, EntryKey(d, j, v, r, unique)) /\ ~(d = c /\ j = i)
  BY KeyParts, EntryParts
<1>3. \A k : Has(u, k) => Has(t, k) /\ At(u, k) = At(t, k)
  BY DEF PartOfWhat
<1>4. Named(u)
  BY <1>1, <1>3 DEF Sound, Named
<1>5. Owned(u)
  BY <1>1, <1>2 DEF Sound, Owned
<1>6. Complete(u)
  <2>1. \A d, j, v, s :
            /\ Has(u, IndexKey(d, j)) /\ Has(u, RecordKey(d, s)) /\ Has(t, EntryKey(d, j, v, s, FALSE))
            => Has(u, EntryKey(d, j, v, s, FALSE))
    BY <1>1, <1>2
  <2> QED
    BY <2>1, PartComplete
<1>7. Leads(u)
  <2>1. \A d, v : Has(u, IdKey(d, v)) => Has(t, IdKey(d, v)) /\ At(u, IdKey(d, v)) = At(t, IdKey(d, v))
    BY <1>3
  <2>2. Leads(t)
    BY DEF Sound
  <2> QED
    BY <1>1, <1>3, <2>1, <2>2 DEF Leads
<1> QED
  BY <1>4, <1>5, <1>6, <1>7, PartTyped DEF Sound

\* A collection that no other name leads to gets another name
\* (base_rename_collection).
Renames(t, u, c, old, new) ==
    /\ \A k : Has(u, k) <=> \/ Has(t, k) /\ k # NameKey(old)
                            \/ k = NameKey(new) \/ k = PropertiesKey(c)
    /\ At(u, NameKey(new)) = c /\ At(u, PropertiesKey(c)) = new
    /\ \A k : k \notin {NameKey(old), NameKey(new), PropertiesKey(c)} => At(u, k) = At(t, k)

\* All else stays as it is, and the name leads to it.
LEMMA RenameSound ==
    ASSUME NEW t, Sound(t), NEW u, NEW c \in CollId, NEW old \in Name, NEW new \in Name,
           Renames(t, u, c, old, new),
           \A m \in Name \ {old, new} : Has(t, NameKey(m)) => At(t, NameKey(m)) # c
    PROVE  Sound(u)
<1>1. \A k : TagOf(k) # "name" /\ TagOf(k) # "properties" =>
          (Has(u, k) <=> Has(t, k)) /\ At(u, k) = At(t, k)
  BY KeyParts DEF Renames
<1>2. /\ \A d, x : /\ Has(u, IndexNameKey(d, x)) <=> Has(t, IndexNameKey(d, x))
                   /\ At(u, IndexNameKey(d, x)) = At(t, IndexNameKey(d, x))
      /\ \A d, i : /\ Has(u, IndexKey(d, i)) <=> Has(t, IndexKey(d, i))
                   /\ At(u, IndexKey(d, i)) = At(t, IndexKey(d, i))
      /\ \A d, r : /\ Has(u, RecordKey(d, r)) <=> Has(t, RecordKey(d, r))
                   /\ At(u, RecordKey(d, r)) = At(t, RecordKey(d, r))
  BY <1>1, KeyParts
<1>3. \A d, i, v, r, unique :
          /\ Has(u, EntryKey(d, i, v, r, unique)) <=> Has(t, EntryKey(d, i, v, r, unique))
          /\ At(u, EntryKey(d, i, v, r, unique)) = At(t, EntryKey(d, i, v, r, unique))
  BY <1>1, EntryParts
<1>4. /\ \A m : Has(u, NameKey(m)) <=> m = new \/ (Has(t, NameKey(m)) /\ m # old)
      /\ \A m : m # new /\ m # old => At(u, NameKey(m)) = At(t, NameKey(m))
      /\ \A d : Has(u, PropertiesKey(d)) <=> Has(t, PropertiesKey(d)) \/ d = c
      /\ \A d : d # c => At(u, PropertiesKey(d)) = At(t, PropertiesKey(d))
      /\ At(u, NameKey(new)) = c /\ At(u, PropertiesKey(c)) = new
  BY KeyParts DEF Renames
<1>5. Shaped(u)
  <2>1. \A k : Has(t, k) => IsKey(k)
    BY ShapedKeys DEF Sound
  <2>2. IsKey(NameKey(new)) /\ IsKey(PropertiesKey(c))
    BY DEF IsKey
  <2> QED
    BY <2>1, <2>2, ShapedKeys DEF Renames
<1>6. Typed(u)
  BY <1>2, <1>3, <1>4 DEF Sound, Typed
<1>7. Named(u)
  BY <1>4 DEF Sound, Named
<1>8. Owned(u)
  BY <1>2, <1>3, <1>4 DEF Sound, Owned
<1>9. Complete(u)
  BY <1>2, <1>3 DEF Sound, Complete
<1>10. Leads(u)
  <2>1. \A d, v : /\ Has(u, IdKey(d, v)) <=> Has(t, IdKey(d, v))
                  /\ At(u, IdKey(d, v)) = At(t, IdKey(d, v))
    BY <1>3 DEF IdKey
  <2>2. Leads(t)
    BY DEF Sound
  <2> QED
    BY <1>2, <2>1, <2>2 DEF Leads
<1> QED
  BY <1>5, <1>6, <1>7, <1>8, <1>9, <1>10 DEF Sound

\* A new index with an entry for every record (create_index).
Indexes(t, u, c, x, i, unique, E) ==
    /\ \A k : Has(u, k) <=> Has(t, k) \/ k = IndexNameKey(c, x) \/ k = IndexKey(c, i) \/ k \in E
    /\ At(u, IndexNameKey(c, x)) = i
    /\ At(u, IndexKey(c, i)) = [name |-> x, unique |-> unique]
    /\ \A k \in E : At(u, k) \in RecordId
    /\ \A k : k # IndexNameKey(c, x) /\ k # IndexKey(c, i) /\ k \notin E => At(u, k) = At(t, k)

\* The new index is complete, and the others are as they were.
LEMMA IndexSound ==
    ASSUME NEW t, Sound(t), NEW u, NEW c \in CollId, NEW x \in AnyIndexName,
           NEW i \in IndexId, i # PrimaryIndex, NEW unique \in BOOLEAN, NEW E,
           Has(t, PropertiesKey(c)),
           Indexes(t, u, c, x, i, unique, E),
           \A k \in E : \E v \in EntryValue, r \in RecordId : k = EntryKey(c, i, v, r, unique),
           \A r \in RecordId : Has(t, RecordKey(c, r)) =>
               EntryKey(c, i, At(t, RecordKey(c, r)).value, r, unique) \in E
    PROVE  Sound(u)
<1>1. \A k \in E : TagOf(k) = "entry" /\ CollOf(k) = c /\ PartOf(k) = i
  BY EntryParts
<1>2. /\ \A n : (Has(u, NameKey(n)) <=> Has(t, NameKey(n))) /\ At(u, NameKey(n)) = At(t, NameKey(n))
      /\ \A d : /\ Has(u, PropertiesKey(d)) <=> Has(t, PropertiesKey(d))
                /\ At(u, PropertiesKey(d)) = At(t, PropertiesKey(d))
      /\ \A d, r : /\ Has(u, RecordKey(d, r)) <=> Has(t, RecordKey(d, r))
                   /\ At(u, RecordKey(d, r)) = At(t, RecordKey(d, r))
  BY <1>1, KeyParts DEF Indexes
<1>3. /\ \A d, y : Has(u, IndexNameKey(d, y)) <=> Has(t, IndexNameKey(d, y)) \/ (d = c /\ y = x)
      /\ \A d, y : ~(d = c /\ y = x) => At(u, IndexNameKey(d, y)) = At(t, IndexNameKey(d, y))
      /\ \A d, j : Has(u, IndexKey(d, j)) <=> Has(t, IndexKey(d, j)) \/ (d = c /\ j = i)
      /\ \A d, j : ~(d = c /\ j = i) => At(u, IndexKey(d, j)) = At(t, IndexKey(d, j))
      /\ At(u, IndexNameKey(c, x)) = i
      /\ At(u, IndexKey(c, i)) = [name |-> x, unique |-> unique]
  BY <1>1, KeyParts DEF Indexes
<1>4. \A k : TagOf(k) = "entry" =>
          /\ Has(u, k) <=> Has(t, k) \/ k \in E
          /\ k \notin E => At(u, k) = At(t, k)
  BY KeyParts DEF Indexes
<1>5. Shaped(u)
  <2>1. \A k : Has(t, k) => IsKey(k)
    BY ShapedKeys DEF Sound
  <2>2. IsKey(IndexNameKey(c, x)) /\ IsKey(IndexKey(c, i))
    BY DEF IsKey
  <2>3. \A k \in E : IsKey(k)
    BY DEF IsKey, IsEntry
  <2> QED
    BY <2>1, <2>2, <2>3, ShapedKeys DEF Indexes
<1>6. Typed(u)
  <2>1. ASSUME NEW d \in CollId, NEW j \in IndexId, NEW v \in EntryValue, NEW s \in RecordId,
               NEW un \in BOOLEAN, Has(u, EntryKey(d, j, v, s, un))
        PROVE  /\ At(u, EntryKey(d, j, v, s, un)) \in RecordId
               /\ j = PrimaryIndex => un
    <3>1. CASE EntryKey(d, j, v, s, un) \in E
      <4>1. j = i
        BY <1>1, <3>1, EntryParts
      <4> QED
        BY <3>1, <4>1 DEF Indexes
    <3>2. CASE EntryKey(d, j, v, s, un) \notin E
      <4>1. Has(t, EntryKey(d, j, v, s, un)) /\ At(u, EntryKey(d, j, v, s, un)) = At(t, EntryKey(d, j, v, s, un))
        BY <1>4, <2>1, <3>2, EntryParts
      <4> QED
        BY <4>1 DEF Sound, Typed
    <3> QED
      BY <3>1, <3>2
  <2>2. \A d \in CollId, j \in IndexId : Has(u, IndexKey(d, j)) =>
            /\ At(u, IndexKey(d, j)) \in [name : AnyIndexName, unique : BOOLEAN]
            /\ j = PrimaryIndex => At(u, IndexKey(d, j)).unique
    BY <1>3 DEF Sound, Typed
  <2>3. \A d \in CollId, y \in AnyIndexName : Has(u, IndexNameKey(d, y)) => At(u, IndexNameKey(d, y)) \in IndexId
    BY <1>3 DEF Sound, Typed
  <2> QED
    BY <1>2, <2>1, <2>2, <2>3 DEF Sound, Typed
<1>7. Named(u)
  BY <1>2 DEF Sound, Named
<1>8. Owned(u)
  <2>1. ASSUME NEW d \in CollId, NEW j \in IndexId, NEW v \in EntryValue, NEW s \in RecordId,
               NEW un \in BOOLEAN, Has(u, EntryKey(d, j, v, s, un))
        PROVE  Has(u, IndexKey(d, j))
    <3>1. CASE EntryKey(d, j, v, s, un) \in E
      BY <1>1, <1>3, <3>1, EntryParts
    <3>2. CASE Has(t, EntryKey(d, j, v, s, un))
      BY <1>3, <3>2 DEF Sound, Owned
    <3> QED
      BY <1>4, <2>1, <3>1, <3>2, EntryParts
  <2> QED
    BY <1>2, <1>3, <2>1 DEF Sound, Owned
<1>9. Complete(u)
  <2> SUFFICES ASSUME NEW d \in CollId, NEW j \in IndexId, NEW s \in RecordId,
                      Has(u, IndexKey(d, j)), ~At(u, IndexKey(d, j)).unique,
                      Has(t, RecordKey(d, s))
               PROVE  Has(u, EntryKey(d, j, At(t, RecordKey(d, s)).value, s, FALSE))
    BY <1>2 DEF Complete
  <2>1. CASE d = c /\ j = i
    <3>1. unique = FALSE
      BY <1>3, <2>1
    <3> QED
      BY <2>1, <3>1 DEF Indexes
  <2>2. CASE ~(d = c /\ j = i)
    <3>1. Has(t, IndexKey(d, j)) /\ At(u, IndexKey(d, j)) = At(t, IndexKey(d, j))
      BY <1>3, <2>2
    <3>2. ~At(t, IndexKey(d, j)).unique
      BY <3>1
    <3>3. Has(t, EntryKey(d, j, At(t, RecordKey(d, s)).value, s, FALSE))
      BY <3>1, <3>2 DEF Sound, Complete
    <3> QED
      BY <3>3 DEF Indexes
  <2> QED
    BY <2>1, <2>2
<1>10. Leads(u)
  <2>1. \A d, v : /\ Has(u, IdKey(d, v)) <=> Has(t, IdKey(d, v))
                  /\ At(u, IdKey(d, v)) = At(t, IdKey(d, v))
    <3>0. \A d, v : PartOf(IdKey(d, v)) = PrimaryIndex /\ TagOf(IdKey(d, v)) = "entry"
      BY IdKeyParts
    <3>1. \A d, v : IdKey(d, v) \notin E /\ TagOf(IdKey(d, v)) = "entry"
      BY <1>1, <3>0
    <3> QED
      BY <1>4, <3>1
  <2>2. Leads(t)
    BY DEF Sound
  <2> QED
    BY <1>2, <2>1, <2>2 DEF Leads
<1> QED
  BY <1>5, <1>6, <1>7, <1>8, <1>9, <1>10 DEF Sound

-----------------------------------------------------------------------------
(* The collection that is written to (get_collection_writer).              *)

\* The transaction t with w as the collection that it keeps.
Keeping(t, w) == [t EXCEPT !.cw = w]

\* Nothing but the collection that is kept changes.
LEMMA KeepingView ==
    ASSUME NEW t, IsTransaction(t), NEW w
    PROVE  /\ IsTransaction(Keeping(t, w))
           /\ Keeping(t, w).cw = w /\ Keeping(t, w).pending = t.pending
           /\ Keeping(t, w).maxColl = t.maxColl /\ Keeping(t, w).maxRecord = t.maxRecord
           /\ Keeping(t, w).maxIndex = t.maxIndex
<1> DEFINE u == Keeping(t, w)
<1>1. u = [command |-> t.command, count |-> t.count, pending |-> t.pending, maxColl |-> t.maxColl,
           maxRecord |-> t.maxRecord, maxIndex |-> t.maxIndex, cw |-> w]
  BY DEF Keeping, IsTransaction
<1>2. /\ u.command = t.command /\ u.count = t.count /\ u.cw = w /\ u.pending = t.pending
      /\ u.maxColl = t.maxColl /\ u.maxRecord = t.maxRecord /\ u.maxIndex = t.maxIndex
  BY <1>1
<1>3. IsTransaction(u)
  BY <1>1, <1>2 DEF IsTransaction
<1> QED
  BY <1>2, <1>3

\* The entries that the kept collection's indexes make are those that are needed.
LEMMA EntriesNeeded ==
    ASSUME NEW t, KeptIsKnown(t), HasWriter(t), NEW r, NEW doc
    PROVE  \A k : k \in Entries(t.cw, r, doc) <=> Needs(t, t.cw.coll, r, doc, k)
<1> DEFINE c == t.cw.coll
           X == t.cw.indexes
<1>1. /\ \A x \in X : /\ x \in Index /\ Has(t, IndexKey(c, x.index))
                      /\ At(t, IndexKey(c, x.index)).unique = x.unique
      /\ \A i \in IndexId : Has(t, IndexKey(c, i)) =>
             [index |-> i, unique |-> At(t, IndexKey(c, i)).unique] \in X
  BY DEF KeptIsKnown, KeptAs
<1>2. Entries(t.cw, r, doc) = {EntryOf(c, x.index, doc, r, x.unique) : x \in X}
  BY DEF Entries, EntryOf
<1> HIDE DEF c, X
<1>3. ASSUME NEW x \in X
      PROVE  Needs(t, c, r, doc, EntryOf(c, x.index, doc, r, x.unique))
  <2>1. x.index \in IndexId
    BY <1>1 DEF Index, IndexId
  <2> QED
    BY <1>1, <2>1 DEF Needs
<1>4. ASSUME NEW i \in IndexId, Has(t, IndexKey(c, i))
      PROVE  \E x \in X : x.index = i /\ x.unique = At(t, IndexKey(c, i)).unique
  <2>1. [index |-> i, unique |-> At(t, IndexKey(c, i)).unique] \in X
    BY <1>1, <1>4
  <2> QED
    BY <2>1
<1>5. ASSUME NEW k, Needs(t, c, r, doc, k)
      PROVE  k \in {EntryOf(c, x.index, doc, r, x.unique) : x \in X}
  <2>1. PICK i \in IndexId : /\ Has(t, IndexKey(c, i))
                             /\ k = EntryOf(c, i, doc, r, At(t, IndexKey(c, i)).unique)
    BY <1>5 DEF Needs
  <2> QED
    BY <1>4, <2>1
<1> QED
  BY <1>2, <1>3, <1>5 DEF c

\* The indexes of a collection that is there.
LEMMA IndexesOfKnown ==
    ASSUME Sound(NoTransaction), NEW c
    PROVE  /\ \A x \in IndexesOf(c) : /\ x \in Index
                                      /\ IndexKey(c, x.index) \in DOMAIN store
                                      /\ store[IndexKey(c, x.index)].unique = x.unique
           /\ \A i : IndexKey(c, i) \in DOMAIN store =>
                  [index |-> i, unique |-> store[IndexKey(c, i)].unique] \in IndexesOf(c)
<1>1. \A k \in DOMAIN store : IsKey(k)
  BY ShapedKeys, NoView DEF Sound
<1>2. ASSUME NEW k \in KeysOf("index", c)
      PROVE  \E i \in IndexId : /\ k = IndexKey(c, i) /\ k[3] = i
                                /\ k \in DOMAIN store /\ store[k].unique \in BOOLEAN
  <2>1. \E d \in CollId, i \in IndexId : k = IndexKey(d, i)
    BY <1>1, KeysSelect, KeyParts, EntryParts DEF IsKey, IsEntry
  <2>2. PICK d \in CollId, i \in IndexId : k = IndexKey(d, i)
    BY <2>1
  <2>3. d = c /\ k[3] = i /\ k \in DOMAIN store
    BY <2>2, KeysSelect, KeyParts DEF PartOf
  <2>4. store[k] \in [name : AnyIndexName, unique : BOOLEAN]
    BY <2>2, <2>3, NoView DEF Sound, Typed
  <2> QED
    BY <2>2, <2>3, <2>4
<1>3. ASSUME NEW x \in IndexesOf(c)
      PROVE  /\ x \in Index
             /\ IndexKey(c, x.index) \in DOMAIN store
             /\ store[IndexKey(c, x.index)].unique = x.unique
  <2>1. PICK k \in KeysOf("index", c) : x = [index |-> k[3], unique |-> store[k].unique]
    BY DEF IndexesOf
  <2>2. PICK i \in IndexId : /\ k = IndexKey(c, i) /\ k[3] = i
                             /\ k \in DOMAIN store /\ store[k].unique \in BOOLEAN
    BY <1>2
  <2>3. x.index = i /\ x.unique = store[k].unique
    BY <2>1, <2>2
  <2>4. x \in Index
    BY <2>1, <2>2 DEF Index, IndexId
  <2> QED
    BY <2>2, <2>3, <2>4
<1>4. ASSUME NEW i, IndexKey(c, i) \in DOMAIN store
      PROVE  [index |-> i, unique |-> store[IndexKey(c, i)].unique] \in IndexesOf(c)
  <2> DEFINE k == IndexKey(c, i)
  <2>1. k \in KeysOf("index", c) /\ k[3] = i
    BY <1>4, KeysSelect, KeyParts DEF PartOf
  <2> HIDE DEF k
  <2>2. [index |-> k[3], unique |-> store[k].unique] \in IndexesOf(c)
    BY <2>1 DEF IndexesOf
  <2> QED
    BY <2>1, <2>2 DEF k
<1> QED
  BY <1>3, <1>4

\* A new id is one that nothing has.
LEMMA NewIdIsFree ==
    ASSUME NEW t, Sound(NoTransaction), Good(t), IdsAreFresh(t), NextColl(t) <= MaxColl
    PROVE  /\ NextColl(t) \in CollId
           /\ ~Has(t, PropertiesKey(NextColl(t))) /\ PropertiesKey(NextColl(t)) \notin DOMAIN store
<1>1. t.maxColl \in Nat
  BY DEF Good, IdsTyped
<1>2. NextColl(t) \in Nat \ {0}
  BY <1>1, NextIds
<1>3. NextColl(t) \in CollId
  BY <1>2, BoundsAssumption DEF CollId
<1> QED
  BY <1>2, <1>3 DEF IdsAreFresh

\* What is known of a transaction is known after it made a collection.
LEMMA NewCollectionKnows ==
    ASSUME Sound(NoTransaction), NEW t, Good(t), Sound(t), IdsAreFresh(t),
           NextColl(t) <= MaxColl, NEW n \in Name, NEW autoIndex
    PROVE  /\ Good(NewCollection(t, n, autoIndex)) /\ Sound(NewCollection(t, n, autoIndex))
           /\ IdsAreFresh(NewCollection(t, n, autoIndex))
           /\ CollectionsStay(t) => CollectionsStay(NewCollection(t, n, autoIndex))
           /\ IndexesStay(t) => IndexesStay(NewCollection(t, n, autoIndex))
           /\ RecordsStay(t) => RecordsStay(NewCollection(t, n, autoIndex))
           /\ NoRecords(t) => NoRecords(NewCollection(t, n, autoIndex))
<1> DEFINE c == NextColl(t)
           u == NewCollection(t, n, autoIndex)
<1>1. c \in CollId /\ ~Has(t, PropertiesKey(c)) /\ PropertiesKey(c) \notin DOMAIN store
  BY NewIdIsFree
<1>2. /\ Founds(t, u, c, n, autoIndex) /\ IsTransaction(u) /\ u.cw = t.cw
      /\ u.maxColl = c /\ u.maxRecord = t.maxRecord /\ u.maxIndex = t.maxIndex
  BY NewCollectionView
<1>3. \A d \in CollId : Has(t, PropertiesKey(d)) \/ PropertiesKey(d) \in DOMAIN store => d < c
  BY DEF IdsAreFresh
<1>4. NextColl(u) = 1 + c /\ \A d : NextRecord(u, d) = NextRecord(t, d)
  <2>1. c # 0
    BY <1>1, BoundsAssumption DEF CollId
  <2> HIDE DEF c, u
  <2>2. NextColl(u) = 1 + c
    BY <1>2, <2>1 DEF NextColl
  <2> QED
    BY <1>2, <2>2 DEF NextRecord
<1> HIDE DEF c, u
<1>5. Good(u)
  <2>1. c \in Nat
    BY <1>1, BoundsAssumption DEF CollId
  <2>2. IdsTyped(u)
    BY <1>2, <2>1 DEF Good, IdsTyped
  <2> QED
    BY <1>2, <2>2 DEF Good
<1>6. Sound(u)
  BY <1>1, <1>2, NewCollectionSound
<1>7. \A k : ~IsNew(k, c, n, autoIndex) =>
          (Has(u, k) <=> Has(t, k)) /\ At(u, k) = At(t, k) /\ (Writes(u, k) <=> Writes(t, k))
  BY <1>2 DEF Founds
<1>8. /\ \A d : d # c => ~IsNew(PropertiesKey(d), c, n, autoIndex)
      /\ \A d, i : d # c => ~IsNew(IndexKey(d, i), c, n, autoIndex)
      /\ \A d, r : ~IsNew(RecordKey(d, r), c, n, autoIndex)
  BY KeyParts DEF IsNew
<1>9. IdsAreFresh(u)
  <2>1. ASSUME NEW d \in CollId, Has(u, PropertiesKey(d)) \/ PropertiesKey(d) \in DOMAIN store
        PROVE  d < NextColl(u)
    <3>1. d = c \/ d < c
      BY <1>3, <1>7, <1>8, <2>1
    <3> QED
      BY <1>1, <1>4, <3>1, BoundsAssumption DEF CollId
  <2>2. \A d \in CollId, r \in RecordId :
            Has(u, RecordKey(d, r)) \/ RecordKey(d, r) \in DOMAIN store => r < NextRecord(u, d)
    BY <1>4, <1>7, <1>8 DEF IdsAreFresh
  <2> QED
    BY <2>1, <2>2 DEF IdsAreFresh
<1>10. CollectionsStay(t) => CollectionsStay(u)
  BY <1>1, <1>7, <1>8 DEF CollectionsStay
<1>11. IndexesStay(t) => IndexesStay(u)
  BY <1>1, <1>7, <1>8 DEF IndexesStay
<1>12. RecordsStay(t) => RecordsStay(u)
  BY <1>7, <1>8 DEF RecordsStay
<1>13. NoRecords(t) => NoRecords(u)
  BY <1>7, <1>8 DEF NoRecords
<1> QED
  BY <1>5, <1>6, <1>9, <1>10, <1>11, <1>12, <1>13 DEF u

\* The index on _id that a new collection has.
LEMMA PrimaryIsIndex ==
    \A x \in {[index |-> PrimaryIndex, unique |-> TRUE]} :
        x.index = PrimaryIndex /\ x.unique = TRUE /\ x \in Index
<1> DEFINE p == [index |-> PrimaryIndex, unique |-> TRUE]
<1>1. PrimaryIndex \in 0..MaxIndex
  BY BoundsAssumption DEF PrimaryIndex
<1>2. p.index = PrimaryIndex /\ p.unique = TRUE
  OBVIOUS
<1>3. p \in Index
  BY <1>1 DEF Index
<1> HIDE DEF p
<1> QED
  BY <1>2, <1>3 DEF p

\* The writer keeps a collection that it knows.
LEMMA WriterKnows ==
    ASSUME Sound(NoTransaction), NEW t, Good(t), Sound(t), NEW n \in Name,
           NEW command \in Writing, KnowsFor(command, t),
           ~Exists(n) => command # "delete" /\ CollectionWriter(t, n).maxColl <= MaxColl
    PROVE  /\ Good(CollectionWriter(t, n)) /\ Sound(CollectionWriter(t, n))
           /\ KnowsFor(command, CollectionWriter(t, n))
           /\ CollectionWriter(t, n).cw.name = n /\ HasWriter(CollectionWriter(t, n))
           /\ CollectionWriter(t, n).maxRecord = t.maxRecord
           /\ \A k : TagOf(k) = "record" =>
                  /\ Has(CollectionWriter(t, n), k) <=> Has(t, k)
                  /\ At(CollectionWriter(t, n), k) = At(t, k)
                  /\ Writes(CollectionWriter(t, n), k) <=> Writes(t, k)
<1> DEFINE u == CollectionWriter(t, n)
           c == CollectionId(t, n)
           s == Created(t, n)
           X == IF Exists(n) THEN IndexesOf(store[NameKey(n)])
                ELSE {[index |-> PrimaryIndex, unique |-> TRUE]}
           w == [name |-> n, coll |-> c, indexes |-> X]
<1>1. CASE t.cw.name = n
  <2>1. u = t
    BY <1>1 DEF CollectionWriter
  <2> QED
    BY <1>1, <2>1, NameAssumption DEF HasWriter
<1>2. CASE t.cw.name # n
  <2>1. u = Keeping(s, w)
    BY <1>2 DEF CollectionWriter, Keeping
  <2>2. w.name = n /\ w.coll = c /\ w.indexes = X
    OBVIOUS
  <2>3. CollectionsStay(t) /\ IndexesStay(t)
    BY DEF KnowsFor, Adding, Writing
  <2> HIDE DEF w
  <2>4. /\ Good(s) /\ Sound(s) /\ s.maxRecord = t.maxRecord
        /\ KnowsFor(command, s) \/ (~Exists(n) /\ command \in {"insert", "update"})
        /\ command \in Adding => IdsAreFresh(s)
        /\ CollectionsStay(s) /\ IndexesStay(s)
        /\ command \in Erasing => OnlyErases(s)
        /\ command \in {"insert", "update"} => RecordsStay(s)
        /\ \A k : TagOf(k) = "record" => /\ Has(s, k) <=> Has(t, k)
                                         /\ At(s, k) = At(t, k)
                                         /\ Writes(s, k) <=> Writes(t, k)
        /\ c \in CollId /\ Has(s, PropertiesKey(c))
        /\ Exists(n) => c = store[NameKey(n)]
        /\ \A x \in X : /\ x \in Index /\ Has(s, IndexKey(c, x.index))
                        /\ At(s, IndexKey(c, x.index)).unique = x.unique
        /\ \A i \in IndexId : Has(s, IndexKey(c, i)) =>
               [index |-> i, unique |-> At(s, IndexKey(c, i)).unique] \in X
    <3>1. CASE Exists(n)
      <4>1. s = t /\ c = store[NameKey(n)] /\ X = IndexesOf(c)
        BY <3>1 DEF Created, CollectionId
      <4>2. NameKey(n) \in DOMAIN store /\ Has(NoTransaction, NameKey(n)) /\ At(NoTransaction, NameKey(n)) = c
        BY <3>1, <4>1, NoView DEF Exists
      <4> HIDE DEF s, c, X
      <4>3. c \in CollId /\ PropertiesKey(c) \in DOMAIN store
        BY <4>2, NoView DEF Sound, Typed, Named
      <4>4. Has(t, PropertiesKey(c))
        BY <2>3, <4>3 DEF CollectionsStay
      <4>5. \A i \in IndexId :
                /\ Has(t, IndexKey(c, i)) <=> IndexKey(c, i) \in DOMAIN store
                /\ IndexKey(c, i) \in DOMAIN store => At(t, IndexKey(c, i)) = store[IndexKey(c, i)]
        BY <2>3, <4>3 DEF IndexesStay
      <4>6. \A x \in X : /\ x \in Index /\ Has(t, IndexKey(c, x.index))
                         /\ At(t, IndexKey(c, x.index)).unique = x.unique
        <5> SUFFICES ASSUME NEW x \in X
                     PROVE  /\ x \in Index /\ Has(t, IndexKey(c, x.index))
                            /\ At(t, IndexKey(c, x.index)).unique = x.unique
          OBVIOUS
        <5>1. /\ x \in Index /\ IndexKey(c, x.index) \in DOMAIN store
              /\ store[IndexKey(c, x.index)].unique = x.unique
          BY <4>1, IndexesOfKnown
        <5>2. x.index \in IndexId
          BY <5>1 DEF Index, IndexId
        <5> QED
          BY <4>5, <5>1, <5>2
      <4>7. \A i \in IndexId : Has(t, IndexKey(c, i)) =>
                [index |-> i, unique |-> At(t, IndexKey(c, i)).unique] \in X
        <5> SUFFICES ASSUME NEW i \in IndexId, Has(t, IndexKey(c, i))
                     PROVE  [index |-> i, unique |-> At(t, IndexKey(c, i)).unique] \in X
          OBVIOUS
        <5>1. IndexKey(c, i) \in DOMAIN store /\ At(t, IndexKey(c, i)) = store[IndexKey(c, i)]
          BY <4>5
        <5>2. [index |-> i, unique |-> store[IndexKey(c, i)].unique] \in X
          BY <4>1, <5>1, IndexesOfKnown
        <5> QED
          BY <5>1, <5>2
      <4> QED
        BY <2>3, <3>1, <4>1, <4>3, <4>4, <4>6, <4>7 DEF KnowsFor
    <3>2. CASE ~Exists(n)
      <4>1. /\ s = NewCollection(t, n, TRUE) /\ c = NextColl(t)
            /\ X = {[index |-> PrimaryIndex, unique |-> TRUE]}
        BY <3>2 DEF Created, CollectionId
      <4>2. command \in {"insert", "update"} /\ IdsAreFresh(t) /\ RecordsStay(t)
        BY <3>2 DEF KnowsFor, Writing, Adding
      <4> HIDE DEF s, c, X
      <4>3. /\ Founds(t, s, c, n, TRUE) /\ IsTransaction(s)
            /\ s.maxColl = c /\ s.maxRecord = t.maxRecord
        BY <4>1, NewCollectionView
      <4>4. c <= MaxColl
        <5>1. u.maxColl = s.maxColl
          BY <2>1, <4>3, KeepingView
        <5> QED
          BY <3>2, <4>3, <5>1
      <4>5. c \in CollId /\ ~Has(t, PropertiesKey(c)) /\ PropertiesKey(c) \notin DOMAIN store
        BY <4>1, <4>2, <4>4, NewIdIsFree
      <4>6. /\ Good(s) /\ Sound(s) /\ IdsAreFresh(s)
            /\ CollectionsStay(s) /\ IndexesStay(s) /\ RecordsStay(s)
        BY <2>3, <4>1, <4>2, <4>4, NewCollectionKnows
      <4>7. \A k : TagOf(k) = "record" => /\ Has(s, k) <=> Has(t, k)
                                          /\ At(s, k) = At(t, k)
                                          /\ Writes(s, k) <=> Writes(t, k)
        BY <4>3, KeyParts DEF Founds, IsNew
      <4>8. /\ Has(s, PropertiesKey(c)) /\ Has(s, IndexKey(c, PrimaryIndex))
            /\ At(s, IndexKey(c, PrimaryIndex)) = PrimaryEntry
        BY <4>3 DEF Founds, IsNew
      <4>9. At(s, IndexKey(c, PrimaryIndex)).unique = TRUE
        BY <4>8 DEF PrimaryEntry
      <4>10. \A i \in IndexId : Has(s, IndexKey(c, i)) => i = PrimaryIndex
        <5>1. \A i \in IndexId : ~Has(t, IndexKey(c, i))
          BY <4>5 DEF Sound, Owned
        <5>2. \A i : IsNew(IndexKey(c, i), c, n, TRUE) => i = PrimaryIndex
          BY KeyParts DEF IsNew
        <5> QED
          BY <4>3, <5>1, <5>2 DEF Founds
      <4>12. \A x \in X : /\ x \in Index /\ Has(s, IndexKey(c, x.index))
                          /\ At(s, IndexKey(c, x.index)).unique = x.unique
        <5> SUFFICES ASSUME NEW x \in X
                     PROVE  /\ x \in Index /\ Has(s, IndexKey(c, x.index))
                            /\ At(s, IndexKey(c, x.index)).unique = x.unique
          OBVIOUS
        <5>1. x.index = PrimaryIndex /\ x.unique = TRUE /\ x \in Index
          BY <4>1, PrimaryIsIndex
        <5> QED
          BY <4>8, <4>9, <5>1
      <4>13. \A i \in IndexId : Has(s, IndexKey(c, i)) =>
                [index |-> i, unique |-> At(s, IndexKey(c, i)).unique] \in X
        BY <4>1, <4>9, <4>10
      <4>14. command \notin Erasing
        BY <4>2 DEF Erasing
      <4> QED
        BY <3>2, <4>2, <4>3, <4>5, <4>6, <4>7, <4>8, <4>12, <4>13, <4>14
    <3> QED
      BY <3>1, <3>2
  <2> HIDE DEF s, c, X
  <2>5. /\ IsTransaction(u) /\ u.cw = w /\ u.pending = s.pending
        /\ u.maxColl = s.maxColl /\ u.maxRecord = s.maxRecord /\ u.maxIndex = s.maxIndex
    BY <2>1, <2>4, KeepingView DEF Good
  <2> HIDE DEF u
  <2>6. /\ \A k : Has(u, k) <=> Has(s, k)
        /\ \A k : At(u, k) = At(s, k)
        /\ \A k : Writes(u, k) <=> Writes(s, k)
    BY <2>5, SameView
  <2>7. u.cw.name = n /\ u.cw.coll = c /\ u.cw.indexes = X
    BY <2>2, <2>5
  <2>8. Good(u)
    <3>1. IdsTyped(u)
      BY <2>4, <2>5 DEF Good, IdsTyped
    <3> QED
      BY <2>4, <2>5, <2>7, <3>1 DEF Good
  <2>9. KeptIsKnown(u)
    <3>1. KeptAs(u, n, c, X)
      BY <2>4, <2>6 DEF KeptAs
    <3> QED
      BY <2>7, <3>1 DEF KeptIsKnown
  <2>10. command \in Adding => IdsAreFresh(u)
    <3>1. NextColl(u) = NextColl(s) /\ \A d : NextRecord(u, d) = NextRecord(s, d)
      BY <2>5, SameIds
    <3> QED
      BY <2>4, <2>6, <3>1 DEF IdsAreFresh
  <2>11. CollectionsStay(u) /\ IndexesStay(u)
    BY <2>4, <2>6 DEF CollectionsStay, IndexesStay
  <2>12. command \in Erasing => OnlyErases(u)
    BY <2>4, <2>5 DEF OnlyErases
  <2>13. command \in {"insert", "update"} => RecordsStay(u)
    BY <2>4, <2>6 DEF RecordsStay
  <2>14. command \in Writing /\ command # "create_indexes"
    BY DEF Writing
  <2>15. KnowsFor(command, u)
    BY <2>9, <2>10, <2>11, <2>12, <2>13, <2>14 DEF KnowsFor
  <2>16. Sound(u)
    BY <2>4, <2>5, SameSound
  <2>17. HasWriter(u)
    BY <2>7, NameAssumption DEF HasWriter
  <2> QED
    BY <2>4, <2>5, <2>6, <2>7, <2>8, <2>15, <2>16, <2>17 DEF u
<1> QED
  BY <1>1, <1>2

-----------------------------------------------------------------------------
(* insert, update and delete.                                              *)

\* A record and its entries leave collections and indexes alone.
LEMMA StoresKnows ==
    ASSUME NEW t, NEW u, NEW c, NEW r, NEW doc, NEW G,
           Stores(t, u, c, r, doc, G), \A k \in G : IsOf(c, r, k), u.cw = t.cw
    PROVE  /\ CollectionsStay(t) => CollectionsStay(u)
           /\ IndexesStay(t) => IndexesStay(u)
           /\ KeptIsKnown(t) => KeptIsKnown(u)
<1>1. /\ \A d : Has(u, PropertiesKey(d)) <=> Has(t, PropertiesKey(d))
      /\ \A d, i : /\ Has(u, IndexKey(d, i)) <=> Has(t, IndexKey(d, i))
                   /\ At(u, IndexKey(d, i)) = At(t, IndexKey(d, i))
  BY StoresElsewhere, KeyParts
<1>2. CollectionsStay(t) => CollectionsStay(u)
  BY <1>1 DEF CollectionsStay
<1>3. IndexesStay(t) => IndexesStay(u)
  BY <1>1 DEF IndexesStay
<1>4. KeptIsKnown(t) => KeptIsKnown(u)
  <2>1. \A n, d, X : KeptAs(t, n, d, X) => KeptAs(u, n, d, X)
    BY <1>1 DEF KeptAs
  <2> QED
    BY <2>1 DEF KeptIsKnown, HasWriter
<1> QED
  BY <1>2, <1>3, <1>4

\* The entries of a document are written with its record's id.
LEMMA WithEntriesView ==
    ASSUME NEW t, IsTransaction(t), NEW r, NEW doc
    PROVE  /\ Keeps(t, WithEntries(t, r, doc))
           /\ \A k : Has(WithEntries(t, r, doc), k) <=> Has(t, k) \/ k \in Entries(t.cw, r, doc)
           /\ \A k : At(WithEntries(t, r, doc), k) =
                         IF k \in Entries(t.cw, r, doc) THEN r ELSE At(t, k)
           /\ \A k : Writes(WithEntries(t, r, doc), k) <=> Writes(t, k) \/ k \in Entries(t.cw, r, doc)
<1> DEFINE E == Entries(t.cw, r, doc)
           g == [k \in E |-> r]
           u == PutAll(t, g)
<1>1. WithEntries(t, r, doc) = u
  BY DEF WithEntries
<1> HIDE DEF E
<1>2. DOMAIN g = E /\ \A k \in E : g[k] = r
  OBVIOUS
<1> HIDE DEF g
<1>3. /\ Keeps(t, u)
      /\ \A k : Has(u, k) <=> Has(t, k) \/ k \in DOMAIN g
      /\ \A k : At(u, k) = IF k \in DOMAIN g THEN g[k] ELSE At(t, k)
      /\ \A k : Writes(u, k) <=> Writes(t, k) \/ k \in DOMAIN g
  BY PutAllView
<1> HIDE DEF u
<1>4. /\ Keeps(t, u)
      /\ \A k : Has(u, k) <=> Has(t, k) \/ k \in E
      /\ \A k : At(u, k) = IF k \in E THEN r ELSE At(t, k)
      /\ \A k : Writes(u, k) <=> Writes(t, k) \/ k \in E
  BY <1>2, <1>3
<1> QED
  BY <1>1, <1>4 DEF E

\* The ids given out, with the one for a record of c.
Numbering(t, c, r) == [t EXCEPT !.maxRecord = With(@, c, r)]

\* use_next_record_id notes the id that it gave out.
LEMMA NumberingView ==
    ASSUME NEW t, IsTransaction(t), NEW c, NEW r
    PROVE  /\ IsTransaction(Numbering(t, c, r))
           /\ Numbering(t, c, r).cw = t.cw /\ Numbering(t, c, r).pending = t.pending
           /\ Numbering(t, c, r).maxColl = t.maxColl /\ Numbering(t, c, r).maxIndex = t.maxIndex
           /\ Numbering(t, c, r).maxRecord = With(t.maxRecord, c, r)
<1> DEFINE u == Numbering(t, c, r)
           f == With(t.maxRecord, c, r)
<1>1. u = [t EXCEPT !.maxRecord = f]
  BY DEF Numbering, IsTransaction
<1> HIDE DEF f
<1>2. u = [command |-> t.command, count |-> t.count, pending |-> t.pending, maxColl |-> t.maxColl,
           maxRecord |-> f, maxIndex |-> t.maxIndex, cw |-> t.cw]
  BY <1>1 DEF IsTransaction
<1>3. /\ u.command = t.command /\ u.count = t.count /\ u.cw = t.cw /\ u.pending = t.pending
      /\ u.maxColl = t.maxColl /\ u.maxRecord = f /\ u.maxIndex = t.maxIndex
  BY <1>2
<1>4. IsTransaction(u)
  BY <1>2, <1>3 DEF IsTransaction
<1> QED
  BY <1>3, <1>4 DEF f

\* One more value of a function.
LEMMA WithOne ==
    ASSUME NEW f, NEW k, NEW v
    PROVE  /\ DOMAIN With(f, k, v) = DOMAIN f \cup {k}
           /\ With(f, k, v)[k] = v
           /\ \A j \in DOMAIN f : j # k => With(f, k, v)[j] = f[j]
BY DEF With, Overlay

\* What insert writes, into the collection that t keeps.
InsertedInto(t, doc) ==
    LET r == NextRecord(t, t.cw.coll)
    IN  WithEntries(Numbering(Put(t, RecordKey(t.cw.coll, r), doc), t.cw.coll, r), r, doc)

\* A record with its entries, and no entry that goes.
LEMMA InsertedIntoView ==
    ASSUME NEW t, IsTransaction(t), KeptIsKnown(t), HasWriter(t), NEW doc, NEW c, NEW r,
           c = t.cw.coll, r = NextRecord(t, c)
    PROVE  /\ Stores(t, InsertedInto(t, doc), c, r, doc, {})
           /\ IsTransaction(InsertedInto(t, doc)) /\ InsertedInto(t, doc).cw = t.cw
           /\ InsertedInto(t, doc).maxColl = t.maxColl
           /\ InsertedInto(t, doc).maxIndex = t.maxIndex
           /\ InsertedInto(t, doc).maxRecord = With(t.maxRecord, c, r)
<1> DEFINE key == RecordKey(c, r)
           v == Put(t, key, doc)
           w == Numbering(v, c, r)
           z == WithEntries(w, r, doc)
<1>1. InsertedInto(t, doc) = z
  BY DEF InsertedInto
<1>2. /\ Keeps(t, v)
      /\ \A k : Has(v, k) <=> Has(t, k) \/ k = key
      /\ \A k : At(v, k) = IF k = key THEN doc ELSE At(t, k)
      /\ \A k : Writes(v, k) <=> Writes(t, k) \/ k = key
  BY PutView
<1> HIDE DEF v
<1>3. IsTransaction(v)
  BY <1>2 DEF Keeps
<1>4. /\ IsTransaction(w) /\ w.cw = v.cw /\ w.pending = v.pending
      /\ w.maxColl = v.maxColl /\ w.maxIndex = v.maxIndex
      /\ w.maxRecord = With(v.maxRecord, c, r)
  BY <1>3, NumberingView
<1> HIDE DEF w
<1>5. /\ \A k : Has(w, k) <=> Has(v, k)
      /\ \A k : At(w, k) = At(v, k)
      /\ \A k : Writes(w, k) <=> Writes(v, k)
  BY <1>4, SameView
<1>6. /\ Keeps(w, z)
      /\ \A k : Has(z, k) <=> Has(w, k) \/ k \in Entries(w.cw, r, doc)
      /\ \A k : At(z, k) = IF k \in Entries(w.cw, r, doc) THEN r ELSE At(w, k)
      /\ \A k : Writes(z, k) <=> Writes(w, k) \/ k \in Entries(w.cw, r, doc)
  BY <1>4, WithEntriesView
<1> HIDE DEF z
<1>7. w.cw = t.cw
  BY <1>2, <1>4 DEF Keeps
<1>8. \A k : k \in Entries(w.cw, r, doc) <=> Needs(t, c, r, doc, k)
  BY <1>7, EntriesNeeded
<1>9. ~Needs(t, c, r, doc, key)
  BY KeyParts, EntryParts DEF Needs, EntryOf
<1>10. Stores(t, z, c, r, doc, {})
  <2>1. \A k : Has(z, k) <=> Has(t, k) \/ k = key \/ Needs(t, c, r, doc, k)
    BY <1>2, <1>5, <1>6, <1>8
  <2>2. \A k : At(z, k) = IF Needs(t, c, r, doc, k) THEN r ELSE IF k = key THEN doc ELSE At(t, k)
    BY <1>2, <1>5, <1>6, <1>8
  <2>3. \A k : Writes(z, k) <=> Writes(t, k) \/ k = key \/ Needs(t, c, r, doc, k)
    BY <1>2, <1>5, <1>6, <1>8
  <2> HIDE DEF key
  <2>4. key = RecordKey(c, r)
    BY DEF key
  <2> QED
    BY <1>9, <2>1, <2>2, <2>3, <2>4 DEF Stores
<1>11. /\ IsTransaction(z) /\ z.cw = t.cw /\ z.maxColl = t.maxColl /\ z.maxIndex = t.maxIndex
       /\ z.maxRecord = With(t.maxRecord, c, r)
  BY <1>2, <1>4, <1>6 DEF Keeps
<1> QED
  BY <1>1, <1>10, <1>11

\* A document that is inserted gets an id that no record has or had.
LEMMA InsertedIntoKnows ==
    ASSUME Sound(NoTransaction), NEW t, Good(t), Sound(t),
           NEW command \in {"insert", "update"}, KnowsFor(command, t), HasWriter(t),
           NEW doc \in Document, InBounds(InsertedInto(t, doc))
    PROVE  /\ Good(InsertedInto(t, doc)) /\ Sound(InsertedInto(t, doc))
           /\ KnowsFor(command, InsertedInto(t, doc))
           /\ \E c \in CollId, r \in RecordId :
                  /\ ~Has(t, RecordKey(c, r)) /\ RecordKey(c, r) \notin DOMAIN store
                  /\ \A k : TagOf(k) = "record" =>
                         /\ Has(InsertedInto(t, doc), k) <=> Has(t, k) \/ k = RecordKey(c, r)
                         /\ Writes(InsertedInto(t, doc), k) <=> Writes(t, k) \/ k = RecordKey(c, r)
<1> DEFINE c == t.cw.coll
           r == NextRecord(t, c)
           u == InsertedInto(t, doc)
<1>1. /\ IdsAreFresh(t) /\ CollectionsStay(t) /\ IndexesStay(t) /\ KeptIsKnown(t) /\ RecordsStay(t)
  BY DEF KnowsFor, Adding, Writing
<1>2. /\ Stores(t, u, c, r, doc, {})
      /\ IsTransaction(u) /\ u.cw = t.cw /\ u.maxColl = t.maxColl /\ u.maxIndex = t.maxIndex
      /\ u.maxRecord = With(t.maxRecord, c, r)
  BY <1>1, InsertedIntoView DEF Good
<1> DEFINE m == t.maxRecord
           ids == With(m, c, r)
<1>0. u.maxRecord = ids /\ t.maxRecord = m
  BY <1>2
<1> HIDE DEF c, r, u, m
<1>01. /\ DOMAIN ids = DOMAIN m \cup {c} /\ ids[c] = r
       /\ \A d \in DOMAIN m : d # c => ids[d] = m[d]
  BY DEF With, Overlay, ids
<1> HIDE DEF ids
<1>3. c \in CollId /\ Has(t, PropertiesKey(c))
  BY <1>1 DEF KeptIsKnown, KeptAs, c
<1>4. r \in Nat \ {0}
  BY NextIds DEF Good, IdsTyped, r
<1>5. r \in RecordId
  <2>1. c \in DOMAIN u.maxRecord /\ u.maxRecord[c] = r
    BY <1>0, <1>01
  <2>2. u.maxRecord[c] <= MaxRecord
    BY <2>1 DEF InBounds, u
  <2>3. r <= MaxRecord
    BY <2>1, <2>2
  <2> QED
    BY <1>4, <2>3, BoundsAssumption DEF RecordId
<1>6. ~Has(t, RecordKey(c, r)) /\ RecordKey(c, r) \notin DOMAIN store
  <2>1. ~(r < r)
    BY <1>4
  <2> QED
    BY <1>1, <1>3, <1>5, <2>1 DEF IdsAreFresh, r
<1>7. Sound(u)
  <2>1. \A v \in EntryValue : Has(t, IdKey(c, v)) => At(t, IdKey(c, v)) # r
    BY <1>3, <1>6 DEF Sound, Leads
  <2> QED
    BY <1>2, <1>3, <1>5, <2>1, StoreSound
<1>8. /\ \A d : Has(u, PropertiesKey(d)) <=> Has(t, PropertiesKey(d))
      /\ \A k : TagOf(k) = "record" =>
             /\ Has(u, k) <=> Has(t, k) \/ k = RecordKey(c, r)
             /\ k # RecordKey(c, r) => At(u, k) = At(t, k)
             /\ Writes(u, k) <=> Writes(t, k) \/ k = RecordKey(c, r)
  BY <1>2, StoresElsewhere, KeyParts
<1>9. IdsTyped(u)
  <2>1. IdsTyped(t)
    BY DEF Good
  <2>2. \A d \in DOMAIN u.maxRecord : u.maxRecord[d] \in Nat
    <3>1. \A d \in DOMAIN t.maxRecord : t.maxRecord[d] \in Nat
      BY <2>1 DEF IdsTyped
    <3> QED
      BY <1>0, <1>01, <1>4, <3>1
  <2> QED
    BY <1>2, <2>1, <2>2 DEF IdsTyped
<1>10. Good(u)
  BY <1>2, <1>9 DEF Good
<1>11. IdsAreFresh(u)
  <2>1. NextColl(u) = NextColl(t)
    BY <1>2 DEF NextColl
  <2>2. NextRecord(u, c) = 1 + r
    BY <1>0, <1>01 DEF NextRecord
  <2>3. \A d : d # c => NextRecord(u, d) = NextRecord(t, d)
    BY <1>0, <1>01 DEF NextRecord
  <2>4. ASSUME NEW d \in CollId, NEW s \in RecordId,
               Has(u, RecordKey(d, s)) \/ RecordKey(d, s) \in DOMAIN store
        PROVE  s < NextRecord(u, d)
    <3>1. RecordKey(d, s) # RecordKey(c, r) => s < NextRecord(t, d)
      BY <1>1, <1>8, <2>4, KeyParts DEF IdsAreFresh
    <3>2. CASE d # c
      BY <2>3, <3>1, <3>2, KeyParts
    <3>3. CASE d = c /\ s # r
      <4>1. s < r
        BY <3>1, <3>3, KeyParts DEF r
      <4> QED
        BY <1>4, <2>2, <3>3, <4>1, BoundsAssumption DEF RecordId
    <3>4. CASE d = c /\ s = r
      BY <1>4, <2>2, <3>4
    <3> QED
      BY <3>2, <3>3, <3>4
  <2> QED
    BY <1>1, <1>8, <2>1, <2>4 DEF IdsAreFresh
<1>12. RecordsStay(u)
  BY <1>1, <1>6, <1>8, KeyParts DEF RecordsStay
<1>13. CollectionsStay(u) /\ IndexesStay(u) /\ KeptIsKnown(u)
  BY <1>1, <1>2, StoresKnows
<1>14. KnowsFor(command, u)
  BY <1>11, <1>12, <1>13 DEF KnowsFor, Adding, Erasing, Writing
<1> QED
  BY <1>3, <1>5, <1>6, <1>7, <1>8, <1>10, <1>14 DEF u

\* Neither the writer nor an insert gives out another id of a collection.
LEMMA WriterIsTransaction ==
    ASSUME NEW t, Good(t), NEW n
    PROVE  IsTransaction(CollectionWriter(t, n))
<1>1. IsTransaction(t)
  BY DEF Good
<1>2. IsTransaction(Created(t, n))
  BY <1>1, NewCollectionView DEF Created
<1>3. \A w : IsTransaction(Keeping(Created(t, n), w))
  BY <1>2, KeepingView
<1> QED
  BY <1>1, <1>3 DEF CollectionWriter, Keeping

\* It makes no collection.
LEMMA InsertedIntoIds ==
    ASSUME NEW t, IsTransaction(t), NEW doc
    PROVE  InsertedInto(t, doc).maxColl = t.maxColl
<1> DEFINE c == t.cw.coll
           r == NextRecord(t, c)
           v == Put(t, RecordKey(c, r), doc)
           w == Numbering(v, c, r)
           z == WithEntries(w, r, doc)
<1>1. InsertedInto(t, doc) = z
  BY DEF InsertedInto
<1> HIDE DEF c, r
<1>2. Keeps(t, v)
  BY PutView
<1> HIDE DEF v
<1>3. IsTransaction(w) /\ w.maxColl = v.maxColl
  BY <1>2, NumberingView DEF Keeps
<1> HIDE DEF w
<1>4. Keeps(w, z)
  BY <1>3, WithEntriesView
<1> HIDE DEF z
<1> QED
  BY <1>1, <1>2, <1>3, <1>4 DEF Keeps

\* A command that inserts has one more new record.
LEMMA CountOne ==
    ASSUME NEW t, NEW u, NEW key, NEW n \in Nat, InsertsCounted(t, n),
           TagOf(key) = "record", ~Has(t, key), key \notin DOMAIN store,
           \A k : TagOf(k) = "record" => /\ Has(u, k) <=> Has(t, k) \/ k = key
                                         /\ Writes(u, k) <=> Writes(t, k) \/ k = key
    PROVE  InsertsCounted(u, n + 1)
<1> DEFINE old == {k \in DOMAIN t.pending : TagOf(k) = "record"}
           new == {k \in DOMAIN u.pending : TagOf(k) = "record"}
<1>1. /\ \A k \in old : t.pending[k] # Tombstone /\ k \notin DOMAIN store
      /\ IsFiniteSet(old) /\ Cardinality(old) = n
  BY DEF InsertsCounted
<1>2. new = old \cup {key}
  BY DEF Writes
<1>3. key \notin old
  BY <1>1 DEF Has
<1>4. \A k \in new : u.pending[k] # Tombstone
  <2>1. \A k \in old : Has(t, k)
    BY <1>1 DEF Has
  <2>2. \A k \in new : Has(u, k) /\ k \in DOMAIN u.pending
    BY <1>2, <2>1
  <2> QED
    BY <2>2 DEF Has
<1> HIDE DEF old, new
<1>5. IsFiniteSet(new) /\ Cardinality(new) = n + 1
  BY <1>1, <1>2, <1>3, FS_AddElement
<1>6. \A k \in new : k \notin DOMAIN store
  BY <1>1, <1>2
<1> QED
  BY <1>4, <1>5, <1>6 DEF InsertsCounted, new

\* Both ways to insert.
LEMMA InsertedKnows ==
    ASSUME IInv, NEW command \in {"insert", "update"}, Does(command),
           NEW n \in Name, NEW doc \in Document, InBounds(Inserted(tx, n, doc))
    PROVE  /\ Good(Inserted(tx, n, doc)) /\ Sound(Inserted(tx, n, doc))
           /\ KnowsFor(command, Inserted(tx, n, doc))
           /\ command = "insert" => InsertsCounted(Inserted(tx, n, doc), tx.count + 1)
<1> DEFINE u == CollectionWriter(tx, n)
           z == InsertedInto(u, doc)
<1>1. Inserted(tx, n, doc) = z
  BY DEF Inserted, InsertedInto, Numbering
<1>2. /\ Good(tx) /\ KnowsFor(command, tx) /\ tx.count + 1 \in 0..MaxBatch
      /\ command = "insert" => InsertsCounted(tx, tx.count)
  BY Ready DEF Adding
<1>3. Sound(NoTransaction) /\ Sound(tx)
  BY DEF IInv
<1>4. u.maxColl <= MaxColl
  <2>1. z.maxColl = u.maxColl
    BY <1>2, WriterIsTransaction, InsertedIntoIds
  <2>2. z.maxColl <= MaxColl
    BY <1>1 DEF InBounds
  <2> QED
    BY <2>1, <2>2
<1>5. /\ Good(u) /\ Sound(u) /\ KnowsFor(command, u) /\ HasWriter(u)
      /\ \A k : TagOf(k) = "record" =>
             /\ Has(u, k) <=> Has(tx, k)
             /\ Writes(u, k) <=> Writes(tx, k)
  BY <1>2, <1>3, <1>4, WriterKnows DEF Writing
<1> HIDE DEF u
<1>6. InBounds(z)
  BY <1>1
<1>7. /\ Good(z) /\ Sound(z) /\ KnowsFor(command, z)
      /\ \E c \in CollId, r \in RecordId :
             /\ ~Has(u, RecordKey(c, r)) /\ RecordKey(c, r) \notin DOMAIN store
             /\ \A k : TagOf(k) = "record" =>
                    /\ Has(z, k) <=> Has(u, k) \/ k = RecordKey(c, r)
                    /\ Writes(z, k) <=> Writes(u, k) \/ k = RecordKey(c, r)
  BY <1>3, <1>5, <1>6, InsertedIntoKnows
<1> HIDE DEF z
<1>8. ASSUME command = "insert"
      PROVE  InsertsCounted(z, tx.count + 1)
  <2>1. PICK c \in CollId, r \in RecordId :
            /\ ~Has(u, RecordKey(c, r)) /\ RecordKey(c, r) \notin DOMAIN store
            /\ \A k : TagOf(k) = "record" =>
                   /\ Has(z, k) <=> Has(u, k) \/ k = RecordKey(c, r)
                   /\ Writes(z, k) <=> Writes(u, k) \/ k = RecordKey(c, r)
    BY <1>7
  <2> DEFINE key == RecordKey(c, r)
  <2>2. TagOf(key) = "record"
    BY KeyParts
  <2>3. /\ ~Has(tx, key) /\ key \notin DOMAIN store
        /\ \A k : TagOf(k) = "record" => /\ Has(z, k) <=> Has(tx, k) \/ k = key
                                         /\ Writes(z, k) <=> Writes(tx, k) \/ k = key
    BY <1>5, <2>1, <2>2
  <2>4. tx.count \in Nat
    BY DEF IInv, Knows
  <2> HIDE DEF key
  <2>5. InsertsCounted(tx, tx.count)
    BY <1>2, <1>8
  <2> QED
    BY <2>2, <2>3, <2>4, <2>5, CountOne
<1> QED
  BY <1>1, <1>7, <1>8

\* insert, and update that inserts.
LEMMA InsertKeeps ==
    ASSUME IInv, NEW n \in Name, NEW doc \in Document, Insert(n, doc) \/ Upsert(n, doc)
    PROVE  IInv'
<1> DEFINE z == Inserted(tx, n, doc)
<1>1. ASSUME NEW command \in {"insert", "update"}, InBounds(z), Batch(command, z)
      PROVE  IInv'
  <2>1. Does(command) /\ command \in Adding
    BY <1>1 DEF Batch, Adding
  <2>2. /\ Good(z) /\ Sound(z) /\ KnowsFor(command, z)
        /\ command = "insert" => InsertsCounted(z, tx.count + 1)
    BY <1>1, <2>1, InsertedKnows
  <2> HIDE DEF z
  <2> QED
    BY <1>1, <2>1, <2>2, BatchKeeps
<1> QED
  BY <1>1 DEF Insert, Upsert

\* What the index on _id leads to: a record of the store with that _id.
LEMMA FoundRecord ==
    ASSUME Sound(NoTransaction), NEW c \in CollId, NEW id \in Id, NEW r \in Found(c, id)
    PROVE  /\ r \in RecordId /\ id \in EntryValue
           /\ RecordKey(c, r) \in DOMAIN store
           /\ store[RecordKey(c, r)] \in Document /\ store[RecordKey(c, r)].id = id
<1>1. IdKey(c, id) \in DOMAIN store /\ r = store[IdKey(c, id)]
  BY DEF Found, IdKey
<1>2. Has(NoTransaction, IdKey(c, id)) /\ At(NoTransaction, IdKey(c, id)) = r
  BY <1>1, NoView
<1>3. id \in EntryValue
  BY DEF EntryValue
<1>4. r \in RecordId
  <2>1. 1 \in RecordId /\ PrimaryIndex \in IndexId
    BY BoundsAssumption DEF RecordId, IndexId, PrimaryIndex
  <2>2. EntryKey(c, PrimaryIndex, id, 1, TRUE) = IdKey(c, id)
    BY IdKeyParts
  <2>3. Typed(NoTransaction)
    BY DEF Sound
  <2>4. Has(NoTransaction, EntryKey(c, PrimaryIndex, id, 1, TRUE)) =>
            At(NoTransaction, EntryKey(c, PrimaryIndex, id, 1, TRUE)) \in RecordId
    BY <1>3, <2>1, <2>3 DEF Typed
  <2> QED
    BY <1>2, <2>2, <2>4
<1>5. /\ Has(NoTransaction, RecordKey(c, r))
      /\ At(NoTransaction, RecordKey(c, r)).id = id
  BY <1>2, <1>3 DEF Sound, Leads
<1>6. At(NoTransaction, RecordKey(c, r)) \in Document
  BY <1>4, <1>5 DEF Sound, Typed
<1>7. At(NoTransaction, RecordKey(c, r)) = store[RecordKey(c, r)]
  BY NoView
<1> QED
  BY <1>3, <1>4, <1>5, <1>6, <1>7, NoView

\* The entries of a document for a record.
LEMMA EntriesAreOf ==
    ASSUME NEW t, Sound(t), KeptIsKnown(t), HasWriter(t), NEW r \in RecordId, NEW doc \in Document
    PROVE  \A k \in Entries(t.cw, r, doc) : IsOf(t.cw.coll, r, k)
<1> DEFINE c == t.cw.coll
<1>1. c \in CollId
  BY DEF KeptIsKnown, KeptAs
<1>2. \A k \in Entries(t.cw, r, doc) : Needs(t, c, r, doc, k)
  BY EntriesNeeded
<1> HIDE DEF c
<1>3. ASSUME NEW k, Needs(t, c, r, doc, k)
      PROVE  IsOf(c, r, k)
  <2>1. PICK i \in IndexId : /\ Has(t, IndexKey(c, i))
                             /\ k = EntryOf(c, i, doc, r, At(t, IndexKey(c, i)).unique)
    BY <1>3 DEF Needs
  <2>2. At(t, IndexKey(c, i)).unique \in BOOLEAN
    BY <1>1, <2>1 DEF Sound, Typed
  <2> QED
    BY <2>1, <2>2, DocumentValues DEF EntryOf, IsOf
<1> QED
  BY <1>2, <1>3 DEF c

\* What update writes: the new form of the record, the entries of the old one gone
\* and those of the new one there.
LEMMA UpdatedView ==
    ASSUME NEW t, IsTransaction(t), KeptIsKnown(t), HasWriter(t), NEW doc, NEW r, NEW c, NEW G,
           c = t.cw.coll, G = Entries(t.cw, r, store[RecordKey(c, r)]),
           \A k \in G : IsOf(c, r, k)
    PROVE  /\ Stores(t, Updated(t, r, doc), c, r, doc, G)
           /\ Keeps(t, Updated(t, r, doc))
<1> DEFINE key == RecordKey(c, r)
           v == Put(t, key, doc)
           w == Erase(v, G)
           z == WithEntries(w, r, doc)
<1>1. Updated(t, r, doc) = z
  BY DEF Updated
<1>2. /\ Keeps(t, v)
      /\ \A k : Has(v, k) <=> Has(t, k) \/ k = key
      /\ \A k : At(v, k) = IF k = key THEN doc ELSE At(t, k)
      /\ \A k : Writes(v, k) <=> Writes(t, k) \/ k = key
  BY PutView
<1> HIDE DEF v
<1>3. /\ Keeps(v, w)
      /\ \A k : Has(w, k) <=> Has(v, k) /\ k \notin G
      /\ \A k : k \notin G => At(w, k) = At(v, k)
      /\ \A k : Writes(w, k) <=> Writes(v, k) \/ k \in G
  <2>1. IsTransaction(v)
    BY <1>2 DEF Keeps
  <2> QED
    BY <2>1, EraseView
<1> HIDE DEF w
<1>4. /\ Keeps(w, z)
      /\ \A k : Has(z, k) <=> Has(w, k) \/ k \in Entries(w.cw, r, doc)
      /\ \A k : At(z, k) = IF k \in Entries(w.cw, r, doc) THEN r ELSE At(w, k)
      /\ \A k : Writes(z, k) <=> Writes(w, k) \/ k \in Entries(w.cw, r, doc)
  <2>1. IsTransaction(w)
    BY <1>3 DEF Keeps
  <2> QED
    BY <2>1, WithEntriesView
<1> HIDE DEF z
<1>5. Keeps(t, z)
  BY <1>2, <1>3, <1>4 DEF Keeps
<1>6. w.cw = t.cw
  BY <1>2, <1>3 DEF Keeps
<1>7. \A k : k \in Entries(w.cw, r, doc) <=> Needs(t, c, r, doc, k)
  BY <1>6, EntriesNeeded
<1>8. ~Needs(t, c, r, doc, key) /\ key \notin G
  BY KeyParts, EntryParts DEF Needs, EntryOf, IsOf
<1>9. Stores(t, z, c, r, doc, G)
  <2> HIDE DEF key
  <2>0. key = RecordKey(c, r)
    BY DEF key
  <2>1. \A k : Has(z, k) <=> \/ k = key \/ Needs(t, c, r, doc, k)
                             \/ Has(t, k) /\ k \notin G
    BY <1>2, <1>3, <1>4, <1>7, <1>8
  <2>2. \A k : Needs(t, c, r, doc, k) => At(z, k) = r
    BY <1>4, <1>7
  <2>3. At(z, key) = doc
    BY <1>2, <1>3, <1>4, <1>7, <1>8
  <2>4. \A k : k # key /\ ~Needs(t, c, r, doc, k) /\ k \notin G => At(z, k) = At(t, k)
    BY <1>2, <1>3, <1>4, <1>7
  <2>5. \A k : Writes(z, k) <=> Writes(t, k) \/ k = key \/ Needs(t, c, r, doc, k) \/ k \in G
    BY <1>2, <1>3, <1>4, <1>7
  <2> QED
    BY <2>0, <2>1, <2>2, <2>3, <2>4, <2>5 DEF Stores
<1> QED
  BY <1>1, <1>5, <1>9

\* update writes to the record that the index on _id leads to, which is still there
\* and has this _id, whatever the command wrote before.
LEMMA UpdateKeeps ==
    ASSUME IInv, NEW n \in Name, NEW doc \in Document, Update(n, doc)
    PROVE  IInv'
<1> DEFINE t == CollectionWriter(tx, n)
           c == t.cw.coll
<1>1. PICK r \in Found(c, doc.id) : Batch("update", Updated(t, r, doc))
  BY DEF Update
<1>2. Does("update") /\ Exists(n)
  BY <1>1 DEF Batch, Update, Matches
<1>3. Good(tx) /\ KnowsFor("update", tx)
  BY <1>2, Ready DEF Adding
<1>4. Sound(NoTransaction) /\ Sound(tx)
  BY DEF IInv
<1>5. Good(t) /\ Sound(t) /\ KnowsFor("update", t) /\ HasWriter(t)
  BY <1>2, <1>3, <1>4, WriterKnows DEF Writing
<1> DEFINE z == Updated(t, r, doc)
           key == RecordKey(c, r)
           G == Entries(t.cw, r, store[key])
<1>6. Batch("update", z)
  BY <1>1
<1> HIDE DEF t
<1>7. /\ IdsAreFresh(t) /\ CollectionsStay(t) /\ IndexesStay(t) /\ KeptIsKnown(t) /\ RecordsStay(t)
  BY <1>5 DEF KnowsFor, Adding, Writing
<1>8. c \in CollId /\ Has(t, PropertiesKey(c))
  BY <1>5, <1>7 DEF KeptIsKnown, KeptAs
<1>9. doc.id \in Id
  BY DEF Document
<1>10. /\ r \in RecordId /\ doc.id \in EntryValue /\ key \in DOMAIN store
       /\ store[key] \in Document /\ store[key].id = doc.id
  BY <1>4, <1>8, <1>9, FoundRecord
<1>11. \A k \in G : IsOf(c, r, k)
  BY <1>5, <1>7, <1>10, EntriesAreOf
<1>12. Stores(t, z, c, r, doc, G) /\ Keeps(t, z)
  BY <1>5, <1>7, <1>11, UpdatedView DEF Good
<1>13. Has(t, key) /\ At(t, key).id = doc.id
  BY <1>7, <1>8, <1>10 DEF RecordsStay
<1> HIDE DEF c, z, G
<1>14. \A v \in EntryValue : Has(t, IdKey(c, v)) /\ At(t, IdKey(c, v)) = r => v = doc.id
  BY <1>5, <1>8, <1>13 DEF Sound, Leads
<1>15. Sound(z)
  BY <1>5, <1>8, <1>10, <1>11, <1>12, <1>14, StoreSound
<1>16. Good(z)
  BY <1>5, <1>12 DEF Good, Keeps, IdsTyped
<1>17. CollectionsStay(z) /\ IndexesStay(z) /\ KeptIsKnown(z)
  BY <1>7, <1>11, <1>12, StoresKnows DEF Keeps
<1>18. /\ \A d : Has(z, PropertiesKey(d)) <=> Has(t, PropertiesKey(d))
       /\ \A k : TagOf(k) = "record" /\ k # key =>
              (Has(z, k) <=> Has(t, k)) /\ At(z, k) = At(t, k)
       /\ Has(z, key) /\ At(z, key) = doc
  BY <1>11, <1>12, StoresElsewhere, KeyParts
<1>19. IdsAreFresh(z)
  <2>1. NextColl(z) = NextColl(t) /\ \A d : NextRecord(z, d) = NextRecord(t, d)
    BY <1>12, SameIds DEF Keeps
  <2>2. \A d \in CollId, s \in RecordId : Has(z, RecordKey(d, s)) => Has(t, RecordKey(d, s))
    BY <1>13, <1>18, KeyParts
  <2> QED
    BY <1>7, <1>18, <2>1, <2>2 DEF IdsAreFresh
<1>20. RecordsStay(z)
  <2> SUFFICES ASSUME NEW d \in CollId, NEW s \in RecordId, RecordKey(d, s) \in DOMAIN store
               PROVE  /\ Has(z, RecordKey(d, s))
                      /\ At(z, RecordKey(d, s)).id = store[RecordKey(d, s)].id
    BY DEF RecordsStay
  <2>1. CASE RecordKey(d, s) = key
    BY <1>10, <1>18, <2>1
  <2>2. CASE RecordKey(d, s) # key
    BY <1>7, <1>18, <2>2, KeyParts DEF RecordsStay
  <2> QED
    BY <2>1, <2>2
<1>21. KnowsFor("update", z)
  BY <1>17, <1>19, <1>20 DEF KnowsFor, Adding, Erasing, Writing
<1> QED
  BY <1>6, <1>15, <1>16, <1>21, BatchKeeps DEF Adding

\* A transaction that only erases leaves what it leaves as it is in the store.
LEMMA ErasesView ==
    ASSUME NEW t
    PROVE  /\ OnlyErases(t) <=> \A k : Writes(t, k) => ~Has(t, k)
           /\ OnlyErases(t) => \A k : Has(t, k) => k \in DOMAIN store /\ At(t, k) = store[k]
BY DEF OnlyErases, Writes, Has, At

\* delete takes the record with the entries it was committed with: no operation of
\* the command wrote others.
LEMMA DeleteKeeps ==
    ASSUME IInv, NEW n \in Name, NEW id \in Id, Delete(n, id)
    PROVE  IInv'
<1> DEFINE t == CollectionWriter(tx, n)
           c == t.cw.coll
<1>1. PICK r \in Found(c, id) : Batch("delete", Deleted(t, r))
  BY DEF Delete
<1>2. Does("delete") /\ Exists(n)
  BY <1>1 DEF Batch, Delete, Matches
<1>3. Good(tx) /\ KnowsFor("delete", tx)
  BY <1>2, Ready DEF Erasing
<1>4. Sound(NoTransaction) /\ Sound(tx)
  BY DEF IInv
<1>5. Good(t) /\ Sound(t) /\ KnowsFor("delete", t) /\ HasWriter(t)
  BY <1>2, <1>3, <1>4, WriterKnows DEF Writing
<1> DEFINE key == RecordKey(c, r)
           G == Entries(t.cw, r, store[key])
           z == Erase(t, {key} \cup G)
<1>6. Batch("delete", z)
  BY <1>1 DEF Deleted
<1> HIDE DEF t
<1>7. CollectionsStay(t) /\ IndexesStay(t) /\ KeptIsKnown(t) /\ OnlyErases(t)
  BY <1>5 DEF KnowsFor, Erasing, Writing
<1>8. c \in CollId
  BY <1>5, <1>7 DEF KeptIsKnown, KeptAs
<1>9. /\ r \in RecordId /\ id \in EntryValue /\ key \in DOMAIN store
      /\ store[key] \in Document /\ store[key].id = id
  BY <1>4, <1>8, FoundRecord
<1>10. \A k \in G : IsOf(c, r, k)
  BY <1>5, <1>7, <1>9, EntriesAreOf
<1>11. \A k : k \in G <=> Needs(t, c, r, store[key], k)
  BY <1>5, <1>7, EntriesNeeded
<1> HIDE DEF c, G
<1>12. /\ Keeps(t, z)
       /\ \A k : Has(z, k) <=> Has(t, k) /\ k # key /\ k \notin G
       /\ \A k : k # key /\ k \notin G => At(z, k) = At(t, k)
       /\ \A k : Writes(z, k) <=> Writes(t, k) \/ k = key \/ k \in G
  <2> DEFINE S == {key} \cup G
  <2>1. \A k : k \in S <=> k = key \/ k \in G
    OBVIOUS
  <2> HIDE DEF S
  <2>2. IsTransaction(t) /\ z = Erase(t, S)
    BY <1>5 DEF Good, S
  <2> HIDE DEF z
  <2>3. /\ Keeps(t, z)
        /\ \A k : Has(z, k) <=> Has(t, k) /\ k \notin S
        /\ \A k : k \notin S => At(z, k) = At(t, k)
        /\ \A k : Writes(z, k) <=> Writes(t, k) \/ k \in S
    BY <2>2, EraseView
  <2> QED
    BY <2>1, <2>3
<1> HIDE DEF z
<1>13. PartOfWhat(t, z)
  BY <1>12 DEF PartOfWhat
<1>14. ASSUME NEW v \in EntryValue, Has(t, IdKey(c, v)), At(t, IdKey(c, v)) = r
       PROVE  IdKey(c, v) \in G
  <2>1. Has(t, key) /\ At(t, key).id = v
    BY <1>5, <1>8, <1>14 DEF Sound, Leads
  <2>2. v = id
    BY <1>7, <1>9, <2>1, ErasesView
  <2>3. PrimaryIndex \in IndexId
    BY BoundsAssumption DEF IndexId, PrimaryIndex
  <2>4. EntryKey(c, PrimaryIndex, v, r, TRUE) = IdKey(c, v)
    BY IdKeyParts
  <2>5. Has(t, IndexKey(c, PrimaryIndex))
    BY <1>5, <1>8, <1>9, <1>14, <2>3, <2>4 DEF Sound, Owned
  <2>6. At(t, IndexKey(c, PrimaryIndex)).unique = TRUE
    BY <1>5, <1>8, <2>3, <2>5 DEF Sound, Typed
  <2>7. IdKey(c, v) = EntryOf(c, PrimaryIndex, store[key], r, At(t, IndexKey(c, PrimaryIndex)).unique)
    BY <1>9, <2>2, <2>4, <2>6 DEF EntryOf
  <2> QED
    BY <1>11, <2>3, <2>5, <2>7 DEF Needs
<1>15. Sound(z)
  <2> HIDE DEF key
  <2>1. key = RecordKey(c, r)
    BY DEF key
  <2> QED
    BY <1>5, <1>8, <1>9, <1>10, <1>12, <1>13, <1>14, <2>1, RemoveSound
<1>16. Good(z)
  BY <1>5, <1>12 DEF Good, Keeps, IdsTyped
<1>17. OnlyErases(z)
  BY <1>7, <1>12, ErasesView
<1>18. /\ \A d : Has(z, PropertiesKey(d)) <=> Has(t, PropertiesKey(d))
       /\ \A d, i : /\ Has(z, IndexKey(d, i)) <=> Has(t, IndexKey(d, i))
                    /\ At(z, IndexKey(d, i)) = At(t, IndexKey(d, i))
  <2>1. \A k : k = key \/ k \in G => TagOf(k) = "record" \/ TagOf(k) = "entry"
    BY <1>10, KeyParts, EntryParts DEF IsOf
  <2> QED
    BY <1>12, <2>1, KeyParts
<1>19. CollectionsStay(z)
  BY <1>7, <1>18 DEF CollectionsStay
<1>20. IndexesStay(z)
  BY <1>7, <1>18 DEF IndexesStay
<1>21. KeptIsKnown(z)
  <2>1. \A m, d, X : KeptAs(t, m, d, X) => KeptAs(z, m, d, X)
    BY <1>18 DEF KeptAs
  <2>2. z.cw = t.cw
    BY <1>12 DEF Keeps
  <2> QED
    BY <1>7, <2>1, <2>2 DEF KeptIsKnown, HasWriter
<1>22. KnowsFor("delete", z)
  BY <1>17, <1>19, <1>20, <1>21 DEF KnowsFor, Adding, Erasing, Writing
<1> QED
  BY <1>6, <1>15, <1>16, <1>22, BatchKeeps DEF Erasing

-----------------------------------------------------------------------------
(* create_indexes and delete_indexes.                                      *)

\* drop_index erases what is stored of an index, and nothing of it was pending.
LEMMA DropIndexKeeps ==
    ASSUME IInv, NEW n \in Name, NEW x \in AnyIndexName, DropIndex(n, x)
    PROVE  IInv'
<1> DEFINE c == store[NameKey(n)]
           key == IndexNameKey(c, x)
           i == store[key]
           S == {key} \cup {j \in KeysOf("index", c) \cup KeysOf("entry", c) : j[3] = i}
           u == Erase(tx, S)
<1>1. Exists(n) /\ Batch("delete_indexes", u)
  BY DEF DropIndex
<1>2. Good(tx) /\ KnowsFor("delete_indexes", tx)
  BY <1>1, Ready DEF Batch, Erasing
<1>3. Sound(NoTransaction) /\ Sound(tx)
  BY DEF IInv
<1>4. OnlyErases(tx) /\ ~HasWriter(tx)
  BY <1>2 DEF KnowsFor, Erasing, Writing
<1>5. c \in CollId
  BY <1>1, <1>3, NoView DEF Exists, Sound, Typed
<1>6. \A k : k \in S <=> \/ k = key
                         \/ /\ k \in DOMAIN store /\ (TagOf(k) = "index" \/ TagOf(k) = "entry")
                            /\ CollOf(k) = c /\ PartOf(k) = i
  <2>1. \A k : k[3] = PartOf(k)
    BY DEF PartOf
  <2> HIDE DEF key, i
  <2> QED
    BY <2>1, KeysSelect
<1> HIDE DEF c, i, S
<1>7. /\ Keeps(tx, u)
      /\ \A k : Has(u, k) <=> Has(tx, k) /\ k \notin S
      /\ \A k : k \notin S => At(u, k) = At(tx, k)
      /\ \A k : Writes(u, k) <=> Writes(tx, k) \/ k \in S
  BY <1>2, EraseView DEF Good
<1> HIDE DEF u
<1>8. \A k : Has(u, k) <=>
          /\ Has(tx, k) /\ k # IndexNameKey(c, x)
          /\ ~((TagOf(k) = "index" \/ TagOf(k) = "entry") /\ CollOf(k) = c /\ PartOf(k) = i)
  <2>1. \A k : Has(tx, k) => k \in DOMAIN store
    BY <1>4, ErasesView
  <2> QED
    BY <1>6, <1>7, <2>1
<1>9. PartOfWhat(tx, u)
  BY <1>7 DEF PartOfWhat
<1>10. Sound(u)
  BY <1>3, <1>5, <1>8, <1>9, DropIndexSound
<1>11. Good(u)
  BY <1>2, <1>7 DEF Good, Keeps, IdsTyped
<1>12. OnlyErases(u)
  BY <1>4, <1>7, ErasesView
<1>13. ~HasWriter(u)
  BY <1>4, <1>7 DEF HasWriter, Keeps
<1>14. KnowsFor("delete_indexes", u)
  BY <1>12, <1>13 DEF KnowsFor, Adding, Erasing, Writing
<1> QED
  BY <1>1, <1>10, <1>11, <1>14, BatchKeeps DEF Erasing

\* The ids given out, with the one for an index of c.
IndexNumbering(t, c, i) == [t EXCEPT !.maxIndex = With(@, c, i)]

\* use_next_index_id notes the id that it gave out.
LEMMA IndexNumberingView ==
    ASSUME NEW t, IsTransaction(t), NEW c, NEW i
    PROVE  /\ IsTransaction(IndexNumbering(t, c, i))
           /\ IndexNumbering(t, c, i).cw = t.cw /\ IndexNumbering(t, c, i).pending = t.pending
           /\ IndexNumbering(t, c, i).maxColl = t.maxColl
           /\ IndexNumbering(t, c, i).maxRecord = t.maxRecord
           /\ IndexNumbering(t, c, i).maxIndex = With(t.maxIndex, c, i)
<1> DEFINE u == IndexNumbering(t, c, i)
           f == With(t.maxIndex, c, i)
<1>1. u = [t EXCEPT !.maxIndex = f]
  BY DEF IndexNumbering, IsTransaction
<1> HIDE DEF f
<1>2. u = [command |-> t.command, count |-> t.count, pending |-> t.pending, maxColl |-> t.maxColl,
           maxRecord |-> t.maxRecord, maxIndex |-> f, cw |-> t.cw]
  BY <1>1 DEF IsTransaction
<1>3. /\ u.command = t.command /\ u.count = t.count /\ u.cw = t.cw /\ u.pending = t.pending
      /\ u.maxColl = t.maxColl /\ u.maxRecord = t.maxRecord /\ u.maxIndex = f
  BY <1>2
<1>4. IsTransaction(u)
  BY <1>2, <1>3 DEF IsTransaction
<1> QED
  BY <1>3, <1>4 DEF f

\* The records that create_index reads.
LEMMA RecordsRead ==
    ASSUME Sound(NoTransaction), NEW c
    PROVE  /\ \A k \in KeysOf("record", c) :
                  /\ k[3] \in RecordId /\ k = RecordKey(c, k[3])
                  /\ store[k] \in Document
           /\ \A r : RecordKey(c, r) \in DOMAIN store =>
                  RecordKey(c, r) \in KeysOf("record", c) /\ RecordKey(c, r)[3] = r
<1>1. \A k \in DOMAIN store : IsKey(k)
  BY ShapedKeys, NoView DEF Sound
<1>2. ASSUME NEW k \in KeysOf("record", c)
      PROVE  k[3] \in RecordId /\ k = RecordKey(c, k[3]) /\ store[k] \in Document
  <2>1. \E d \in CollId, r \in RecordId : k = RecordKey(d, r)
    BY <1>1, KeysSelect, KeyParts, EntryParts DEF IsKey, IsEntry
  <2>2. PICK d \in CollId, r \in RecordId : k = RecordKey(d, r)
    BY <2>1
  <2>3. d = c /\ k[3] = r /\ k \in DOMAIN store
    BY <2>2, KeysSelect, KeyParts DEF PartOf
  <2>4. store[k] \in Document
    BY <2>2, <2>3, NoView DEF Sound, Typed
  <2> QED
    BY <2>2, <2>3, <2>4
<1>3. ASSUME NEW r, RecordKey(c, r) \in DOMAIN store
      PROVE  RecordKey(c, r) \in KeysOf("record", c) /\ RecordKey(c, r)[3] = r
  BY <1>3, KeysSelect, KeyParts DEF PartOf
<1> QED
  BY <1>2, <1>3

\* Of the records that have one entry, the last.
LastWith(entries, c, e) ==
    Largest({r \in {k[3] : k \in DOMAIN entries} : entries[RecordKey(c, r)] = e})

\* It is a record.
LEMMA LastIsRecord ==
    ASSUME NEW c, NEW S, \A k \in S : k[3] \in RecordId /\ k = RecordKey(c, k[3]),
           NEW entries, DOMAIN entries = S, NEW e, \E k \in S : e = entries[k]
    PROVE  LastWith(entries, c, e) \in RecordId
<1> DEFINE T == {r \in {k[3] : k \in DOMAIN entries} : entries[RecordKey(c, r)] = e}
<1>1. PICK k \in S : e = entries[k]
  OBVIOUS
<1>2. k[3] \in T
  BY <1>1
<1>3. T \subseteq RecordId
  OBVIOUS
<1> HIDE DEF T
<1>4. T \in SUBSET (0..MaxRecord) /\ T # {} /\ MaxRecord \in Nat
  BY <1>2, <1>3, BoundsAssumption DEF RecordId
<1>5. Largest(T) \in T
  BY <1>4, LargestNumber
<1>6. Largest(T) \in RecordId
  BY <1>3, <1>5, Zenon
<1> QED
  BY <1>6 DEF T, LastWith

\* The collection that is indexed is there, or made for it.
LEMMA IndexedCollection ==
    ASSUME IInv, Does("create_indexes"), NEW n \in Name, Created(tx, n).maxColl <= MaxColl
    PROVE  /\ Good(Created(tx, n)) /\ Sound(Created(tx, n)) /\ ~HasWriter(Created(tx, n))
           /\ IdsAreFresh(Created(tx, n)) /\ CollectionsStay(Created(tx, n))
           /\ NoRecords(Created(tx, n))
           /\ CollectionId(tx, n) \in CollId
           /\ Has(Created(tx, n), PropertiesKey(CollectionId(tx, n)))
<1> DEFINE s == Created(tx, n)
           c == CollectionId(tx, n)
<1>1. Good(tx) /\ KnowsFor("create_indexes", tx)
  BY Ready DEF Adding
<1>2. Sound(NoTransaction) /\ Sound(tx)
  BY DEF IInv
<1>3. IdsAreFresh(tx) /\ CollectionsStay(tx) /\ NoRecords(tx) /\ ~HasWriter(tx)
  BY <1>1 DEF KnowsFor, Adding, Writing
<1>4. CASE Exists(n)
  <2>1. s = tx /\ c = store[NameKey(n)]
    BY <1>4 DEF Created, CollectionId
  <2>2. Has(NoTransaction, NameKey(n)) /\ At(NoTransaction, NameKey(n)) = c
    BY <1>4, <2>1, NoView DEF Exists
  <2> HIDE DEF s, c
  <2>3. c \in CollId /\ PropertiesKey(c) \in DOMAIN store
    BY <1>2, <2>2, NoView DEF Sound, Typed, Named
  <2>4. Has(tx, PropertiesKey(c))
    BY <1>3, <2>3 DEF CollectionsStay
  <2> QED
    BY <1>1, <1>2, <1>3, <2>1, <2>3, <2>4 DEF s, c
<1>5. CASE ~Exists(n)
  <2>1. s = NewCollection(tx, n, TRUE) /\ c = NextColl(tx)
    BY <1>5 DEF Created, CollectionId
  <2>2. s.maxColl <= MaxColl
    OBVIOUS
  <2> HIDE DEF s, c
  <2>3. Founds(tx, s, c, n, TRUE) /\ s.maxColl = c /\ s.cw = tx.cw
    BY <1>1, <2>1, NewCollectionView
  <2>4. c <= MaxColl
    BY <2>2, <2>3
  <2>5. c \in CollId
    BY <1>1, <1>2, <1>3, <2>1, <2>4, NewIdIsFree
  <2>6. Good(s) /\ Sound(s) /\ IdsAreFresh(s) /\ CollectionsStay(s) /\ NoRecords(s)
    BY <1>1, <1>2, <1>3, <2>1, <2>4, NewCollectionKnows
  <2>7. ~HasWriter(s)
    BY <1>3, <2>3 DEF HasWriter
  <2>8. Has(s, PropertiesKey(c))
    BY <2>3 DEF Founds, IsNew
  <2> QED
    BY <2>5, <2>6, <2>7, <2>8 DEF s, c
<1> QED
  BY <1>4, <1>5

\* What create_index writes, over t: the entries g, and the index with its name.
LEMMA IndexedView ==
    ASSUME NEW t, IsTransaction(t), NEW c, NEW x, NEW i, NEW unique, NEW g,
           \A k \in DOMAIN g : TagOf(k) = "entry" /\ g[k] \in RecordId,
           NEW w, w = PutAll(Put(IndexNumbering(t, c, i), IndexNameKey(c, x), i), g),
           NEW z, z = Put(w, IndexKey(c, i), [name |-> x, unique |-> unique])
    PROVE  /\ Indexes(t, z, c, x, i, unique, DOMAIN g)
           /\ \A k : TagOf(k) = "record" => (Writes(z, k) <=> Writes(t, k))
           /\ IsTransaction(z) /\ z.cw = t.cw /\ z.maxColl = t.maxColl
           /\ z.maxRecord = t.maxRecord /\ z.maxIndex = With(t.maxIndex, c, i)
           /\ w.maxColl = t.maxColl /\ w.maxIndex = With(t.maxIndex, c, i)
<1> DEFINE u == IndexNumbering(t, c, i)
           v == Put(u, IndexNameKey(c, x), i)
           entry == [name |-> x, unique |-> unique]
<1>1. /\ IsTransaction(u) /\ u.cw = t.cw /\ u.pending = t.pending /\ u.maxColl = t.maxColl
      /\ u.maxRecord = t.maxRecord /\ u.maxIndex = With(t.maxIndex, c, i)
  BY IndexNumberingView
<1>2. w = PutAll(v, g) /\ z = Put(w, IndexKey(c, i), entry)
  OBVIOUS
<1> HIDE DEF u, entry
<1>3. /\ \A k : Has(u, k) <=> Has(t, k)
      /\ \A k : At(u, k) = At(t, k)
      /\ \A k : Writes(u, k) <=> Writes(t, k)
  BY <1>1, SameView
<1>4. /\ Keeps(u, v)
      /\ \A k : Has(v, k) <=> Has(u, k) \/ k = IndexNameKey(c, x)
      /\ \A k : At(v, k) = IF k = IndexNameKey(c, x) THEN i ELSE At(u, k)
      /\ \A k : Writes(v, k) <=> Writes(u, k) \/ k = IndexNameKey(c, x)
  BY <1>1, PutView
<1> HIDE DEF v
<1>5. /\ Keeps(v, w)
      /\ \A k : Has(w, k) <=> Has(v, k) \/ k \in DOMAIN g
      /\ \A k : At(w, k) = IF k \in DOMAIN g THEN g[k] ELSE At(v, k)
      /\ \A k : Writes(w, k) <=> Writes(v, k) \/ k \in DOMAIN g
  <2>1. IsTransaction(v)
    BY <1>4 DEF Keeps
  <2> QED
    BY <1>2, <2>1, PutAllView
<1>6. /\ Keeps(w, z)
      /\ \A k : Has(z, k) <=> Has(w, k) \/ k = IndexKey(c, i)
      /\ \A k : At(z, k) = IF k = IndexKey(c, i) THEN entry ELSE At(w, k)
      /\ \A k : Writes(z, k) <=> Writes(w, k) \/ k = IndexKey(c, i)
  <2>1. IsTransaction(w)
    BY <1>5 DEF Keeps
  <2> DEFINE key == IndexKey(c, i)
             p == Put(w, key, entry)
  <2> HIDE DEF key
  <2>2. /\ Keeps(w, p)
        /\ \A k : Has(p, k) <=> Has(w, k) \/ k = key
        /\ \A k : At(p, k) = IF k = key THEN entry ELSE At(w, k)
        /\ \A k : Writes(p, k) <=> Writes(w, k) \/ k = key
    BY <2>1, PutView
  <2>3. z = p /\ key = IndexKey(c, i)
    BY <1>2 DEF key
  <2> HIDE DEF p
  <2> QED
    BY <2>2, <2>3
<1>7. /\ IndexNameKey(c, x) \notin DOMAIN g /\ IndexKey(c, i) \notin DOMAIN g
      /\ IndexNameKey(c, x) # IndexKey(c, i)
      /\ TagOf(IndexNameKey(c, x)) # "record" /\ TagOf(IndexKey(c, i)) # "record"
  BY KeyParts
<1>8. Indexes(t, z, c, x, i, unique, DOMAIN g)
  <2>1. \A k : Has(z, k) <=> \/ Has(t, k) \/ k = IndexNameKey(c, x)
                             \/ k = IndexKey(c, i) \/ k \in DOMAIN g
    BY <1>3, <1>4, <1>5, <1>6
  <2>2. At(z, IndexNameKey(c, x)) = i /\ At(z, IndexKey(c, i)) = entry
    BY <1>4, <1>5, <1>6, <1>7
  <2>3. \A k \in DOMAIN g : At(z, k) \in RecordId
    BY <1>5, <1>6, <1>7
  <2>4. \A k : k # IndexNameKey(c, x) /\ k # IndexKey(c, i) /\ k \notin DOMAIN g => At(z, k) = At(t, k)
    BY <1>3, <1>4, <1>5, <1>6
  <2> QED
    BY <2>1, <2>2, <2>3, <2>4 DEF Indexes, entry
<1>9. \A k : TagOf(k) = "record" => (Writes(z, k) <=> Writes(t, k))
  BY <1>3, <1>4, <1>5, <1>6, <1>7
<1>10. /\ IsTransaction(z) /\ z.cw = t.cw /\ z.maxColl = t.maxColl
       /\ z.maxRecord = t.maxRecord /\ z.maxIndex = With(t.maxIndex, c, i)
       /\ w.maxColl = t.maxColl /\ w.maxIndex = With(t.maxIndex, c, i)
  BY <1>1, <1>4, <1>5, <1>6 DEF Keeps
<1> QED
  BY <1>8, <1>9, <1>10

\* create_index writes an entry for every record that is committed, and the command
\* writes no others.
LEMMA CreateIndexKeeps ==
    ASSUME IInv, NEW n \in Name, NEW x \in IndexName, NEW unique \in BOOLEAN,
           CreateIndex(n, x, unique)
    PROVE  IInv'
<1> DEFINE t == Created(tx, n)
           c == CollectionId(tx, n)
           i == NextIndex(t, c)
           entries == [k \in KeysOf("record", c) |->
                          EntryKey(c, i, store[k].value, k[3], unique)]
           written == {k[3] : k \in DOMAIN entries}
           of(e) == Largest({r \in written : entries[RecordKey(c, r)] = e})
           E == {entries[k] : k \in DOMAIN entries}
           g == [e \in E |-> of(e)]
           w == PutAll(Put(IndexNumbering(t, c, i), IndexNameKey(c, x), i), g)
           z == Put(w, IndexKey(c, i), [name |-> x, unique |-> unique])
<1>1. InBounds(w) /\ Batch("create_indexes", z)
  BY DEF CreateIndex, IndexNumbering
<1>2. Does("create_indexes")
  BY <1>1 DEF Batch
<1>3. Sound(NoTransaction)
  BY DEF IInv
<1>4. IsTransaction(t)
  <2>1. Good(tx)
    BY <1>2, Ready DEF Adding
  <2> QED
    BY <2>1, NewCollectionView DEF Created, Good
<1> HIDE DEF t, c, i
<1>5. /\ \A k \in KeysOf("record", c) : k[3] \in RecordId /\ k = RecordKey(c, k[3])
      /\ \A k \in KeysOf("record", c) : store[k] \in Document
      /\ \A r : RecordKey(c, r) \in DOMAIN store =>
             RecordKey(c, r) \in KeysOf("record", c) /\ RecordKey(c, r)[3] = r
  BY <1>3, RecordsRead
<1>6. DOMAIN entries = KeysOf("record", c)
  OBVIOUS
<1>7. \A e \in E : of(e) \in RecordId
  <2> DEFINE S == KeysOf("record", c)
  <2> HIDE DEF entries
  <2> SUFFICES ASSUME NEW e \in E
               PROVE  of(e) \in RecordId
    OBVIOUS
  <2>1. DOMAIN entries = S /\ \A k \in S : k[3] \in RecordId /\ k = RecordKey(c, k[3])
    BY <1>5, <1>6
  <2>2. \E k \in S : e = entries[k]
    BY <2>1
  <2>3. of(e) = LastWith(entries, c, e)
    BY DEF LastWith
  <2> HIDE DEF S, E, of
  <2>4. LastWith(entries, c, e) \in RecordId
    BY <2>1, <2>2, LastIsRecord
  <2> QED
    BY <2>3, <2>4
<1>8. \A e \in E : \E v \in EntryValue, r \in RecordId : e = EntryKey(c, i, v, r, unique)
  <2> SUFFICES ASSUME NEW k \in KeysOf("record", c)
               PROVE  \E v \in EntryValue, r \in RecordId :
                          EntryKey(c, i, store[k].value, k[3], unique) = EntryKey(c, i, v, r, unique)
    OBVIOUS
  <2>1. k[3] \in RecordId /\ store[k].value \in EntryValue
    BY <1>5, DocumentValues
  <2> QED
    BY <2>1
<1>9. \A r : RecordKey(c, r) \in DOMAIN store =>
          EntryKey(c, i, store[RecordKey(c, r)].value, r, unique) \in E
  <2> SUFFICES ASSUME NEW r, RecordKey(c, r) \in DOMAIN store
               PROVE  EntryKey(c, i, store[RecordKey(c, r)].value, r, unique) \in E
    OBVIOUS
  <2>1. RecordKey(c, r) \in KeysOf("record", c) /\ RecordKey(c, r)[3] = r
    BY <1>5
  <2>2. entries[RecordKey(c, r)] = EntryKey(c, i, store[RecordKey(c, r)].value, r, unique)
    BY <2>1
  <2> QED
    BY <2>1, <2>2
<1> HIDE DEF E, of
<1>10. DOMAIN g = E /\ \A k \in E : g[k] = of(k)
  OBVIOUS
<1> HIDE DEF g
<1>11. \A k \in DOMAIN g : TagOf(k) = "entry" /\ g[k] \in RecordId
  BY <1>7, <1>8, <1>10, EntryParts
<1>12. /\ Indexes(t, z, c, x, i, unique, DOMAIN g)
       /\ \A k : TagOf(k) = "record" => (Writes(z, k) <=> Writes(t, k))
       /\ IsTransaction(z) /\ z.cw = t.cw /\ z.maxColl = t.maxColl
       /\ z.maxRecord = t.maxRecord /\ z.maxIndex = With(t.maxIndex, c, i)
       /\ w.maxColl = t.maxColl /\ w.maxIndex = With(t.maxIndex, c, i)
  BY <1>4, <1>11, IndexedView
<1> HIDE DEF z, w
<1>13. t.maxColl <= MaxColl
  <2>1. w.maxColl <= MaxColl
    BY <1>1 DEF InBounds
  <2> QED
    BY <1>12, <2>1
<1>14. /\ Good(t) /\ Sound(t) /\ ~HasWriter(t) /\ IdsAreFresh(t) /\ CollectionsStay(t)
       /\ NoRecords(t) /\ c \in CollId /\ Has(t, PropertiesKey(c))
  BY <1>2, <1>13, IndexedCollection DEF t, c
<1> DEFINE m == t.maxIndex
           ids == With(m, c, i)
<1>15. z.maxIndex = ids /\ w.maxIndex = ids /\ t.maxIndex = m
  BY <1>12
<1> HIDE DEF m
<1>16. /\ DOMAIN ids = DOMAIN m \cup {c} /\ ids[c] = i
       /\ \A d \in DOMAIN m : d # c => ids[d] = m[d]
  BY DEF With, Overlay, ids
<1> HIDE DEF ids
<1>17. i \in Nat \ {0}
  BY <1>3, <1>14, NextIds DEF Good, IdsTyped, i
<1>18. i \in IndexId /\ i # PrimaryIndex
  <2>1. c \in DOMAIN w.maxIndex /\ w.maxIndex[c] = i
    BY <1>15, <1>16
  <2>2. w.maxIndex[c] <= MaxIndex
    BY <1>1, <2>1 DEF InBounds
  <2>3. i <= MaxIndex
    BY <2>1, <2>2
  <2> QED
    BY <1>17, <2>3, BoundsAssumption DEF IndexId, PrimaryIndex
<1>19. \A r \in RecordId : /\ Has(t, RecordKey(c, r)) <=> RecordKey(c, r) \in DOMAIN store
                           /\ At(t, RecordKey(c, r)) = store[RecordKey(c, r)]
  BY <1>14 DEF NoRecords, Writes, Has, At
<1>20. x \in AnyIndexName
  BY DEF AnyIndexName
<1>21. Sound(z)
  <2>1. \A r \in RecordId : Has(t, RecordKey(c, r)) =>
            EntryKey(c, i, At(t, RecordKey(c, r)).value, r, unique) \in DOMAIN g
    BY <1>9, <1>10, <1>19
  <2>2. \A k \in DOMAIN g : \E v \in EntryValue, r \in RecordId : k = EntryKey(c, i, v, r, unique)
    BY <1>8, <1>10
  <2> QED
    BY <1>12, <1>14, <1>18, <1>20, <2>1, <2>2, IndexSound
<1>22. IdsTyped(z)
  <2>1. IdsTyped(t)
    BY <1>14 DEF Good
  <2>2. \A d \in DOMAIN z.maxIndex : z.maxIndex[d] \in Nat
    <3>1. \A d \in DOMAIN t.maxIndex : t.maxIndex[d] \in Nat
      BY <2>1 DEF IdsTyped
    <3> QED
      BY <1>15, <1>16, <1>17, <3>1
  <2> QED
    BY <1>12, <2>1, <2>2 DEF IdsTyped
<1>23. Good(z)
  BY <1>12, <1>14, <1>22 DEF Good
<1>24. \A k : TagOf(k) = "record" \/ TagOf(k) = "properties" => (Has(z, k) <=> Has(t, k))
  <2>1. \A k \in DOMAIN g : TagOf(k) = "entry"
    BY <1>11
  <2> QED
    BY <1>12, <2>1, KeyParts DEF Indexes
<1>25. IdsAreFresh(z)
  <2>1. NextColl(z) = NextColl(t)
    BY <1>12 DEF NextColl
  <2>2. \A d : NextRecord(z, d) = NextRecord(t, d)
    BY <1>12 DEF NextRecord
  <2> QED
    BY <1>14, <1>24, <2>1, <2>2, KeyParts DEF IdsAreFresh
<1>26. CollectionsStay(z)
  BY <1>14, <1>24, KeyParts DEF CollectionsStay
<1>27. NoRecords(z)
  BY <1>12, <1>14, KeyParts DEF NoRecords
<1>28. ~HasWriter(z)
  BY <1>12, <1>14 DEF HasWriter
<1>29. KnowsFor("create_indexes", z)
  BY <1>25, <1>26, <1>27, <1>28 DEF KnowsFor, Adding, Erasing, Writing
<1> QED
  BY <1>1, <1>21, <1>23, <1>29, BatchKeeps DEF Adding

-----------------------------------------------------------------------------
(* The commands of one operation.                                          *)

\* Such a command begins with nothing written.
LEMMA SingleStart ==
    ASSUME IInv, tx.command = "none"
    PROVE  /\ tx = NoTransaction /\ Good(tx) /\ Sound(tx) /\ Sound(NoTransaction)
           /\ IdsAreFresh(tx) /\ ~HasWriter(tx)
           /\ \A k : Has(tx, k) <=> k \in DOMAIN store
           /\ \A k : At(tx, k) = store[k]
<1>1. tx = NoTransaction /\ Sound(NoTransaction) /\ Sound(tx)
  BY DEF IInv, Knows
<1>2. /\ Good(NoTransaction) /\ KnowsFor("insert", NoTransaction)
      /\ KnowsFor("single", NoTransaction)
  BY <1>1, StartKnows
<1>3. IdsAreFresh(NoTransaction) /\ ~HasWriter(NoTransaction)
  BY <1>2 DEF KnowsFor, Adding, Writing
<1> QED
  BY <1>1, <1>2, <1>3, NoView

\* It is done with what it makes when that is sound.
LEMMA SingleEnds ==
    ASSUME IInv, NEW u, Single(u), Good(u), Sound(u), ~HasWriter(u)
    PROVE  IInv'
<1>1. KnowsFor("single", u)
  BY DEF KnowsFor, Adding, Erasing, Writing
<1> QED
  BY <1>1, SingleKeeps

\* A new collection is the first thing that a transaction makes.
LEMMA FirstCollection ==
    ASSUME IInv, tx.command = "none", NEW n \in Name, NEW autoIndex,
           InBounds(NewCollection(tx, n, autoIndex))
    PROVE  /\ Good(NewCollection(tx, n, autoIndex)) /\ Sound(NewCollection(tx, n, autoIndex))
           /\ ~HasWriter(NewCollection(tx, n, autoIndex))
<1> DEFINE u == NewCollection(tx, n, autoIndex)
<1>1. Good(tx) /\ Sound(tx) /\ Sound(NoTransaction) /\ IdsAreFresh(tx) /\ ~HasWriter(tx)
  BY SingleStart
<1>2. u.maxColl = NextColl(tx) /\ u.cw = tx.cw
  BY <1>1, NewCollectionView
<1>3. NextColl(tx) <= MaxColl
  <2>1. u.maxColl <= MaxColl
    BY DEF InBounds
  <2> QED
    BY <1>2, <2>1
<1>4. ~HasWriter(u)
  BY <1>1, <1>2 DEF HasWriter
<1> QED
  BY <1>1, <1>3, <1>4, NewCollectionKnows

\* base_create_collection, on its own.
LEMMA CreateCollectionKeeps ==
    ASSUME IInv, NEW n \in Name, NEW autoIndex \in BOOLEAN, CreateCollection(n, autoIndex)
    PROVE  IInv'
<1> DEFINE u == NewCollection(tx, n, autoIndex)
<1>1. InBounds(u) /\ Single(u) /\ tx.command = "none"
  BY DEF CreateCollection, Single
<1>2. Good(u) /\ Sound(u) /\ ~HasWriter(u)
  BY <1>1, FirstCollection
<1> HIDE DEF u
<1> QED
  BY <1>1, <1>2, SingleEnds

\* What a key can begin with.
LEMMA KeyTags ==
    ASSUME NEW k, IsKey(k)
    PROVE  /\ TagOf(k) \in {"name", "properties", "indexname", "index", "record", "entry"}
           /\ TagOf(k) = "name" => CollOf(k) \in Name /\ k = NameKey(CollOf(k))
BY KeyParts, EntryParts DEF IsKey, IsEntry

\* The keys that base_drop_collection finds: all of a collection but its name.
LEMMA CollectionKeys ==
    ASSUME Sound(NoTransaction), NEW c
    PROVE  \A k : k \in KeysOfCollection(c) <=>
               k \in DOMAIN store /\ TagOf(k) # "name" /\ CollOf(k) = c
<1>1. \A k \in DOMAIN store : IsKey(k)
  BY ShapedKeys, NoView DEF Sound
<1>2. \A k : k \in KeysOfCollection(c) <=>
          /\ k \in DOMAIN store /\ CollOf(k) = c
          /\ TagOf(k) \in {"properties", "indexname", "index", "record", "entry"}
  BY KeysSelect DEF KeysOfCollection
<1> QED
  BY <1>1, <1>2, KeyTags

\* A transaction that has written nothing yet erases keys of the store.
LEMMA FirstErased ==
    ASSUME IInv, tx.command = "none", NEW S
    PROVE  /\ Good(Erase(tx, S)) /\ ~HasWriter(Erase(tx, S))
           /\ PartOfWhat(tx, Erase(tx, S))
           /\ \A k : Has(Erase(tx, S), k) <=> k \in DOMAIN store /\ k \notin S
<1> DEFINE u == Erase(tx, S)
<1>1. Good(tx) /\ ~HasWriter(tx) /\ \A k : Has(tx, k) <=> k \in DOMAIN store
  BY SingleStart
<1>2. /\ Keeps(tx, u)
      /\ \A k : Has(u, k) <=> Has(tx, k) /\ k \notin S
      /\ \A k : k \notin S => At(u, k) = At(tx, k)
  BY <1>1, EraseView DEF Good
<1> HIDE DEF u
<1>3. Good(u)
  BY <1>1, <1>2 DEF Good, Keeps, IdsTyped
<1>4. ~HasWriter(u)
  BY <1>1, <1>2 DEF HasWriter, Keeps
<1> QED
  BY <1>1, <1>2, <1>3, <1>4 DEF u, PartOfWhat

\* A collection goes with all that is its own: no other name leads to it.
LEMMA FirstDropped ==
    ASSUME IInv, tx.command = "none", NEW n \in Name
    PROVE  /\ Good(Dropped(tx, n)) /\ Sound(Dropped(tx, n)) /\ ~HasWriter(Dropped(tx, n))
           /\ PartOfWhat(tx, Dropped(tx, n))
<1> DEFINE c == store[NameKey(n)]
           S == {NameKey(n)} \cup KeysOfCollection(c)
           u == Erase(tx, S)
<1>1. /\ Good(tx) /\ Sound(tx) /\ Sound(NoTransaction) /\ ~HasWriter(tx)
      /\ \A k : Has(tx, k) <=> k \in DOMAIN store
      /\ \A k : At(tx, k) = store[k]
  BY SingleStart
<1>2. CASE ~Exists(n)
  BY <1>1, <1>2 DEF Dropped, PartOfWhat
<1>3. CASE Exists(n)
  <2>1. Dropped(tx, n) = u /\ NameKey(n) \in DOMAIN store
    BY <1>3 DEF Dropped, Exists
  <2> HIDE DEF c
  <2>2. \A k : k \in S <=> \/ k = NameKey(n)
                           \/ k \in DOMAIN store /\ TagOf(k) # "name" /\ CollOf(k) = c
    BY <1>1, CollectionKeys
  <2> HIDE DEF S
  <2>3. /\ Good(u) /\ ~HasWriter(u) /\ PartOfWhat(tx, u)
        /\ \A k : Has(u, k) <=> k \in DOMAIN store /\ k \notin S
    BY FirstErased
  <2> HIDE DEF u
  <2>4. \A k : TagOf(k) = "name" /\ k \in DOMAIN store => k = NameKey(CollOf(k))
    BY <1>1, ShapedKeys, KeyTags DEF Sound
  <2>5. Drops(tx, u, {n}, {c})
    BY <1>1, <2>2, <2>3, <2>4, KeyParts DEF Drops
  <2>6. \A m \in Name : Has(tx, NameKey(m)) /\ At(tx, NameKey(m)) = c => m = n
    <3>1. Has(tx, NameKey(n)) /\ At(tx, NameKey(n)) = c
      BY <1>1, <2>1 DEF c
    <3>2. Named(tx)
      BY <1>1 DEF Sound
    <3> QED
      BY <3>1, <3>2 DEF Named
  <2>7. Sound(u)
    BY <1>1, <2>5, <2>6, DropsSound
  <2> QED
    BY <2>1, <2>3, <2>7
<1> QED
  BY <1>2, <1>3

\* base_drop_collection, on its own.
LEMMA DropCollectionKeeps ==
    ASSUME IInv, NEW n \in Name, DropCollection(n)
    PROVE  IInv'
<1> DEFINE u == Dropped(tx, n)
<1>1. Single(u) /\ tx.command = "none"
  BY DEF DropCollection, Single
<1>2. Good(u) /\ Sound(u) /\ ~HasWriter(u)
  BY <1>1, FirstDropped
<1> HIDE DEF u
<1> QED
  BY <1>1, <1>2, SingleEnds

\* drop_database: every collection that a name leads to, and all names.
LEMMA DropDatabaseKeeps ==
    ASSUME IInv, DropDatabase
    PROVE  IInv'
<1> DEFINE C == {store[k] : k \in Keys("name")}
           S == Keys("name") \cup UNION {KeysOfCollection(c) : c \in C}
           u == Erase(tx, S)
<1>1. Single(u) /\ tx.command = "none"
  BY DEF DropDatabase, Single
<1>2. /\ Good(tx) /\ Sound(tx) /\ Sound(NoTransaction)
      /\ \A k : Has(tx, k) <=> k \in DOMAIN store
  BY <1>1, SingleStart
<1> HIDE DEF C
<1>3. \A k : k \in S <=> /\ k \in DOMAIN store
                         /\ TagOf(k) = "name" \/ CollOf(k) \in C
  <2>1. \A k : k \in S <=> k \in Keys("name") \/ \E c \in C : k \in KeysOfCollection(c)
    OBVIOUS
  <2>2. \A k, c : k \in KeysOfCollection(c) <=> k \in DOMAIN store /\ TagOf(k) # "name" /\ CollOf(k) = c
    BY <1>2, CollectionKeys
  <2>3. \A k : k \in Keys("name") <=> k \in DOMAIN store /\ TagOf(k) = "name"
    BY KeysSelect
  <2> HIDE DEF S
  <2> QED
    BY <2>1, <2>2, <2>3
<1> HIDE DEF S
<1>4. /\ Good(u) /\ ~HasWriter(u) /\ PartOfWhat(tx, u)
      /\ \A k : Has(u, k) <=> k \in DOMAIN store /\ k \notin S
  BY <1>1, FirstErased
<1> HIDE DEF u
<1>5. \A k : TagOf(k) = "name" /\ k \in DOMAIN store => CollOf(k) \in Name
  BY <1>2, ShapedKeys, KeyTags DEF Sound
<1>6. Drops(tx, u, Name, C)
  BY <1>2, <1>3, <1>4, <1>5 DEF Drops
<1>7. Sound(u)
  BY <1>2, <1>6, DropsSound
<1> QED
  BY <1>1, <1>4, <1>7, SingleEnds

\* base_clear_collection, which makes the collection if need be.
LEMMA ClearCollectionKeeps ==
    ASSUME IInv, NEW n \in Name, ClearCollection(n)
    PROVE  IInv'
<1> DEFINE c == store[NameKey(n)]
           S == KeysOf("record", c) \cup KeysOf("entry", c)
           u == Erase(tx, S)
           w == NewCollection(tx, n, TRUE)
<1>1. InBounds(Cleared(tx, n)) /\ Single(Cleared(tx, n)) /\ tx.command = "none"
  BY DEF ClearCollection, Single
<1>2. /\ Good(tx) /\ Sound(tx) /\ \A k : Has(tx, k) <=> k \in DOMAIN store
      /\ \A k : At(tx, k) = store[k]
  BY <1>1, SingleStart
<1>3. CASE ~Exists(n)
  <2>1. InBounds(w) /\ Single(w)
    BY <1>1, <1>3 DEF Cleared, Created
  <2>2. Good(w) /\ Sound(w) /\ ~HasWriter(w)
    BY <1>1, <2>1, FirstCollection
  <2> HIDE DEF w
  <2> QED
    BY <2>1, <2>2, SingleEnds
<1>4. CASE Exists(n)
  <2>1. Single(u) /\ NameKey(n) \in DOMAIN store
    BY <1>1, <1>4 DEF Cleared, Exists
  <2>2. c \in CollId
    BY <1>2, <2>1 DEF Sound, Typed
  <2> HIDE DEF c
  <2>3. \A k : k \in S <=> /\ k \in DOMAIN store /\ CollOf(k) = c
                           /\ TagOf(k) = "record" \/ TagOf(k) = "entry"
    BY KeysSelect
  <2> HIDE DEF S
  <2>4. /\ Good(u) /\ ~HasWriter(u) /\ PartOfWhat(tx, u)
        /\ \A k : Has(u, k) <=> k \in DOMAIN store /\ k \notin S
    BY <1>1, FirstErased
  <2> HIDE DEF u
  <2>5. \A k : Has(u, k) <=>
            Has(tx, k) /\ ~((TagOf(k) = "record" \/ TagOf(k) = "entry") /\ CollOf(k) = c)
    BY <1>2, <2>3, <2>4
  <2>6. Sound(u)
    BY <1>2, <2>2, <2>4, <2>5, ClearSound
  <2> QED
    BY <2>1, <2>4, <2>6, SingleEnds
<1> QED
  BY <1>3, <1>4

\* A collection that exists gets another name (base_rename_collection).
LEMMA RenamedKeeps ==
    ASSUME IInv, tx.command = "none", NEW old \in Name, NEW new \in Name, Exists(old),
           NEW t, Good(t), Sound(t), ~HasWriter(t), PartOfWhat(tx, t),
           Single(Renamed(t, old, new))
    PROVE  IInv'
<1> DEFINE c == store[NameKey(old)]
           u == Erase(t, {NameKey(old)})
           v == Put(u, NameKey(new), c)
           w == Put(v, PropertiesKey(c), new)
<1>1. /\ Sound(NoTransaction)
      /\ \A k : Has(tx, k) <=> k \in DOMAIN store
      /\ \A k : At(tx, k) = store[k]
  BY SingleStart
<1>2. Has(NoTransaction, NameKey(old)) /\ At(NoTransaction, NameKey(old)) = c
  BY NoView DEF Exists
<1>3. c \in CollId /\ PropertiesKey(c) \in DOMAIN store /\ store[PropertiesKey(c)] = old
  BY <1>1, <1>2, NoView DEF Sound, Typed, Named
<1>4. Renamed(t, old, new) = w
  BY <1>3 DEF Renamed
<1> HIDE DEF c
<1>5. /\ Keeps(t, u)
      /\ \A k : Has(u, k) <=> Has(t, k) /\ k \notin {NameKey(old)}
      /\ \A k : k \notin {NameKey(old)} => At(u, k) = At(t, k)
  BY EraseView DEF Good
<1> HIDE DEF u
<1>6. /\ Keeps(u, v)
      /\ \A k : Has(v, k) <=> Has(u, k) \/ k = NameKey(new)
      /\ \A k : At(v, k) = IF k = NameKey(new) THEN c ELSE At(u, k)
  <2>1. IsTransaction(u)
    BY <1>5 DEF Keeps
  <2> QED
    BY <2>1, PutView
<1> HIDE DEF v
<1>7. /\ Keeps(v, w)
      /\ \A k : Has(w, k) <=> Has(v, k) \/ k = PropertiesKey(c)
      /\ \A k : At(w, k) = IF k = PropertiesKey(c) THEN new ELSE At(v, k)
  <2>1. IsTransaction(v)
    BY <1>6 DEF Keeps
  <2> QED
    BY <2>1, PutView
<1> HIDE DEF w
<1>8. NameKey(new) # PropertiesKey(c)
  BY KeyParts
<1>9. Renames(t, w, c, old, new)
  BY <1>5, <1>6, <1>7, <1>8 DEF Renames
<1>10. ASSUME NEW m \in Name \ {old, new}, Has(t, NameKey(m))
       PROVE  At(t, NameKey(m)) # c
  <2>1. Has(NoTransaction, NameKey(m)) /\ At(t, NameKey(m)) = At(NoTransaction, NameKey(m))
    BY <1>1, <1>10, NoView DEF PartOfWhat
  <2>2. At(NoTransaction, PropertiesKey(At(NoTransaction, NameKey(m)))) = m
    BY <1>1, <2>1 DEF Sound, Named
  <2>3. At(NoTransaction, PropertiesKey(c)) = old
    BY <1>3, NoView
  <2> QED
    BY <2>1, <2>2, <2>3
<1>11. Sound(w)
  BY <1>3, <1>9, <1>10, RenameSound
<1>12. Good(w)
  BY <1>5, <1>6, <1>7 DEF Good, Keeps, IdsTyped
<1>13. ~HasWriter(w)
  BY <1>5, <1>6, <1>7 DEF HasWriter, Keeps
<1> QED
  BY <1>4, <1>11, <1>12, <1>13, SingleEnds

\* renameCollection, with and without a collection that is dropped for it.
LEMMA RenameKeeps ==
    ASSUME IInv, NEW old \in Name, NEW new \in Name, NEW dropTarget \in BOOLEAN,
           Rename(old, new, dropTarget)
    PROVE  IInv'
<1> DEFINE t == IF dropTarget THEN Dropped(tx, new) ELSE tx
           u == IF Exists(old) THEN Renamed(t, old, new) ELSE Created(t, new)
           w == NewCollection(tx, new, TRUE)
<1>1. InBounds(u) /\ Single(u) /\ tx.command = "none"
  BY DEF Rename, Single
<1>2. Good(t) /\ Sound(t) /\ ~HasWriter(t) /\ PartOfWhat(tx, t)
  BY <1>1, SingleStart, FirstDropped DEF PartOfWhat
<1>3. Exists(new) \/ t = tx
  BY DEF Dropped
<1> HIDE DEF t
<1>4. CASE Exists(old)
  BY <1>1, <1>2, <1>4, RenamedKeeps
<1>5. CASE ~Exists(old) /\ Exists(new)
  <2>1. u = t
    BY <1>5 DEF Created
  <2> HIDE DEF u
  <2> QED
    BY <1>1, <1>2, <2>1, SingleEnds
<1>6. CASE ~Exists(old) /\ ~Exists(new)
  <2>1. u = w
    BY <1>3, <1>6 DEF Created
  <2> HIDE DEF u
  <2>2. Good(w) /\ Sound(w) /\ ~HasWriter(w)
    BY <1>1, <2>1, FirstCollection
  <2> HIDE DEF w
  <2> QED
    BY <1>1, <2>1, <2>2, SingleEnds
<1> QED
  BY <1>4, <1>5, <1>6

-----------------------------------------------------------------------------
(* commit.                                                                 *)

\* What is committed is what the transaction would leave behind.
LEMMA CommitView ==
    ASSUME Commit
    PROVE  /\ \A k : k \in DOMAIN store' <=> Has(tx, k)
           /\ \A k \in DOMAIN store' : store'[k] = At(tx, k)
<1> DEFINE before == [k \in DOMAIN store |-> <<store[k]>>]
           written == Overlay(before, tx.pending)
<1>1. store' = [k \in {j \in DOMAIN written : written[j] # Tombstone} |-> written[k][1]]
  BY DEF Commit
<1>2. /\ DOMAIN written = DOMAIN store \cup DOMAIN tx.pending
      /\ \A k \in DOMAIN written :
             written[k] = IF k \in DOMAIN tx.pending THEN tx.pending[k] ELSE <<store[k]>>
  BY DEF Overlay
<1> HIDE DEF written
<1>3. \A k : <<store[k]>> # Tombstone /\ <<store[k]>>[1] = store[k]
  BY DEF Tombstone
<1> QED
  BY <1>1, <1>2, <1>3 DEF Has, At

\* A transaction that begins knows what it needs, after a commit or without one.
LEMMA BeginsAgain ==
    ASSUME IInv, Sound(NoTransaction)', tx' = NoTransaction
    PROVE  IInv'
<1>1. Good(NoTransaction) /\ ~HasWriter(NoTransaction) /\ NoTransaction.count = 0
  <2>1. KnowsFor("single", NoTransaction)
    BY StartKnows DEF IInv
  <2> QED
    BY <2>1, StartKnows DEF IInv, KnowsFor, Writing
<1>2. NoTransaction.command = "none"
  BY DEF NoTransaction
<1>3. Sound(tx)'
  <2>1. /\ \A k : Has(tx, k)' <=> Has(NoTransaction, k)'
        /\ \A k : At(tx, k)' = At(NoTransaction, k)'
    BY DEF Has, At
  <2>2. Shaped(tx)'
    BY <2>1 DEF Sound, Shaped
  <2>3. Typed(tx)'
    BY <2>1 DEF Sound, Typed
  <2>4. Named(tx)' /\ Owned(tx)'
    BY <2>1 DEF Sound, Named, Owned
  <2>5. Complete(tx)'
    BY <2>1 DEF Sound, Complete
  <2>6. Leads(tx)'
    BY <2>1 DEF Sound, Leads
  <2> QED
    BY <2>2, <2>3, <2>4, <2>5, <2>6 DEF Sound
<1>4. Good(tx)'
  BY <1>1 DEF Good, IsTransaction, IdsTyped
<1>5. ~HasWriter(tx)'
  BY <1>1 DEF HasWriter
<1>6. tx'.count \in 0..MaxBatch /\ tx'.command = "none"
  BY <1>1, <1>2, OneFits, BoundsAssumption
<1>7. KnowsFor("none", tx)'
  BY <1>5 DEF KnowsFor, Adding, Erasing, Writing
<1>8. Knows(tx)'
  BY <1>4, <1>6, <1>7 DEF Knows
<1> QED
  BY <1>3, <1>8 DEF IInv

\* A commit leaves what the transaction was sure to leave.
LEMMA CommitKeeps ==
    ASSUME IInv, Commit
    PROVE  IInv'
<1>1. /\ \A k : Has(NoTransaction, k)' <=> Has(tx, k)
      /\ \A k : Has(tx, k) => At(NoTransaction, k)' = At(tx, k)
  <2>1. DOMAIN NoTransaction.pending = {}
    BY DEF NoTransaction
  <2>2. /\ \A k : Has(NoTransaction, k)' <=> k \in DOMAIN store'
        /\ \A k : At(NoTransaction, k)' = store'[k]
    BY <2>1 DEF Has, At
  <2> QED
    BY <2>2, CommitView
<1>2. Sound(tx)
  BY DEF IInv
<1>3. Shaped(NoTransaction)'
  <2>1. \A k : Has(tx, k) => IsKey(k)
    BY <1>2, ShapedKeys DEF Sound
  <2> QED
    BY <1>1, <2>1 DEF Shaped
<1>4. Typed(NoTransaction)'
  BY <1>1, <1>2 DEF Sound, Typed
<1>5. Named(NoTransaction)'
  BY <1>1, <1>2 DEF Sound, Named
<1>6. Owned(NoTransaction)'
  BY <1>1, <1>2 DEF Sound, Owned
<1>7. Complete(NoTransaction)'
  BY <1>1, <1>2 DEF Sound, Complete
<1>8. Leads(NoTransaction)'
  BY <1>1, <1>2 DEF Sound, Leads
<1>9. tx' = NoTransaction
  BY DEF Commit
<1> QED
  BY <1>3, <1>4, <1>5, <1>6, <1>7, <1>8, <1>9, BeginsAgain DEF Sound

\* A command that fails leaves what was there.
LEMMA AbandonKeeps ==
    ASSUME IInv, Abandon
    PROVE  IInv'
<1>1. tx' = NoTransaction /\ UNCHANGED store
  BY DEF Abandon
<1>2. /\ \A k : Has(NoTransaction, k)' <=> Has(NoTransaction, k)
      /\ \A k : At(NoTransaction, k)' = At(NoTransaction, k)
  BY <1>1 DEF Has, At
<1>3. Sound(NoTransaction)
  BY DEF IInv
<1>4. Shaped(NoTransaction)' /\ Typed(NoTransaction)'
  <2>1. Shaped(NoTransaction)'
    BY <1>1, <1>2, <1>3 DEF Sound, Shaped
  <2>2. Typed(NoTransaction)'
    BY <1>2, <1>3 DEF Sound, Typed
  <2> QED
    BY <2>1, <2>2
<1>5. Named(NoTransaction)' /\ Owned(NoTransaction)'
  BY <1>2, <1>3 DEF Sound, Named, Owned
<1>6. Complete(NoTransaction)'
  BY <1>2, <1>3 DEF Sound, Complete
<1>7. Leads(NoTransaction)'
  BY <1>2, <1>3 DEF Sound, Leads
<1> QED
  BY <1>1, <1>4, <1>5, <1>6, <1>7, BeginsAgain DEF Sound

-----------------------------------------------------------------------------
(* The invariant, and what follows from it.                                *)

\* An empty store is sound, and nothing is under way.
LEMMA InitInv == Init => IInv
<1> SUFFICES ASSUME Init PROVE IInv
  OBVIOUS
<1>1. DOMAIN store = {} /\ tx = NoTransaction
  BY DEF Init
<1>2. \A k : ~Has(NoTransaction, k)
  BY <1>1, NoView
<1>3. Sound(NoTransaction)
  BY <1>2, ShapedKeys DEF Sound, Typed, Named, Owned, Complete, Leads
<1>4. Good(NoTransaction) /\ NoTransaction.count = 0 /\ KnowsFor("none", NoTransaction)
  BY <1>3, StartKnows
<1>5. NoTransaction.command = "none"
  BY DEF NoTransaction
<1>6. 0 \in 0..MaxBatch
  BY BoundsAssumption
<1>7. Knows(NoTransaction)
  BY <1>4, <1>5, <1>6 DEF Knows
<1> QED
  BY <1>1, <1>3, <1>7 DEF IInv

\* Every command, commit and failure keeps it.
LEMMA StepInv == IInv /\ [Next]_vars => IInv'
<1> SUFFICES ASSUME IInv, [Next]_vars PROVE IInv'
  OBVIOUS
<1>1. ASSUME NEW n \in Name, NEW doc \in Document, Insert(n, doc) \/ Upsert(n, doc)
      PROVE  IInv'
  BY <1>1, InsertKeeps
<1>2. ASSUME NEW n \in Name, NEW doc \in Document, Update(n, doc)
      PROVE  IInv'
  BY <1>2, UpdateKeeps
<1>3. ASSUME NEW n \in Name, NEW id \in Id, Delete(n, id)
      PROVE  IInv'
  BY <1>3, DeleteKeeps
<1>4. ASSUME NEW n \in Name, NEW x \in IndexName, NEW unique \in BOOLEAN, CreateIndex(n, x, unique)
      PROVE  IInv'
  BY <1>4, CreateIndexKeeps
<1>5. ASSUME NEW n \in Name, NEW x \in AnyIndexName, DropIndex(n, x)
      PROVE  IInv'
  BY <1>5, DropIndexKeeps
<1>6. ASSUME NEW n \in Name, NEW autoIndex \in BOOLEAN, CreateCollection(n, autoIndex)
      PROVE  IInv'
  BY <1>6, CreateCollectionKeeps
<1>7. ASSUME NEW n \in Name, DropCollection(n) \/ ClearCollection(n)
      PROVE  IInv'
  BY <1>7, DropCollectionKeeps, ClearCollectionKeeps
<1>8. ASSUME DropDatabase
      PROVE  IInv'
  BY <1>8, DropDatabaseKeeps
<1>9. ASSUME NEW old \in Name, NEW new \in Name, NEW dropTarget \in BOOLEAN,
             Rename(old, new, dropTarget)
      PROVE  IInv'
  BY <1>9, RenameKeeps
<1>10. ASSUME Commit \/ Abandon
       PROVE  IInv'
  BY <1>10, CommitKeeps, AbandonKeeps
<1>11. ASSUME UNCHANGED vars
       PROVE  IInv'
  <2>1. tx' = tx /\ UNCHANGED store
    BY <1>11 DEF vars
  <2> QED
    BY <2>1, Goes DEF IInv
<1> QED
  BY <1>1, <1>2, <1>3, <1>4, <1>5, <1>6, <1>7, <1>8, <1>9, <1>10, <1>11 DEF Next

\* What is committed is sound, so is what the transaction under way would leave
\* behind, and the transaction knows what its command needs.
THEOREM Inductive == Spec => []IInv
<1>1. Init => IInv
  BY InitInv
<1>2. IInv /\ [Next]_vars => IInv'
  BY StepInv
<1> QED
  BY <1>1, <1>2, PTL DEF Spec

\* The keys of the store by what they begin with.
LEMMA StoredKeys ==
    ASSUME Sound(NoTransaction)
    PROVE  /\ \A k \in Keys("name") : k[2] \in Name /\ k = NameKey(k[2])
           /\ \A k \in Keys("properties") : k[2] \in CollId /\ k = PropertiesKey(k[2])
           /\ \A k \in Keys("indexname") : /\ k[2] \in CollId /\ k[3] \in AnyIndexName
                                           /\ k = IndexNameKey(k[2], k[3])
           /\ \A k \in Keys("index") : /\ k[2] \in CollId /\ k[3] \in IndexId
                                       /\ k = IndexKey(k[2], k[3])
           /\ \A k \in Keys("record") : /\ k[2] \in CollId /\ k[3] \in RecordId
                                        /\ k = RecordKey(k[2], k[3])
           /\ \A k \in Keys("entry") :
                  \E c \in CollId, i \in IndexId, v \in EntryValue, r \in RecordId, unique \in BOOLEAN :
                      k = EntryKey(c, i, v, r, unique) /\ k[2] = c /\ k[3] = i /\ k[4] = v
<1>1. \A k \in DOMAIN store : IsKey(k)
  BY ShapedKeys, NoView DEF Sound
<1>2. \A tag : \A k \in Keys(tag) : IsKey(k) /\ TagOf(k) = tag
  BY <1>1, KeysSelect
<1>3. \A k : k[2] = CollOf(k) /\ k[3] = PartOf(k) /\ k[4] = ValueOf(k)
  BY DEF CollOf, PartOf, ValueOf
<1>4. \A k : IsEntry(k) => TagOf(k) = "entry"
  BY EntryParts DEF IsEntry
<1>5. \A k \in Keys("name") : k[2] \in Name /\ k = NameKey(k[2])
  BY <1>2, <1>3, <1>4, KeyParts DEF IsKey
<1>6. \A k \in Keys("properties") : k[2] \in CollId /\ k = PropertiesKey(k[2])
  BY <1>2, <1>3, <1>4, KeyParts DEF IsKey
<1>7. \A k \in Keys("indexname") : /\ k[2] \in CollId /\ k[3] \in AnyIndexName
                                   /\ k = IndexNameKey(k[2], k[3])
  BY <1>2, <1>3, <1>4, KeyParts DEF IsKey
<1>8. \A k \in Keys("index") : /\ k[2] \in CollId /\ k[3] \in IndexId
                               /\ k = IndexKey(k[2], k[3])
  BY <1>2, <1>3, <1>4, KeyParts DEF IsKey
<1>9. \A k \in Keys("record") : /\ k[2] \in CollId /\ k[3] \in RecordId
                                /\ k = RecordKey(k[2], k[3])
  BY <1>2, <1>3, <1>4, KeyParts DEF IsKey
<1>10. ASSUME NEW k \in Keys("entry")
       PROVE  \E c \in CollId, i \in IndexId, v \in EntryValue, r \in RecordId, unique \in BOOLEAN :
                  k = EntryKey(c, i, v, r, unique) /\ k[2] = c /\ k[3] = i /\ k[4] = v
  <2>1. IsEntry(k)
    BY <1>2, KeyParts DEF IsKey
  <2>2. PICK c \in CollId, i \in IndexId, v \in EntryValue, r \in RecordId, unique \in BOOLEAN :
            k = EntryKey(c, i, v, r, unique)
    BY <2>1 DEF IsEntry
  <2>3. CollOf(k) = c /\ PartOf(k) = i /\ ValueOf(k) = v
    BY <2>2, EntryParts
  <2> QED
    BY <1>3, <2>2, <2>3
<1> QED
  BY <1>5, <1>6, <1>7, <1>8, <1>9, <1>10

\* NamesAgree: a name leads to a collection that has this name, whatever was renamed,
\* dropped and made again (base_rename_collection, use_next_collection_id).
THEOREM NamesLeadToTheirCollections == Spec => []NamesAgree
<1>1. IInv => NamesAgree
  <2> SUFFICES ASSUME IInv, NEW k \in Keys("name")
               PROVE  PropertiesKey(store[k]) \in DOMAIN store /\ store[PropertiesKey(store[k])] = k[2]
    BY DEF NamesAgree
  <2>1. Sound(NoTransaction)
    BY DEF IInv
  <2>2. k[2] \in Name /\ k = NameKey(k[2]) /\ k \in DOMAIN store
    BY <2>1, StoredKeys, KeysSelect
  <2>3. Has(NoTransaction, NameKey(k[2])) /\ At(NoTransaction, NameKey(k[2])) = store[k]
    BY <2>2, NoView
  <2>4. /\ Has(NoTransaction, PropertiesKey(store[k]))
        /\ At(NoTransaction, PropertiesKey(store[k])) = k[2]
    BY <2>1, <2>2, <2>3 DEF Sound, Named
  <2> QED
    BY <2>4, NoView
<1> QED
  BY <1>1, Inductive, PTL

\* NothingIsOrphaned: what is dropped leaves nothing for a later collection or index
\* to find (base_drop_collection, drop_index, the ids).
THEOREM NothingIsLeftBehind == Spec => []NothingIsOrphaned
<1>1. IInv => NothingIsOrphaned
  <2> SUFFICES ASSUME IInv PROVE NothingIsOrphaned
    OBVIOUS
  <2>1. Sound(NoTransaction)
    BY DEF IInv
  <2>2. \A c \in CollId, x \in AnyIndexName :
            IndexNameKey(c, x) \in DOMAIN store => PropertiesKey(c) \in DOMAIN store
    BY <2>1, NoView DEF Sound, Owned
  <2>3. \A c \in CollId, i \in IndexId :
            IndexKey(c, i) \in DOMAIN store => PropertiesKey(c) \in DOMAIN store
    BY <2>1, NoView DEF Sound, Owned
  <2>4. \A c \in CollId, r \in RecordId :
            RecordKey(c, r) \in DOMAIN store => PropertiesKey(c) \in DOMAIN store
    BY <2>1, NoView DEF Sound, Owned
  <2>5. ASSUME NEW k \in Keys("record") \cup Keys("index") \cup Keys("indexname")
        PROVE  PropertiesKey(k[2]) \in DOMAIN store
    <3>1. k \in DOMAIN store
      BY KeysSelect
    <3> QED
      BY <2>1, <2>2, <2>3, <2>4, <3>1, StoredKeys
  <2>6. ASSUME NEW k \in Keys("entry")
        PROVE  IndexKey(k[2], k[3]) \in DOMAIN store
    <3>1. k \in DOMAIN store
      BY KeysSelect
    <3>2. \E c \in CollId, i \in IndexId, v \in EntryValue, r \in RecordId, unique \in BOOLEAN :
              k = EntryKey(c, i, v, r, unique) /\ k[2] = c /\ k[3] = i /\ k[4] = v
      BY <2>1, StoredKeys
    <3>3. PICK c \in CollId, i \in IndexId, v \in EntryValue, r \in RecordId, unique \in BOOLEAN :
              k = EntryKey(c, i, v, r, unique) /\ k[2] = c /\ k[3] = i
      BY <3>2
    <3>4. Has(NoTransaction, EntryKey(c, i, v, r, unique))
      BY <3>1, <3>3, NoView
    <3>5. Has(NoTransaction, IndexKey(c, i))
      BY <2>1, <3>4 DEF Sound, Owned
    <3> QED
      BY <3>3, <3>5, NoView
  <2> QED
    BY <2>5, <2>6 DEF NothingIsOrphaned
<1> QED
  BY <1>1, Inductive, PTL

\* IndexesAreComplete: a query finds a document with an index and without it, though
\* operations of one transaction do not see each other (update_indexes_insert,
\* create_index).
THEOREM EveryRecordIsIndexed == Spec => []IndexesAreComplete
<1>1. IInv => IndexesAreComplete
  <2> SUFFICES ASSUME IInv, NEW x \in Keys("index"), ~store[x].unique, NEW k \in KeysOf("record", x[2])
               PROVE  EntryKey(x[2], x[3], store[k].value, k[3], FALSE) \in DOMAIN store
    BY DEF IndexesAreComplete
  <2>1. Sound(NoTransaction)
    BY DEF IInv
  <2> DEFINE c == x[2]
             i == x[3]
             r == k[3]
  <2>2. c \in CollId /\ i \in IndexId /\ x = IndexKey(c, i) /\ x \in DOMAIN store
    BY <2>1, StoredKeys, KeysSelect
  <2>3. r \in RecordId /\ k = RecordKey(c, r) /\ k \in DOMAIN store
    BY <2>1, RecordsRead, KeysSelect
  <2>4. ~store[x].unique
    OBVIOUS
  <2> HIDE DEF c, i, r
  <2>5. Has(NoTransaction, IndexKey(c, i)) /\ At(NoTransaction, IndexKey(c, i)) = store[x]
    BY <2>2, NoView
  <2>6. Has(NoTransaction, RecordKey(c, r)) /\ At(NoTransaction, RecordKey(c, r)) = store[k]
    BY <2>3, NoView
  <2>7. Has(NoTransaction, EntryKey(c, i, At(NoTransaction, RecordKey(c, r)).value, r, FALSE))
    BY <2>1, <2>2, <2>3, <2>4, <2>5, <2>6 DEF Sound, Complete
  <2>8. EntryKey(c, i, store[k].value, r, FALSE) \in DOMAIN store
    BY <2>6, <2>7, NoView
  <2> QED
    BY <2>8 DEF c, i, r
<1> QED
  BY <1>1, Inductive, PTL

\* FoundRecordsExist: the index on _id leads to a record with that _id, which update
\* and delete unwrap (find_record).
THEOREM IdsLeadToTheirRecords == Spec => []FoundRecordsExist
<1>1. IInv => FoundRecordsExist
  <2> SUFFICES ASSUME IInv, NEW k \in Keys("entry"), k[3] = PrimaryIndex
               PROVE  /\ RecordKey(k[2], store[k]) \in DOMAIN store
                      /\ store[RecordKey(k[2], store[k])].id = k[4]
    BY DEF FoundRecordsExist
  <2>1. Sound(NoTransaction)
    BY DEF IInv
  <2>2. k \in DOMAIN store
    BY KeysSelect
  <2>3. \E c \in CollId, i \in IndexId, v \in EntryValue, r \in RecordId, unique \in BOOLEAN :
            k = EntryKey(c, i, v, r, unique) /\ k[2] = c /\ k[3] = i /\ k[4] = v
    BY <2>1, StoredKeys
  <2>4. PICK c \in CollId, i \in IndexId, v \in EntryValue, r \in RecordId, unique \in BOOLEAN :
            k = EntryKey(c, i, v, r, unique) /\ k[2] = c /\ k[3] = i /\ k[4] = v
    BY <2>3
  <2>5. Has(NoTransaction, EntryKey(c, i, v, r, unique)) /\ i = PrimaryIndex
    BY <2>2, <2>4, NoView
  <2>6. unique = TRUE
    BY <2>1, <2>5 DEF Sound, Typed
  <2>7. k = IdKey(c, v)
    <3>1. k = EntryKey(c, PrimaryIndex, v, r, TRUE)
      BY <2>4, <2>5, <2>6
    <3>2. EntryKey(c, PrimaryIndex, v, r, TRUE) = IdKey(c, v)
      BY IdKeyParts
    <3> QED
      BY <3>1, <3>2
  <2>8. Has(NoTransaction, IdKey(c, v)) /\ At(NoTransaction, IdKey(c, v)) = store[k]
    BY <2>2, <2>7, NoView
  <2>9. /\ Has(NoTransaction, RecordKey(c, store[k]))
        /\ At(NoTransaction, RecordKey(c, store[k])).id = v
    BY <2>1, <2>8 DEF Sound, Leads
  <2> QED
    BY <2>4, <2>9, NoView
<1> QED
  BY <1>1, Inductive, PTL

\* There are finitely many records.
LEMMA FiniteRecords ==
    ASSUME Sound(NoTransaction)
    PROVE  IsFiniteSet(Keys("record"))
<1> DEFINE S == Keys("record")
           T == CollId \X RecordId
           f == [k \in S |-> <<k[2], k[3]>>]
<1>1. \A k \in S : k[2] \in CollId /\ k[3] \in RecordId /\ k = RecordKey(k[2], k[3])
  BY StoredKeys
<1> HIDE DEF S
<1>2. f \in [S -> T]
  BY <1>1
<1>3. \A j, k \in S : f[j] = f[k] => j = k
  <2> SUFFICES ASSUME NEW j \in S, NEW k \in S, f[j] = f[k]
               PROVE  j = k
    OBVIOUS
  <2>1. j[2] = k[2] /\ j[3] = k[3]
    OBVIOUS
  <2> QED
    BY <1>1, <2>1
<1> HIDE DEF f
<1>4. f \in Injection(S, T)
  BY <1>2, <1>3 DEF Injection, IsInjective
<1>5. IsFiniteSet(CollId) /\ IsFiniteSet(RecordId)
  BY BoundsAssumption, FS_Interval DEF CollId, RecordId
<1>6. IsFiniteSet(T)
  BY <1>5, FS_Product
<1> HIDE DEF T
<1>7. IsFiniteSet(S)
  BY <1>4, <1>6, FS_Injection
<1> QED
  BY <1>7 DEF S

\* Sets with nothing in common count for themselves.
LEMMA CountBoth ==
    ASSUME NEW S, NEW T, IsFiniteSet(S), IsFiniteSet(T), \A k \in S : k \notin T
    PROVE  Cardinality(S \cup T) = Cardinality(S) + Cardinality(T)
<1>1. S \cap T = {}
  OBVIOUS
<1>2. Cardinality(S \cap T) = 0
  BY <1>1, FS_EmptySet
<1>3. Cardinality(S) \in Nat /\ Cardinality(T) \in Nat
  BY FS_CardinalityType
<1>4. Cardinality(S \cup T) = Cardinality(S) + Cardinality(T) - Cardinality(S \cap T)
  BY FS_Union
<1> QED
  BY <1>2, <1>3, <1>4

\* NoInsertIsLost: insert keeps every record that there is and adds one for every
\* document, because no id is given out twice (use_next_record_id).
THEOREM InsertsAddUp == Spec => NoInsertIsLost
<1> DEFINE P == Commit /\ tx.command = "insert" =>
                    /\ \A k \in Keys("record") : k \in DOMAIN store' /\ store'[k] = store[k]
                    /\ Cardinality({k \in DOMAIN store' : k[1] = "record"})
                          = Cardinality(Keys("record")) + tx.count
<1>1. IInv => P
  <2> SUFFICES ASSUME IInv, Commit, tx.command = "insert"
               PROVE  /\ \A k \in Keys("record") : k \in DOMAIN store' /\ store'[k] = store[k]
                      /\ Cardinality({k \in DOMAIN store' : k[1] = "record"})
                            = Cardinality(Keys("record")) + tx.count
    OBVIOUS
  <2> DEFINE new == {k \in DOMAIN tx.pending : TagOf(k) = "record"}
             old == Keys("record")
             all == {k \in DOMAIN store' : k[1] = "record"}
  <2>1. /\ \A k : k \in DOMAIN store' <=> Has(tx, k)
        /\ \A k \in DOMAIN store' : store'[k] = At(tx, k)
    BY CommitView
  <2>2. InsertsCounted(tx, tx.count) /\ Sound(NoTransaction)
    BY DEF IInv, Knows
  <2>3. /\ \A k \in new : tx.pending[k] # Tombstone /\ k \notin DOMAIN store
        /\ IsFiniteSet(new) /\ Cardinality(new) = tx.count
    BY <2>2 DEF InsertsCounted
  <2>4. \A k : k \in old <=> k \in DOMAIN store /\ TagOf(k) = "record"
    BY KeysSelect
  <2>5. \A k : k \in all <=> Has(tx, k) /\ TagOf(k) = "record"
    BY <2>1 DEF TagOf
  <2>6. \A k : k \in new <=> k \in DOMAIN tx.pending /\ TagOf(k) = "record"
    OBVIOUS
  <2>7. IsFiniteSet(old)
    BY <2>2, FiniteRecords
  <2> HIDE DEF new, old, all
  <2>8. \A k \in old : k \notin new
    BY <2>3, <2>4
  <2>9. \A k \in old : Has(tx, k) /\ At(tx, k) = store[k]
    BY <2>4, <2>6, <2>8 DEF Has, At
  <2>10. all = old \cup new
    BY <2>3, <2>4, <2>5, <2>6 DEF Has
  <2>11. Cardinality(all) = Cardinality(old) + tx.count
    BY <2>3, <2>7, <2>8, <2>10, CountBoth
  <2> QED
    BY <2>1, <2>9, <2>11 DEF old, all
<1>2. IInv /\ [Next]_vars => [P]_vars
  BY <1>1
<1>3. Spec => [][Next]_vars
  BY PTL DEF Spec
<1> QED
  BY <1>2, <1>3, Inductive, PTL DEF NoInsertIsLost

\* TypeOK: keys and values, the number of operations of a transaction and the indexes
\* of the collection it keeps are in their ranges.
THEOREM TypeCorrect == Spec => []TypeOK
<1>1. IInv => TypeOK
  <2> SUFFICES ASSUME IInv PROVE TypeOK
    OBVIOUS
  <2>1. Sound(NoTransaction) /\ Knows(tx)
    BY DEF IInv
  <2>2. \A tag : \A k \in Keys(tag) : Has(NoTransaction, k) /\ At(NoTransaction, k) = store[k]
    BY KeysSelect, NoView
  <2>3. Typed(NoTransaction)
    BY <2>1 DEF Sound
  <2>4. \A k \in Keys("name") : k[2] \in Name /\ store[k] \in 1..MaxColl
    BY <2>1, <2>2, <2>3, StoredKeys DEF Typed, CollId
  <2>5. \A k \in Keys("properties") : k[2] \in 1..MaxColl /\ store[k] \in Name
    BY <2>1, <2>2, <2>3, StoredKeys DEF Typed, CollId
  <2>6. \A k \in Keys("indexname") : k[3] \in AnyIndexName /\ store[k] \in 0..MaxIndex
    BY <2>1, <2>2, <2>3, StoredKeys DEF Typed, IndexId
  <2>7. \A k \in Keys("index") : k[3] \in 0..MaxIndex /\ store[k].name \in AnyIndexName
    <3> SUFFICES ASSUME NEW k \in Keys("index")
                 PROVE  k[3] \in 0..MaxIndex /\ store[k].name \in AnyIndexName
      OBVIOUS
    <3>1. k[2] \in CollId /\ k[3] \in IndexId /\ k = IndexKey(k[2], k[3])
      BY <2>1, StoredKeys
    <3>2. store[k] \in [name : AnyIndexName, unique : BOOLEAN]
      BY <2>2, <2>3, <3>1 DEF Typed
    <3> QED
      BY <3>1, <3>2 DEF IndexId
  <2>8. \A k \in Keys("record") : k[3] \in 1..MaxRecord /\ store[k] \in Document
    BY <2>1, <2>2, <2>3, StoredKeys DEF Typed, RecordId
  <2>9. \A k \in Keys("entry") : store[k] \in 1..MaxRecord
    <3> SUFFICES ASSUME NEW k \in Keys("entry")
                 PROVE  store[k] \in 1..MaxRecord
      OBVIOUS
    <3>1. \E c \in CollId, i \in IndexId, v \in EntryValue, r \in RecordId, unique \in BOOLEAN :
              k = EntryKey(c, i, v, r, unique) /\ k[2] = c /\ k[3] = i /\ k[4] = v
      BY <2>1, StoredKeys
    <3>2. PICK c \in CollId, i \in IndexId, v \in EntryValue, r \in RecordId, unique \in BOOLEAN :
              k = EntryKey(c, i, v, r, unique)
      BY <3>1
    <3>3. At(NoTransaction, k) \in RecordId
      BY <2>2, <2>3, <3>2 DEF Typed
    <3> QED
      BY <2>2, <3>3 DEF RecordId
  <2>10. tx.count \in 0..MaxBatch /\ tx.cw.indexes \subseteq Index
    BY <2>1 DEF Knows, Good
  <2> QED
    BY <2>4, <2>5, <2>6, <2>7, <2>8, <2>9, <2>10 DEF TypeOK
<1> QED
  BY <1>1, Inductive, PTL
=============================================================================
