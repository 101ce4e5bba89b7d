------------------------------- MODULE Server -------------------------------
(***************************************************************************)
(* Connections and their cursors: server/src/main.rs.                      *)
(*                                                                         *)
(* A thread serves each connection, one message after the other, and keeps *)
(* the cursors that its client has not read to the end.  What the threads  *)
(* share is the database.  A cursor is an iterator on what was committed   *)
(* when it was opened (Documents, Cursors); what it still has to yield is  *)
(* a sequence of rows here.                                                *)
(*                                                                         *)
(* Rows are numbered as they are written, so that two are never the same.  *)
(* What each client has been given is kept next to the cursors to compare  *)
(* with.                                                                   *)
(***************************************************************************)
EXTENDS Integers, Sequences, FiniteSets, SequencesExt

CONSTANTS
    Connections,
    Collections,
    Skips,       \* numbers of rows that a query skips
    Sizes,       \* numbers of rows that a query or getMore asks for
    BatchSizes,  \* batch sizes of commands that answer with a cursor
    MaxRow,      \* bound: rows that are ever written
    MaxCursors   \* bound: cursors that each connection opens

ASSUME BoundsAssumption == MaxRow \in Nat /\ MaxCursors \in [Connections -> Nat]
ASSUME CollectionsAssumption == IsFiniteSet(Collections)
ASSUME SizesAssumption == Skips \subseteq Nat /\ Sizes \subseteq Int /\ BatchSizes \subseteq Nat

VARIABLES
    rows,       \* each collection's rows, in their order
    written,    \* how many rows have been written
    cursors,    \* of each connection: cursor_num and the table of cursors
    working,    \* the $out a connection's thread is in the middle of, if any
    seen,       \* of each client: what it was and is to be given, for each id it knows
    cutShort,   \* of each client: whether it was told of an end that was none
    dropped     \* of each connection: the rows it dropped, under their collection's name,
                \* as far as a cursor of it still has them

vars == <<rows, written, cursors, working, seen, cutShort, dropped>>

Idle == [phase |-> "idle"]
Fresh == [num |-> 0, table |-> <<>>]

\* A row that cannot be read: the scan met a record that is gone.
Broken == 0

\* The name that lists of collections and indexes are stored under.
Listings == "$cmd"

Init ==
    /\ rows = [ns \in Collections |-> <<>>]
    /\ written = 0
    /\ cursors = [c \in Connections |-> Fresh]
    /\ working = [c \in Connections |-> Idle]
    /\ seen = [c \in Connections |-> <<>>]
    /\ cutShort = [c \in Connections |-> FALSE]
    /\ dropped = [c \in Connections |-> {}]

-----------------------------------------------------------------------------
(* Batches.                                                                *)

With(f, k, v) == [j \in DOMAIN f \cup {k} |-> IF j = k THEN v ELSE f[j]]
Without(f, S) == [j \in (DOMAIN f) \ S |-> f[j]]

BatchAndPeek(seq, n, soft) ==
    LET k == IF n < Len(seq) THEN n ELSE Len(seq)
    IN  [docs |-> SubSeq(seq, 1, k), rest |-> SubSeq(seq, k + 2, Len(seq)), more |-> soft /\ k = n]

BatchOrNothing(seq, n, soft) ==
    LET k == IF n < Len(seq) THEN n ELSE Len(seq)
    IN  [docs |-> SubSeq(seq, 1, k), rest |-> SubSeq(seq, k + 1, Len(seq)), more |-> soft /\ (k = n \/ k = 0)]

\* What n rows leave of a sequence, and whether the cursor stays.
Batch(seq, n, soft) ==
    LET k == IF n < Len(seq) THEN n ELSE Len(seq)
    IN  [docs |-> SubSeq(seq, 1, k), rest |-> SubSeq(seq, k + 1, Len(seq)), more |-> soft /\ k = n]

\* do_limit: a negative number and 1 are hard limits, 0 asks for all.
IsHard(n) == n < 0 \/ n = 1
DoLimit(seq, n) ==
    CASE n < 0 -> Batch(seq, -n, FALSE)
      [] n = 0 -> Batch(seq, Len(seq), FALSE)
      [] n = 1 -> Batch(seq, n, FALSE)
      [] n > 1 -> Batch(seq, n, TRUE)

\* The reply with a batch.  A row that is broken ends it with an error, and the
\* cursor is dropped with the rows it had read.
Reply(c, id, ns, due, got, batch, hard) ==
    LET failed == Contains(batch.docs, Broken)
        given == got \o batch.docs
    IN  /\ cursors' = [cursors EXCEPT
               ![c].num = IF batch.more /\ ~failed /\ id > @ THEN id ELSE @,
               ![c].table = IF batch.more /\ ~failed
                            THEN With(@, id, [ns |-> ns, rest |-> batch.rest])
                            ELSE Without(@, {id})]
        /\ seen' = [seen EXCEPT
               ![c] = IF batch.more /\ ~failed THEN With(@, id, [due |-> due, got |-> given])
                      ELSE Without(@, {id})]
        /\ cutShort' = [cutShort EXCEPT
               ![c] = @ \/ (~batch.more /\ ~failed /\ ~hard /\ given # due)]

\* store_cursor gives out the next number.
NewId(c) == cursors[c].num + 1

\* reply_with_cursor: without a cursor option all rows are returned; a batch of
\* none keeps the cursor and reads nothing.
ReplyWithCursor(c, ns, seq, option) ==
    Reply(c, NewId(c), ns, seq, <<>>,
          IF option = <<>> THEN Batch(seq, Len(seq), FALSE) ELSE Batch(seq, option[1], TRUE), FALSE)

CursorOptions == {<<>>} \cup {<<n>> : n \in BatchSizes}

-----------------------------------------------------------------------------
(* Messages that read.                                                     *)

\* The thread waits for a message.
IsIdle(c) == working[c] = Idle
HasNumber(c) == cursors[c].num < MaxCursors[c]
MayOpen(c) == IsIdle(c) /\ HasNumber(c)

\* reply_query.  A find on an index can meet one that is gone.
Found(ns) ==
    {rows[ns]} \cup
    {[j \in DOMAIN rows[ns] |-> IF j = i THEN Broken ELSE rows[ns][j]] : i \in DOMAIN rows[ns]}

Query(c, ns, skip, n) ==
    /\ MayOpen(c)
    /\ \E found \in Found(ns) :
           LET due == SubSeq(found, skip + 1, Len(found))
           IN  Reply(c, NewId(c), ns, due, <<>>, DoLimit(due, n), IsHard(n))
    /\ UNCHANGED <<rows, written, working, dropped>>

\* reply_aggregate without $out.
Aggregate(c, ns, option) ==
    /\ MayOpen(c)
    /\ ReplyWithCursor(c, ns, rows[ns], option)
    /\ UNCHANGED <<rows, written, working, dropped>>

\* reply_list_collections, and reply_list_indexes of one with as many.
List(c, option) ==
    LET names == {ns \in Collections : rows[ns] # <<>>}
    IN  /\ MayOpen(c)
        /\ ReplyWithCursor(c, Listings, [i \in 1..Cardinality(names) |-> -i], option)
        /\ UNCHANGED <<rows, written, working, dropped>>

\* reply_2005.  The cursor is taken out of the table and put back when there may
\* be more; one that is not there is reported as not found.
GetMore(c, id, n) ==
    /\ IsIdle(c)
    /\ id \in DOMAIN seen[c]
    /\ IF id \in DOMAIN cursors[c].table
       THEN LET cursor == cursors[c].table[id]
            IN  Reply(c, id, cursor.ns, seen[c][id].due, seen[c][id].got,
                      DoLimit(cursor.rest, n), IsHard(n))
       ELSE /\ seen' = [seen EXCEPT ![c] = Without(@, {id})]
            /\ UNCHANGED <<cursors, cutShort>>
    /\ UNCHANGED <<rows, written, working, dropped>>

KillCursors(c, ids) ==
    /\ IsIdle(c)
    /\ ids # {} /\ ids \subseteq DOMAIN seen[c]
    /\ cursors' = [cursors EXCEPT ![c].table = Without(@, ids)]
    /\ seen' = [seen EXCEPT ![c] = Without(@, ids)]
    /\ UNCHANGED <<rows, written, working, cutShort, dropped>>

-----------------------------------------------------------------------------
(* Messages that write.                                                    *)

KeepCursors(table, ns) == table

\* remove_cursors_for_collection.
RemoveCursors(table, ns) == Without(table, {id \in DOMAIN table : table[id].ns = ns})

Discard(c, ns) ==
    LET left == RemoveCursors(cursors[c].table, ns)
        had == UNION {ToSet(left[id].rest) : id \in DOMAIN left}
    IN  /\ cursors' = [cursors EXCEPT ![c].table = left]
        /\ rows' = [rows EXCEPT ![ns] = <<>>]
        /\ dropped' = [dropped EXCEPT ![c] = @ \cup ({ns} \X (ToSet(rows[ns]) \cap had))]

\* reply_drop_collection.
DropCollection(c, ns) ==
    /\ IsIdle(c)
    /\ Discard(c, ns)
    /\ UNCHANGED <<written, working, seen, cutShort>>

\* reply_delete_indexes.
DeleteIndexes(c, ns) ==
    /\ IsIdle(c)
    /\ cursors' = [cursors EXCEPT ![c].table = RemoveCursors(@, ns)]
    /\ UNCHANGED <<rows, written, working, seen, cutShort, dropped>>

\* reply_drop_database and reply_rename_collection leave the cursors alone.
DropDatabase(c) ==
    /\ IsIdle(c)
    /\ rows' = [ns \in Collections |-> <<>>]
    /\ UNCHANGED <<written, cursors, working, seen, cutShort, dropped>>

RenameCollection(c, old, new) ==
    /\ IsIdle(c)
    /\ old # new /\ rows[old] # <<>>
    /\ rows' = [rows EXCEPT ![old] = <<>>, ![new] = rows[old]]
    /\ UNCHANGED <<written, cursors, working, seen, cutShort, dropped>>

\* reply_insert and reply_delete, of a document.
Insert(c, ns) ==
    /\ IsIdle(c)
    /\ written < MaxRow
    /\ written' = written + 1
    /\ rows' = [rows EXCEPT ![ns] = Append(@, written + 1)]
    /\ UNCHANGED <<cursors, working, seen, cutShort, dropped>>

Delete(c, ns, i) ==
    /\ IsIdle(c)
    /\ i \in DOMAIN rows[ns]
    /\ rows' = [rows EXCEPT ![ns] = RemoveAt(@, i)]
    /\ UNCHANGED <<written, cursors, working, seen, cutShort, dropped>>

-----------------------------------------------------------------------------
(* reply_aggregate with $out: the results are an iterator on what was      *)
(* committed at first; the collection is cleared and written by commits of *)
(* their own.                                                              *)

OutRead(c, ns, out) ==
    /\ IsIdle(c)
    /\ written + Len(rows[ns]) <= MaxRow
    /\ written' = written + Len(rows[ns])
    /\ working' = [working EXCEPT
           ![c] = [phase |-> "read", out |-> out,
                   results |-> [i \in DOMAIN rows[ns] |-> written + i]]]
    /\ UNCHANGED <<rows, cursors, seen, cutShort, dropped>>

OutClear(c) ==
    /\ working[c].phase = "read"
    /\ Discard(c, working[c].out)
    /\ working' = [working EXCEPT ![c].phase = "cleared"]
    /\ UNCHANGED <<written, seen, cutShort>>

\* The reply has an empty iterator.
OutWrite(c, option) ==
    /\ working[c].phase = "cleared"
    /\ option = <<0>> => HasNumber(c)
    /\ rows' = [rows EXCEPT ![working[c].out] = @ \o working[c].results]
    /\ ReplyWithCursor(c, working[c].out, <<>>, option)
    /\ working' = [working EXCEPT ![c] = Idle]
    /\ UNCHANGED <<written, dropped>>

\* A result that must not be stored fails all of insert_seq; what was cleared
\* stays cleared.
OutFail(c) ==
    /\ working[c].phase = "cleared"
    /\ working' = [working EXCEPT ![c] = Idle]
    /\ UNCHANGED <<rows, written, cursors, seen, cutShort, dropped>>

-----------------------------------------------------------------------------
(* The connection ends, or its thread panics because a message cannot be   *)
(* read; the client comes back and is served by a new thread.              *)
Reconnect(c) ==
    /\ IsIdle(c)
    /\ cursors' = [cursors EXCEPT ![c] = Fresh]
    /\ seen' = [seen EXCEPT ![c] = <<>>]
    /\ cutShort' = [cutShort EXCEPT ![c] = FALSE]
    /\ dropped' = [dropped EXCEPT ![c] = {}]
    /\ UNCHANGED <<rows, written, working>>

Message(c) ==
    \/ \E ns \in Collections, skip \in Skips, n \in Sizes : Query(c, ns, skip, n)
    \/ \E ns \in Collections, option \in CursorOptions : Aggregate(c, ns, option)
    \/ \E option \in CursorOptions : List(c, option)
    \/ \E id \in DOMAIN seen[c], n \in Sizes : GetMore(c, id, n)
    \/ \E ids \in SUBSET DOMAIN seen[c] : KillCursors(c, ids)
    \/ \E ns \in Collections :
           DropCollection(c, ns) \/ DeleteIndexes(c, ns) \/ Insert(c, ns)
    \/ \E ns \in Collections : \E i \in DOMAIN rows[ns] : Delete(c, ns, i)
    \/ DropDatabase(c)
    \/ \E old, new \in Collections : RenameCollection(c, old, new)
    \/ \E ns, out \in Collections : OutRead(c, ns, out)

Work(c) == OutClear(c) \/ (\E option \in CursorOptions : OutWrite(c, option)) \/ OutFail(c)

Next == \E c \in Connections : Message(c) \/ Work(c) \/ Reconnect(c)

\* A thread finishes what it is doing, and a client asks again and again for the
\* next batch of each cursor it knows, whatever else it sends in between.  It is
\* not assumed to ask for the rest of the rows, nor with a hard limit.
Asks(c, id) == \E n \in {m \in Sizes : m > 1} : GetMore(c, id, n)
Fairness ==
    \A c \in Connections :
        /\ WF_vars(Work(c))
        /\ \A id \in 1..MaxCursors[c] : SF_vars(Asks(c, id))

Spec == Init /\ [][Next]_vars /\ Fairness

-----------------------------------------------------------------------------
(* Properties.                                                             *)

\* What a client was given and what its cursor still has are together what its
\* query found, every row once and in order, whatever other messages and other
\* connections did in between; and when a reply says that there is no more, the
\* client has all of it.  (grab, do_limit, reply_with_cursor, reply_2005: a batch
\* must neither lose the row that shows there is more nor return it twice)
EveryRowOnce ==
    \A c \in Connections :
        /\ \A id \in DOMAIN cursors[c].table :
               /\ id \in DOMAIN seen[c]
               /\ seen[c][id].due = seen[c][id].got \o cursors[c].table[id].rest
        /\ ~cutShort[c]

\* A connection that dropped a collection, or replaced it by $out, has no cursor
\* left that would still return its rows under that name.  (reply_drop_collection
\* and reply_aggregate remove cursors before the rows go)
DroppedRowsAreGone ==
    \A c \in Connections : \A id \in DOMAIN cursors[c].table :
        LET cursor == cursors[c].table[id]
        IN  \A row \in ToSet(cursor.rest) : <<cursor.ns, row>> \notin dropped[c]

\* A client that keeps asking comes to the end of every cursor, although others go
\* on writing.  (do_limit, reply_2005: a cursor is kept only after a full batch)
EveryCursorEnds ==
    \A c \in Connections : \A id \in 1..MaxCursors[c] :
        id \in DOMAIN cursors[c].table ~> id \notin DOMAIN cursors[c].table
=============================================================================
