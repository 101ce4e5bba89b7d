---------------------------- MODULE Server_proofs ----------------------------
(***************************************************************************)
(* Proofs about Server, for any connections, collections, batch sizes and  *)
(* numbers of rows.                                                        *)
(***************************************************************************)
EXTENDS Server, FiniteSetTheorems, SequenceTheorems, TLAPS

-----------------------------------------------------------------------------
(* The inductive invariant.                                                *)

RowSeq == Seq(Int)

\* Tables from ids to members of S.
TablesOf(S) == UNION {[ids -> S] : ids \in SUBSET Nat}

Cursor == [ns : Collections \cup {Listings}, rest : RowSeq]
Answer == [due : RowSeq, got : RowSeq]
Out == [phase : {"read", "cleared"}, out : Collections, results : Seq(1..written)]

RowsTyped ==
    /\ rows \in [Collections -> Seq(1..written)]
    /\ written \in Nat
    /\ working \in [Connections -> {Idle} \cup Out]
    /\ dropped \in [Connections -> SUBSET (Collections \X (1..written))]

CursorsTyped ==
    /\ cursors \in [Connections -> [num : Nat, table : TablesOf(Cursor)]]
    /\ seen \in [Connections -> TablesOf(Answer)]
    /\ cutShort \in [Connections -> BOOLEAN]

TypeOK == RowsTyped /\ CursorsTyped

ResultsOf(c) == IF working[c] = Idle THEN {} ELSE ToSet(working[c].results)

\* A row is in one collection, or in the results of one $out.
RowsAreApart ==
    /\ \A ns, other \in Collections :
           ns # other => ToSet(rows[ns]) \cap ToSet(rows[other]) = {}
    /\ \A ns \in Collections, c \in Connections : ToSet(rows[ns]) \cap ResultsOf(c) = {}
    /\ \A c, d \in Connections : c # d => ResultsOf(c) \cap ResultsOf(d) = {}

\* No command brings back a row that was dropped.
DroppedIsNowhere ==
    \A c \in Connections, ns \in Collections, row \in 1..written :
        <<ns, row>> \in dropped[c] =>
            /\ \A other \in Collections : row \notin ToSet(rows[other])
            /\ \A d \in Connections : row \notin ResultsOf(d)

IInv == TypeOK /\ RowsAreApart /\ DroppedIsNowhere /\ EveryRowOnce /\ DroppedRowsAreGone

-----------------------------------------------------------------------------
(* Sequences of rows.                                                      *)

\* A part of a sequence has no element that the sequence has not.
LEMMA PartOfSequence ==
    ASSUME NEW S, NEW seq \in Seq(S), NEW m \in 1..Len(seq) + 1, NEW n \in m - 1..Len(seq)
    PROVE  /\ SubSeq(seq, m, n) \in Seq(S)
           /\ Len(SubSeq(seq, m, n)) = n - m + 1
           /\ \A i \in 1..n - m + 1 : SubSeq(seq, m, n)[i] = seq[m + i - 1]
           /\ ToSet(SubSeq(seq, m, n)) \subseteq ToSet(seq)
<1>1. /\ SubSeq(seq, m, n) \in Seq(S)
      /\ Len(SubSeq(seq, m, n)) = n - m + 1
      /\ \A i \in 1..n - m + 1 : SubSeq(seq, m, n)[i] = seq[m + i - 1]
    BY SubSeqProperties
<1>2. DOMAIN SubSeq(seq, m, n) = 1..n - m + 1 /\ DOMAIN seq = 1..Len(seq)
    BY <1>1, LenProperties
<1>3. ASSUME NEW i \in 1..n - m + 1
      PROVE  SubSeq(seq, m, n)[i] \in ToSet(seq)
    <2>1. m + i - 1 \in DOMAIN seq
        BY <1>2
    <2> QED
        BY <2>1, <1>1 DEF ToSet
<1> QED
    BY <1>1, <1>2, <1>3 DEF ToSet

\* What is appended adds its elements and no others.
LEMMA ElementsOfConcat ==
    ASSUME NEW S, NEW s \in Seq(S), NEW t \in Seq(S)
    PROVE  s \o t \in Seq(S) /\ ToSet(s \o t) = ToSet(s) \cup ToSet(t)
<1>1. /\ s \o t \in Seq(S)
      /\ Len(s \o t) = Len(s) + Len(t)
      /\ \A i \in 1..Len(s) + Len(t) :
             (s \o t)[i] = IF i <= Len(s) THEN s[i] ELSE t[i - Len(s)]
    BY ConcatProperties
<1>2. /\ DOMAIN (s \o t) = 1..Len(s) + Len(t)
      /\ DOMAIN s = 1..Len(s) /\ DOMAIN t = 1..Len(t)
      /\ Len(s) \in Nat /\ Len(t) \in Nat
    BY <1>1, LenProperties
<1>3. ASSUME NEW i \in 1..Len(s) + Len(t)
      PROVE  (s \o t)[i] \in ToSet(s) \cup ToSet(t)
    <2>1. CASE i <= Len(s)
        BY <2>1, <1>1, <1>2 DEF ToSet
    <2>2. CASE ~(i <= Len(s))
        <3>1. i - Len(s) \in DOMAIN t /\ (s \o t)[i] = t[i - Len(s)]
            BY <2>2, <1>1, <1>2
        <3> QED
            BY <3>1 DEF ToSet
    <2> QED
        BY <2>1, <2>2
<1>4. ASSUME NEW i \in DOMAIN s
      PROVE  s[i] \in ToSet(s \o t)
    <2>1. i \in DOMAIN (s \o t) /\ (s \o t)[i] = s[i]
        BY <1>1, <1>2
    <2> QED
        BY <2>1 DEF ToSet
<1>5. ASSUME NEW i \in DOMAIN t
      PROVE  t[i] \in ToSet(s \o t)
    <2>1. i + Len(s) \in DOMAIN (s \o t) /\ (s \o t)[i + Len(s)] = t[i]
        BY <1>1, <1>2
    <2> QED
        BY <2>1 DEF ToSet
<1> QED
    BY <1>1, <1>2, <1>3, <1>4, <1>5 DEF ToSet

\* A member of a sequence over S is in S.
LEMMA ElementsAreIn ==
    ASSUME NEW S, NEW seq \in Seq(S)
    PROVE  ToSet(seq) \subseteq S
BY LenProperties, ElementOfSeq DEF ToSet

\* A sequence over a set is one over each set that contains it.
LEMMA WiderSequence ==
    ASSUME NEW S, NEW T, S \subseteq T, NEW seq \in Seq(S)
    PROVE  seq \in Seq(T)
BY SeqMonotonic

\* The empty sequence has no elements, and adds nothing.
LEMMA NoElements == ToSet(<<>>) = {}
BY DEF ToSet

-----------------------------------------------------------------------------
(* Batches.                                                                *)

\* A batch and what it leaves are the sequence, in its order; unless the limit was
\* hard, a batch that says that there is no more has everything.
Batches == [docs : RowSeq, rest : RowSeq, more : BOOLEAN]

Splits(batch, seq, hard) ==
    /\ batch \in Batches
    /\ batch.docs \o batch.rest = seq
    /\ ToSet(batch.rest) \subseteq ToSet(seq)
    /\ ~hard /\ ~batch.more => batch.docs = seq

\* Batch loses no row and repeats none (grab, and the peek that tells its caller
\* whether to keep the cursor).
LEMMA BatchSplits ==
    ASSUME NEW seq \in RowSeq, NEW n \in Nat, NEW soft \in BOOLEAN
    PROVE  Splits(Batch(seq, n, soft), seq, ~soft /\ n # Len(seq))
<1> DEFINE k == IF n < Len(seq) THEN n ELSE Len(seq)
<1>1. k \in 0..Len(seq) /\ Len(seq) \in Nat
    BY LenProperties DEF RowSeq
<1>0. Batch(seq, n, soft) = [docs |-> SubSeq(seq, 1, k), rest |-> SubSeq(seq, k + 1, Len(seq)),
                             more |-> soft /\ k = n]
    BY DEF Batch
<1>2. /\ Batch(seq, n, soft).docs = SubSeq(seq, 1, k)
      /\ Batch(seq, n, soft).rest = SubSeq(seq, k + 1, Len(seq))
      /\ Batch(seq, n, soft).more = (soft /\ k = n)
    BY DEF Batch
<1>3. k # n => k = Len(seq)
    OBVIOUS
<1>4. n = Len(seq) => k = Len(seq)
    BY <1>1
<1> HIDE DEF k
<1>5. /\ SubSeq(seq, 1, k) \in RowSeq
      /\ SubSeq(seq, k + 1, Len(seq)) \in RowSeq
      /\ ToSet(SubSeq(seq, k + 1, Len(seq))) \subseteq ToSet(seq)
    <2>1. 1 \in 1..Len(seq) + 1 /\ k \in 1 - 1..Len(seq)
        BY <1>1
    <2>2. k + 1 \in 1..Len(seq) + 1 /\ Len(seq) \in k + 1 - 1..Len(seq)
        BY <1>1
    <2> QED
        BY <2>1, <2>2, PartOfSequence DEF RowSeq
<1>6. SubSeq(seq, 1, k) \o SubSeq(seq, k + 1, Len(seq)) = seq
    <2>1. /\ 1 \in 1..Len(seq) + 1
          /\ k \in 1 - 1..Len(seq)
          /\ Len(seq) \in k..Len(seq)
        BY <1>1
    <2>2. SubSeq(seq, 1, k) \o SubSeq(seq, k + 1, Len(seq)) = SubSeq(seq, 1, Len(seq))
        BY <2>1, ConcatAdjacentSubSeq DEF RowSeq
    <2> QED
        BY <2>2, SubSeqFull DEF RowSeq
<1>7. SubSeq(seq, 1, Len(seq)) = seq
    BY SubSeqFull DEF RowSeq
<1>8. Batch(seq, n, soft) \in Batches
    BY <1>0, <1>5 DEF Batches
<1> QED
    BY <1>2, <1>3, <1>4, <1>5, <1>6, <1>7, <1>8 DEF Splits

\* The same of do_limit, whose hard limits close the cursor early.
LEMMA LimitSplits ==
    ASSUME NEW seq \in RowSeq, NEW n \in Int
    PROVE  Splits(DoLimit(seq, n), seq, IsHard(n))
<1>1. CASE n < 0
    <2>1. -n \in Nat /\ IsHard(n)
        BY <1>1 DEF IsHard
    <2>2. n # 0 /\ n # 1 /\ ~(n > 1)
        BY <1>1
    <2>3. DoLimit(seq, n) = Batch(seq, -n, FALSE)
        BY <1>1, <2>2 DEF DoLimit
    <2>4. Splits(Batch(seq, -n, FALSE), seq, ~FALSE /\ -n # Len(seq))
        BY <2>1, BatchSplits
    <2> QED
        BY <2>1, <2>3, <2>4 DEF Splits
<1>2. CASE n = 0
    <2>1. DoLimit(seq, n) = Batch(seq, Len(seq), FALSE) /\ Len(seq) \in Nat
        BY <1>2, LenProperties DEF DoLimit, RowSeq
    <2>2. Splits(Batch(seq, Len(seq), FALSE), seq, ~FALSE /\ Len(seq) # Len(seq))
        BY <2>1, BatchSplits
    <2> QED
        BY <2>1, <2>2 DEF Splits
<1>3. CASE n = 1
    <2>1. DoLimit(seq, n) = Batch(seq, n, FALSE) /\ n \in Nat /\ IsHard(n)
        BY <1>3 DEF DoLimit, IsHard
    <2>2. Splits(Batch(seq, n, FALSE), seq, ~FALSE /\ n # Len(seq))
        BY <2>1, BatchSplits
    <2> QED
        BY <2>1, <2>2 DEF Splits
<1>4. CASE n > 1
    <2>1. DoLimit(seq, n) = Batch(seq, n, TRUE) /\ n \in Nat
        BY <1>4 DEF DoLimit
    <2>2. Splits(Batch(seq, n, TRUE), seq, ~TRUE /\ n # Len(seq))
        BY <2>1, BatchSplits
    <2> QED
        BY <2>1, <2>2 DEF Splits
<1> QED
    BY <1>1, <1>2, <1>3, <1>4

-----------------------------------------------------------------------------
(* Tables.                                                                 *)

\* What is found in a table.
LEMMA InTable ==
    ASSUME NEW S, NEW t \in TablesOf(S), NEW id \in DOMAIN t
    PROVE  id \in Nat /\ t[id] \in S
BY DEF TablesOf

\* Removing ids from a table leaves a table, and so does storing one.
LEMMA StillTables ==
    ASSUME NEW S, NEW t \in TablesOf(S)
    PROVE  /\ \A ids : Without(t, ids) \in TablesOf(S)
           /\ \A k \in Nat, v \in S : With(t, k, v) \in TablesOf(S)
<1>1. DOMAIN t \in SUBSET Nat /\ t \in [DOMAIN t -> S]
    BY DEF TablesOf
<1>2. ASSUME NEW ids
      PROVE  Without(t, ids) \in TablesOf(S)
    <2>1. (DOMAIN t) \ ids \in SUBSET Nat
        BY <1>1
    <2>2. Without(t, ids) \in [(DOMAIN t) \ ids -> S]
        BY <1>1 DEF Without
    <2> QED
        BY <2>1, <2>2 DEF TablesOf
<1>3. ASSUME NEW k \in Nat, NEW v \in S
      PROVE  With(t, k, v) \in TablesOf(S)
    <2>1. DOMAIN t \cup {k} \in SUBSET Nat
        BY <1>1
    <2>2. With(t, k, v) \in [DOMAIN t \cup {k} -> S]
        BY <1>1 DEF With
    <2> QED
        BY <2>1, <2>2 DEF TablesOf
<1> QED
    BY <1>2, <1>3

\* What a table holds after a cursor was stored, or not kept.
Stored(t, id, v, stays) == IF stays THEN With(t, id, v) ELSE Without(t, {id})

\* Sequences of rows are appended to each other in any order of appending.
LEMMA RowsAssociate ==
    /\ \A s, t \in RowSeq : s \o t \in RowSeq
    /\ \A s, t, u \in RowSeq : (s \o t) \o u = s \o (t \o u)
<1>1. ASSUME NEW s \in RowSeq, NEW t \in RowSeq
      PROVE  s \o t \in RowSeq
    BY ElementsOfConcat DEF RowSeq
<1>2. ASSUME NEW s \in RowSeq, NEW t \in RowSeq, NEW u \in RowSeq
      PROVE  (s \o t) \o u = s \o (t \o u)
    BY ConcatAssociative DEF RowSeq
<1> QED
    BY <1>1, <1>2

\* What a client was given with a batch, and what the batch leaves.
LEMMA WholeAnswer ==
    ASSUME NEW got \in RowSeq, NEW seq \in RowSeq, NEW batch \in Batches,
           batch.docs \o batch.rest = seq
    PROVE  got \o batch.docs \in RowSeq /\ (got \o batch.docs) \o batch.rest = got \o seq
<1>1. batch.docs \in RowSeq /\ batch.rest \in RowSeq
    BY DEF Batches
<1>2. got \o batch.docs \in RowSeq
    BY <1>1, RowsAssociate
<1>3. (got \o batch.docs) \o batch.rest = got \o (batch.docs \o batch.rest)
    BY <1>1, RowsAssociate
<1> QED
    BY <1>2, <1>3

\* A reply keeps what is said of cursors, if its batch is from the rows that the
\* client is still to be given and none of them was dropped.
LEMMA ReplyKeeps ==
    ASSUME CursorsTyped, EveryRowOnce, DroppedRowsAreGone,
           NEW c \in Connections, NEW id \in Nat, NEW ns \in Collections \cup {Listings},
           NEW due \in RowSeq, NEW got \in RowSeq, NEW seq \in RowSeq,
           NEW batch, NEW hard,
           Splits(batch, seq, hard), due = got \o seq,
           \A row \in ToSet(seq) : <<ns, row>> \notin dropped[c],
           Reply(c, id, ns, due, got, batch, hard), dropped' = dropped
    PROVE  CursorsTyped' /\ EveryRowOnce' /\ DroppedRowsAreGone'
<1> DEFINE given == got \o batch.docs
           stays == batch.more /\ ~Contains(batch.docs, Broken)
           cursor == [ns |-> ns, rest |-> batch.rest]
           answer == [due |-> due, got |-> given]
           table == cursors[c].table
           table2 == Stored(table, id, cursor, stays)
           known2 == Stored(seen[c], id, answer, stays)
           num2 == IF stays /\ id > cursors[c].num THEN id ELSE cursors[c].num
<1>1. /\ batch.docs \in RowSeq /\ batch.rest \in RowSeq /\ batch.more \in BOOLEAN
      /\ batch.docs \o batch.rest = seq
      /\ ToSet(batch.rest) \subseteq ToSet(seq)
    BY DEF Splits, Batches
<1>2. given \in RowSeq /\ due = given \o batch.rest
    <2>1. batch \in Batches /\ batch.docs \o batch.rest = seq
        BY DEF Splits
    <2>2. got \o batch.docs \in RowSeq /\ (got \o batch.docs) \o batch.rest = got \o seq
        BY <2>1, WholeAnswer
    <2> QED
        BY <2>2
<1>4. cursor \in Cursor /\ answer \in Answer /\ stays \in BOOLEAN
    BY <1>1, <1>2 DEF Cursor, Answer
<1>5. cursors[c] \in [num : Nat, table : TablesOf(Cursor)]
    BY DEF CursorsTyped
<1>9. table \in TablesOf(Cursor) /\ seen[c] \in TablesOf(Answer)
    BY <1>5 DEF CursorsTyped
<1>6. /\ cursors' = [cursors EXCEPT ![c].num = num2, ![c].table = table2]
      /\ seen' = [seen EXCEPT ![c] = known2]
    BY DEF Reply, Stored
<1>7. ASSUME ~batch.more, ~hard
      PROVE  given = due
    BY <1>7 DEF Splits
<1>8. cutShort' = [cutShort EXCEPT ![c] = cutShort[c] \/ FALSE]
    <2>1. ~(~batch.more /\ ~Contains(batch.docs, Broken) /\ ~hard /\ given # due)
        BY <1>7
    <2> QED
        BY <2>1 DEF Reply
<1>10. num2 \in Nat
    BY <1>5
<1>11. /\ cursor.ns = ns /\ cursor.rest = batch.rest
       /\ answer.due = due /\ answer.got = given
    OBVIOUS
<1>12. /\ table2 \in TablesOf(Cursor)
       /\ known2 \in TablesOf(Answer)
       /\ \A i \in DOMAIN table2 :
              \/ table2[i] = cursor /\ i \in DOMAIN known2 /\ known2[i] = answer
              \/ /\ i \in DOMAIN table /\ table2[i] = table[i]
                 /\ i \in DOMAIN seen[c] => i \in DOMAIN known2 /\ known2[i] = seen[c][i]
    <2> HIDE DEF cursor, answer, table, stays
    <2>1. table2 \in TablesOf(Cursor) /\ known2 \in TablesOf(Answer)
        BY <1>4, <1>9, StillTables DEF Stored
    <2>2. ASSUME NEW i \in DOMAIN table2
          PROVE  \/ table2[i] = cursor /\ i \in DOMAIN known2 /\ known2[i] = answer
                 \/ /\ i \in DOMAIN table /\ table2[i] = table[i]
                    /\ i \in DOMAIN seen[c] => i \in DOMAIN known2 /\ known2[i] = seen[c][i]
        BY DEF Stored, With, Without
    <2> QED
        BY <2>1, <2>2
<1> HIDE DEF table2, known2, num2, cursor, answer, given, stays
<1>13. /\ cursors'[c].table = table2
       /\ \A d \in Connections : d # c => cursors'[d] = cursors[d]
       /\ seen'[c] = known2
       /\ \A d \in Connections : d # c => seen'[d] = seen[d]
       /\ \A d \in Connections : cutShort'[d] = cutShort[d]
    <2>1. /\ DOMAIN cursors = Connections /\ DOMAIN seen = Connections
          /\ DOMAIN cutShort = Connections
          /\ cutShort[c] \in BOOLEAN
        BY DEF CursorsTyped
    <2>2. /\ cursors'[c].table = table2
          /\ \A d \in Connections : d # c => cursors'[d] = cursors[d]
        BY <2>1, <1>5, <1>6
    <2>3. /\ seen'[c] = known2
          /\ \A d \in Connections : d # c => seen'[d] = seen[d]
        BY <2>1, <1>6
    <2>4. \A d \in Connections : cutShort'[d] = cutShort[d]
        BY <2>1, <1>8
    <2> QED
        BY <2>2, <2>3, <2>4
<1>14. CursorsTyped'
    <2>1. cursors' \in [Connections -> [num : Nat, table : TablesOf(Cursor)]]
        BY <1>6, <1>12, <1>10 DEF CursorsTyped
    <2>2. seen' \in [Connections -> TablesOf(Answer)]
        BY <1>6, <1>12 DEF CursorsTyped
    <2>3. cutShort' \in [Connections -> BOOLEAN]
        BY <1>8 DEF CursorsTyped
    <2> QED
        BY <2>1, <2>2, <2>3 DEF CursorsTyped
<1>15. EveryRowOnce'
    <2>1. ASSUME NEW d \in Connections, d # c, NEW i \in DOMAIN cursors'[d].table
          PROVE  /\ i \in DOMAIN seen'[d]
                 /\ seen'[d][i].due = seen'[d][i].got \o cursors'[d].table[i].rest
        BY <2>1, <1>13 DEF EveryRowOnce
    <2>2. ASSUME NEW i \in DOMAIN table2
          PROVE  /\ i \in DOMAIN known2
                 /\ known2[i].due = known2[i].got \o table2[i].rest
        <3>1. CASE table2[i] = cursor /\ i \in DOMAIN known2 /\ known2[i] = answer
            BY <3>1, <1>2, <1>11
        <3>2. CASE /\ i \in DOMAIN table /\ table2[i] = table[i]
                   /\ i \in DOMAIN seen[c] => i \in DOMAIN known2 /\ known2[i] = seen[c][i]
            BY <3>2 DEF EveryRowOnce
        <3> QED
            BY <1>12, <3>1, <3>2
    <2>3. \A d \in Connections : ~cutShort'[d]
        BY <1>13 DEF EveryRowOnce
    <2> QED
        BY <2>1, <2>2, <2>3, <1>13 DEF EveryRowOnce
<1>16. DroppedRowsAreGone'
    <2>1. ASSUME NEW d \in Connections, d # c, NEW i \in DOMAIN cursors'[d].table,
                 NEW row \in ToSet(cursors'[d].table[i].rest)
          PROVE  <<cursors'[d].table[i].ns, row>> \notin dropped[d]
        BY <2>1, <1>13 DEF DroppedRowsAreGone
    <2>2. ASSUME NEW i \in DOMAIN table2, NEW row \in ToSet(table2[i].rest)
          PROVE  <<table2[i].ns, row>> \notin dropped[c]
        <3>1. CASE table2[i] = cursor
            BY <3>1, <1>1, <1>11
        <3>2. CASE i \in DOMAIN table /\ table2[i] = table[i]
            BY <3>2 DEF DroppedRowsAreGone
        <3> QED
            BY <1>12, <3>1, <3>2
    <2> QED
        BY <2>1, <2>2, <1>13 DEF DroppedRowsAreGone
<1> QED
    BY <1>14, <1>15, <1>16

-----------------------------------------------------------------------------
(* What steps leave alone.                                                 *)

\* Rows that stay where they are, or go, are as far apart as before.
LEMMA RowsDwindle ==
    ASSUME RowsAreApart, DroppedIsNowhere, RowsTyped,
           \A ns \in Collections : ToSet(rows'[ns]) \subseteq ToSet(rows[ns]),
           \A c \in Connections : ResultsOf(c)' \subseteq ResultsOf(c)
    PROVE  /\ RowsAreApart'
           /\ (\A c \in Connections : dropped'[c] \subseteq dropped[c]) => DroppedIsNowhere'
<1>1. RowsAreApart'
    BY DEF RowsAreApart
<1>2. ASSUME \A c \in Connections : dropped'[c] \subseteq dropped[c]
      PROVE  DroppedIsNowhere'
    <2>1. ASSUME NEW c \in Connections, NEW ns \in Collections, NEW row \in 1..written',
                 <<ns, row>> \in dropped'[c]
          PROVE  /\ \A other \in Collections : row \notin ToSet(rows'[other])
                 /\ \A d \in Connections : row \notin ResultsOf(d)'
        <3>1. <<ns, row>> \in dropped[c]
            BY <1>2, <2>1
        <3>2. row \in 1..written
            BY <3>1 DEF RowsTyped
        <3> QED
            BY <3>1, <3>2 DEF DroppedIsNowhere
    <2> QED
        BY <2>1 DEF DroppedIsNowhere
<1> QED
    BY <1>1, <1>2

\* Steps that leave collections and results alone.
LEMMA RowsStay ==
    ASSUME RowsTyped, RowsAreApart, DroppedIsNowhere, UNCHANGED <<rows, written, working, dropped>>
    PROVE  RowsTyped' /\ RowsAreApart' /\ DroppedIsNowhere'
<1>1. rows' = rows /\ written' = written /\ working' = working /\ dropped' = dropped
    OBVIOUS
<1>2. \A c \in Connections : ResultsOf(c)' = ResultsOf(c)
    BY <1>1 DEF ResultsOf
<1>3. RowsTyped'
    BY <1>1 DEF RowsTyped, Out
<1> QED
    BY <1>1, <1>2, <1>3, RowsDwindle

\* Cursors that stay, or go, return what they did.
LEMMA CursorsDwindle ==
    ASSUME CursorsTyped, EveryRowOnce, DroppedRowsAreGone,
           \A c \in Connections : \A id \in DOMAIN cursors'[c].table :
               /\ id \in DOMAIN cursors[c].table
               /\ cursors'[c].table[id] = cursors[c].table[id]
               /\ id \in DOMAIN seen[c] => id \in DOMAIN seen'[c] /\ seen'[c][id] = seen[c][id]
               /\ \A row \in ToSet(cursors[c].table[id].rest) :
                      <<cursors[c].table[id].ns, row>> \in dropped'[c] =>
                          <<cursors[c].table[id].ns, row>> \in dropped[c],
           \A c \in Connections : ~cutShort'[c]
    PROVE  EveryRowOnce' /\ DroppedRowsAreGone'
<1>1. EveryRowOnce'
    BY DEF EveryRowOnce
<1>2. DroppedRowsAreGone'
    BY DEF DroppedRowsAreGone
<1> QED
    BY <1>1, <1>2

-----------------------------------------------------------------------------
(* Messages that read.                                                     *)

\* The next number is a number.
LEMMA NewIdIsNat ==
    ASSUME CursorsTyped, NEW c \in Connections
    PROVE  NewId(c) \in Nat
<1>1. cursors[c] \in [num : Nat, table : TablesOf(Cursor)]
    BY DEF CursorsTyped
<1> QED
    BY <1>1 DEF NewId

\* The rows of a collection that a find meets have not been dropped.
LEMMA FoundIsThere ==
    ASSUME RowsTyped, DroppedIsNowhere,
           NEW c \in Connections, NEW ns \in Collections, NEW skip \in Nat, NEW found \in Found(ns)
    PROVE  /\ SubSeq(found, skip + 1, Len(found)) \in RowSeq
           /\ \A row \in ToSet(SubSeq(found, skip + 1, Len(found))) : <<ns, row>> \notin dropped[c]
<1>1. rows[ns] \in Seq(1..written) /\ written \in Nat
    BY DEF RowsTyped
<1>2. /\ DOMAIN rows[ns] = 1..Len(rows[ns]) /\ Len(rows[ns]) \in Nat
      /\ \A j \in DOMAIN rows[ns] : rows[ns][j] \in 1..written
    BY <1>1, LenProperties, ElementOfSeq
<1>3. /\ found \in Seq(0..written)
      /\ ToSet(found) \subseteq ToSet(rows[ns]) \cup {Broken}
    <2>1. CASE found = rows[ns]
        <3>1. 1..written \subseteq 0..written
            OBVIOUS
        <3> QED
            BY <2>1, <3>1, <1>1, SeqMonotonic
    <2>2. ASSUME NEW i \in DOMAIN rows[ns],
                 found = [j \in DOMAIN rows[ns] |-> IF j = i THEN Broken ELSE rows[ns][j]]
          PROVE  /\ found \in Seq(0..written)
                 /\ ToSet(found) \subseteq ToSet(rows[ns]) \cup {Broken}
        <3>1. \A j \in 1..Len(rows[ns]) :
                  (IF j = i THEN Broken ELSE rows[ns][j]) \in 0..written
            BY <1>1, <1>2 DEF Broken
        <3>2. found = [j \in 1..Len(rows[ns]) |-> IF j = i THEN Broken ELSE rows[ns][j]]
            BY <2>2, <1>2
        <3>3. found \in [1..Len(rows[ns]) -> 0..written]
            BY <3>1, <3>2
        <3>4. found \in Seq(0..written)
            BY <1>2, <3>3, SeqDef
        <3> QED
            BY <2>2, <3>4 DEF ToSet
    <2> QED
        BY <2>1, <2>2 DEF Found
<1>4. Len(found) \in Nat
    BY <1>3, LenProperties
<1>5. /\ SubSeq(found, skip + 1, Len(found)) \in Seq(0..written)
      /\ ToSet(SubSeq(found, skip + 1, Len(found))) \subseteq ToSet(found)
    <2>1. CASE skip < Len(found)
        <3> DEFINE m == skip + 1
                   n == Len(found)
        <3>1. m \in 1..Len(found) + 1 /\ n \in m - 1..Len(found)
            BY <1>4, <2>1
        <3> HIDE DEF m, n
        <3>2. SubSeq(found, m, n) \in Seq(0..written) /\ ToSet(SubSeq(found, m, n)) \subseteq ToSet(found)
            BY <3>1, <1>3, PartOfSequence
        <3> QED
            BY <3>2 DEF m, n
    <2>2. CASE ~(skip < Len(found))
        <3>1. SubSeq(found, skip + 1, Len(found)) = <<>>
            BY <2>2, <1>4, SubSeqEmpty
        <3> QED
            BY <3>1, NoElements, EmptySeq
    <2> QED
        BY <2>1, <2>2
<1>6. SubSeq(found, skip + 1, Len(found)) \in RowSeq
    <2>1. 0..written \subseteq Int
        BY <1>1
    <2> QED
        BY <2>1, <1>5, SeqMonotonic DEF RowSeq
<1>7. ASSUME NEW row \in ToSet(rows[ns]) \cup {Broken}
      PROVE  <<ns, row>> \notin dropped[c]
    <2>1. CASE row = Broken
        BY <2>1 DEF RowsTyped, Broken
    <2>2. CASE row \in ToSet(rows[ns])
        <3>1. row \in 1..written
            BY <2>2, <1>2 DEF ToSet
        <3> QED
            BY <2>2, <3>1 DEF DroppedIsNowhere
    <2> QED
        BY <2>1, <2>2
<1> QED
    BY <1>3, <1>5, <1>6, <1>7

\* A batch of a new cursor.
LEMMA OptionSplits ==
    ASSUME NEW seq \in RowSeq, NEW option \in CursorOptions
    PROVE  Splits(IF option = <<>> THEN Batch(seq, Len(seq), FALSE) ELSE Batch(seq, option[1], TRUE),
                  seq, FALSE)
<1>1. CASE option = <<>>
    <2>1. Len(seq) \in Nat
        BY LenProperties DEF RowSeq
    <2>2. Splits(Batch(seq, Len(seq), FALSE), seq, ~FALSE /\ Len(seq) # Len(seq))
        BY <2>1, BatchSplits
    <2> QED
        BY <1>1, <2>2 DEF Splits
<1>2. CASE option # <<>>
    <2>1. option[1] \in Nat
        BY <1>2, SizesAssumption DEF CursorOptions
    <2>2. Splits(Batch(seq, option[1], TRUE), seq, ~TRUE /\ option[1] # Len(seq))
        BY <2>1, BatchSplits
    <2> QED
        BY <1>2, <2>2 DEF Splits
<1> QED
    BY <1>1, <1>2

\* A first reply keeps what is said of cursors.
LEMMA FirstReplyKeeps ==
    ASSUME CursorsTyped, EveryRowOnce, DroppedRowsAreGone,
           NEW c \in Connections, NEW ns \in Collections \cup {Listings}, NEW seq \in RowSeq,
           NEW batch, NEW hard, Splits(batch, seq, hard),
           \A row \in ToSet(seq) : <<ns, row>> \notin dropped[c],
           Reply(c, NewId(c), ns, seq, <<>>, batch, hard), dropped' = dropped
    PROVE  CursorsTyped' /\ EveryRowOnce' /\ DroppedRowsAreGone'
<1> DEFINE none == <<>>
           id == NewId(c)
<1>1. none \in RowSeq /\ seq = none \o seq
    BY ConcatEmptySeq DEF RowSeq
<1>2. batch \in [docs : RowSeq, rest : RowSeq, more : BOOLEAN]
    BY DEF Splits, Batches
<1>3. id \in Nat
    BY NewIdIsNat
<1>4. Reply(c, id, ns, seq, none, batch, hard)
    OBVIOUS
<1> HIDE DEF none, id
<1> QED
    BY <1>1, <1>2, <1>3, <1>4, ReplyKeeps

\* A first batch, and a cursor for the rest (reply_with_cursor).
LEMMA ReplyWithCursorKeeps ==
    ASSUME CursorsTyped, EveryRowOnce, DroppedRowsAreGone,
           NEW c \in Connections, NEW ns \in Collections \cup {Listings}, NEW seq \in RowSeq,
           NEW option \in CursorOptions,
           \A row \in ToSet(seq) : <<ns, row>> \notin dropped[c],
           ReplyWithCursor(c, ns, seq, option), dropped' = dropped
    PROVE  CursorsTyped' /\ EveryRowOnce' /\ DroppedRowsAreGone'
BY OptionSplits, FirstReplyKeeps DEF ReplyWithCursor

\* Every message and every step of a command keeps the invariant.
LEMMA QueryKeeps ==
    ASSUME IInv, NEW c \in Connections, NEW ns \in Collections, NEW skip \in Skips,
           NEW n \in Sizes, Query(c, ns, skip, n)
    PROVE  IInv'
<1> USE DEF IInv, TypeOK
<1>1. PICK found \in Found(ns) :
          Reply(c, NewId(c), ns, SubSeq(found, skip + 1, Len(found)), <<>>,
                DoLimit(SubSeq(found, skip + 1, Len(found)), n), IsHard(n))
    BY DEF Query
<1>2. UNCHANGED <<rows, written, working, dropped>>
    BY DEF Query
<1> DEFINE due == SubSeq(found, skip + 1, Len(found))
<1>3. skip \in Nat /\ n \in Int
    BY SizesAssumption
<1>4. due \in RowSeq /\ \A row \in ToSet(due) : <<ns, row>> \notin dropped[c]
    BY <1>3, FoundIsThere
<1> HIDE DEF due
<1>5. Splits(DoLimit(due, n), due, IsHard(n)) /\ IsHard(n) \in BOOLEAN
    BY <1>3, <1>4, LimitSplits DEF IsHard
<1>6. Reply(c, NewId(c), ns, due, <<>>, DoLimit(due, n), IsHard(n))
    BY <1>1 DEF due
<1>7. CursorsTyped' /\ EveryRowOnce' /\ DroppedRowsAreGone'
    BY <1>2, <1>4, <1>5, <1>6, FirstReplyKeeps
<1> QED
    BY <1>2, <1>7, RowsStay

\* aggregate without $out.
LEMMA AggregateKeeps ==
    ASSUME IInv, NEW c \in Connections, NEW ns \in Collections, NEW option \in CursorOptions,
           Aggregate(c, ns, option)
    PROVE  IInv'
<1> USE DEF IInv, TypeOK
<1>1. UNCHANGED <<rows, written, working, dropped>>
    BY DEF Aggregate
<1>2. rows[ns] \in Seq(1..written) /\ written \in Nat
    BY DEF RowsTyped
<1>3. rows[ns] \in RowSeq
    <2>1. 1..written \subseteq Int
        OBVIOUS
    <2> QED
        BY <1>2, <2>1, WiderSequence DEF RowSeq
<1>4. ASSUME NEW row \in ToSet(rows[ns])
      PROVE  <<ns, row>> \notin dropped[c]
    <2>1. row \in 1..written
        BY <1>2, ElementsAreIn
    <2> QED
        BY <2>1 DEF DroppedIsNowhere
<1>5. ReplyWithCursor(c, ns, rows[ns], option)
    BY DEF Aggregate
<1>6. CursorsTyped' /\ EveryRowOnce' /\ DroppedRowsAreGone'
    BY <1>1, <1>3, <1>4, <1>5, ReplyWithCursorKeeps
<1> QED
    BY <1>1, <1>6, RowsStay

\* listCollections and listIndexes.
LEMMA ListKeeps ==
    ASSUME IInv, NEW c \in Connections, NEW option \in CursorOptions, List(c, option)
    PROVE  IInv'
<1> USE DEF IInv, TypeOK
<1> DEFINE n == Cardinality({ns \in Collections : rows[ns] # <<>>})
           lines == [i \in 1..n |-> -i]
<1>1. UNCHANGED <<rows, written, working, dropped>>
    BY DEF List
<1>2. ReplyWithCursor(c, Listings, lines, option)
    BY DEF List
<1>3. n \in Nat
    <2>1. IsFiniteSet({ns \in Collections : rows[ns] # <<>>})
        BY CollectionsAssumption, FS_Subset
    <2> QED
        BY <2>1, FS_CardinalityType
<1> HIDE DEF n
<1>4. lines \in RowSeq
    BY <1>3, IsASeq DEF RowSeq
<1>5. ASSUME NEW row \in ToSet(lines)
      PROVE  <<Listings, row>> \notin dropped[c]
    <2>1. row \notin 1..written
        BY <1>3 DEF ToSet
    <2> QED
        BY <2>1 DEF RowsTyped
<1> HIDE DEF lines
<1>6. CursorsTyped' /\ EveryRowOnce' /\ DroppedRowsAreGone'
    BY <1>1, <1>2, <1>4, <1>5, ReplyWithCursorKeeps
<1> QED
    BY <1>1, <1>6, RowsStay

\* OP_GET_MORE.
LEMMA GetMoreKeeps ==
    ASSUME IInv, NEW c \in Connections, NEW id \in DOMAIN seen[c], NEW n \in Sizes,
           GetMore(c, id, n)
    PROVE  IInv'
<1> USE DEF IInv, TypeOK
<1>1. UNCHANGED <<rows, written, working, dropped>>
    BY DEF GetMore
<1>2. cursors[c].table \in TablesOf(Cursor) /\ seen[c] \in TablesOf(Answer)
    BY DEF CursorsTyped
<1>3. CASE id \in DOMAIN cursors[c].table
    <2> DEFINE cursor == cursors[c].table[id]
               answer == seen[c][id]
               ns == cursor.ns
               rest == cursor.rest
               due == answer.due
               got == answer.got
    <2>1. Reply(c, id, ns, due, got, DoLimit(rest, n), IsHard(n))
        BY <1>3 DEF GetMore
    <2>2. cursor \in Cursor /\ answer \in Answer /\ id \in Nat
        BY <1>2, <1>3, InTable
    <2>3. /\ ns \in Collections \cup {Listings} /\ rest \in RowSeq
          /\ due \in RowSeq /\ got \in RowSeq
        BY <2>2 DEF Cursor, Answer
    <2>4. due = got \o rest
        BY <1>3 DEF EveryRowOnce
    <2>5. \A row \in ToSet(rest) : <<ns, row>> \notin dropped[c]
        BY <1>3 DEF DroppedRowsAreGone
    <2>6. id \in Nat
        BY <2>2
    <2> HIDE DEF ns, rest, due, got
    <2>7. Splits(DoLimit(rest, n), rest, IsHard(n))
        BY <2>3, SizesAssumption, LimitSplits
    <2>8. CursorsTyped' /\ EveryRowOnce' /\ DroppedRowsAreGone'
        BY <1>1, <2>1, <2>3, <2>4, <2>5, <2>6, <2>7, ReplyKeeps
    <2> QED
        BY <1>1, <2>8, RowsStay
<1>4. CASE id \notin DOMAIN cursors[c].table
    <2>1. /\ seen' = [seen EXCEPT ![c] = Without(seen[c], {id})]
          /\ cursors' = cursors /\ cutShort' = cutShort
        BY <1>4 DEF GetMore
    <2>2. Without(seen[c], {id}) \in TablesOf(Answer)
        BY <1>2, StillTables
    <2>3. CursorsTyped'
        BY <2>1, <2>2 DEF CursorsTyped
    <2>4. ASSUME NEW d \in Connections, NEW i \in DOMAIN cursors'[d].table
          PROVE  /\ i \in DOMAIN cursors[d].table
                 /\ cursors'[d].table[i] = cursors[d].table[i]
                 /\ i \in DOMAIN seen[d] => i \in DOMAIN seen'[d] /\ seen'[d][i] = seen[d][i]
        <3>1. DOMAIN seen = Connections
            BY DEF CursorsTyped
        <3>2. CASE d = c
            <4>1. i # id /\ i \in DOMAIN cursors[d].table
                BY <2>1, <1>4, <3>2
            <4>2. seen'[d] = Without(seen[d], {id})
                BY <2>1, <3>1, <3>2
            <4> QED
                BY <2>1, <4>1, <4>2 DEF Without
        <3>3. CASE d # c
            BY <2>1, <3>1, <3>3
        <3> QED
            BY <3>2, <3>3
    <2>5. \A d \in Connections : ~cutShort'[d]
        BY <2>1 DEF EveryRowOnce
    <2>6. EveryRowOnce' /\ DroppedRowsAreGone'
        BY <1>1, <2>4, <2>5, CursorsDwindle
    <2> QED
        BY <1>1, <2>3, <2>6, RowsStay
<1> QED
    BY <1>3, <1>4

\* OP_KILL_CURSORS.
LEMMA KillCursorsKeeps ==
    ASSUME IInv, NEW c \in Connections, NEW ids \in SUBSET DOMAIN seen[c], KillCursors(c, ids)
    PROVE  IInv'
<1> USE DEF IInv, TypeOK
<1> DEFINE left == Without(cursors[c].table, ids)
           known == Without(seen[c], ids)
<1>1. /\ UNCHANGED <<rows, written, working, dropped>>
      /\ cutShort' = cutShort
      /\ cursors' = [cursors EXCEPT ![c].table = left]
      /\ seen' = [seen EXCEPT ![c] = known]
    BY DEF KillCursors
<1>2. cursors[c].table \in TablesOf(Cursor) /\ seen[c] \in TablesOf(Answer)
    BY DEF CursorsTyped
<1>3. left \in TablesOf(Cursor) /\ known \in TablesOf(Answer)
    BY <1>2, StillTables
<1>4. CursorsTyped'
    <2> HIDE DEF left, known
    <2> QED
        BY <1>1, <1>3 DEF CursorsTyped
<1>5. ASSUME NEW d \in Connections, NEW i \in DOMAIN cursors'[d].table
      PROVE  /\ i \in DOMAIN cursors[d].table
             /\ cursors'[d].table[i] = cursors[d].table[i]
             /\ i \in DOMAIN seen[d] => i \in DOMAIN seen'[d] /\ seen'[d][i] = seen[d][i]
    <2>1. DOMAIN seen = Connections /\ DOMAIN cursors = Connections
        BY DEF CursorsTyped
    <2>2. CASE d = c
        <3>1. cursors'[d].table = left /\ seen'[d] = known
            <4> HIDE DEF left, known
            <4> QED
                BY <1>1, <2>1, <2>2 DEF CursorsTyped
        <3>2. i \in DOMAIN left
            BY <3>1
        <3> QED
            BY <2>2, <3>1, <3>2 DEF Without
    <2>3. CASE d # c
        <3>1. cursors'[d] = cursors[d] /\ seen'[d] = seen[d]
            BY <1>1, <2>1, <2>3
        <3> QED
            BY <3>1
    <2> QED
        BY <2>2, <2>3
<1>6. \A d \in Connections : ~cutShort'[d]
    BY <1>1 DEF EveryRowOnce
<1>7. EveryRowOnce' /\ DroppedRowsAreGone'
    BY <1>1, <1>5, <1>6, CursorsDwindle
<1> QED
    BY <1>1, <1>4, <1>7, RowsStay

-----------------------------------------------------------------------------
(* Messages that write.                                                    *)

\* A connection's cursors on a collection go, and the others stay.
LEMMA CursorsRemoved ==
    ASSUME CursorsTyped, EveryRowOnce, NEW c \in Connections, NEW ns \in Collections,
           cursors' = [cursors EXCEPT ![c].table = RemoveCursors(cursors[c].table, ns)],
           UNCHANGED <<seen, cutShort>>
    PROVE  /\ CursorsTyped'
           /\ cursors'[c].table = RemoveCursors(cursors[c].table, ns)
           /\ \A id \in DOMAIN cursors'[c].table : cursors[c].table[id].ns # ns
           /\ \A d \in Connections : \A id \in DOMAIN cursors'[d].table :
                  /\ id \in DOMAIN cursors[d].table
                  /\ cursors'[d].table[id] = cursors[d].table[id]
                  /\ id \in DOMAIN seen[d] => id \in DOMAIN seen'[d] /\ seen'[d][id] = seen[d][id]
           /\ \A d \in Connections : ~cutShort'[d]
<1> DEFINE left == RemoveCursors(cursors[c].table, ns)
<1>1. cursors[c].table \in TablesOf(Cursor)
    BY DEF CursorsTyped
<1>2. left \in TablesOf(Cursor)
    BY <1>1, StillTables DEF RemoveCursors
<1>3. \A id \in DOMAIN left :
          /\ id \in DOMAIN cursors[c].table
          /\ left[id] = cursors[c].table[id]
          /\ cursors[c].table[id].ns # ns
    BY DEF RemoveCursors, Without
<1> HIDE DEF left
<1>4. CursorsTyped'
    BY <1>2 DEF CursorsTyped, left
<1>5. /\ cursors'[c].table = left
      /\ \A d \in Connections : d # c => cursors'[d] = cursors[d]
    <2>1. DOMAIN cursors = Connections
        BY DEF CursorsTyped
    <2> QED
        BY <2>1 DEF CursorsTyped, left
<1>6. ASSUME NEW d \in Connections, NEW id \in DOMAIN cursors'[d].table
      PROVE  /\ id \in DOMAIN cursors[d].table
             /\ cursors'[d].table[id] = cursors[d].table[id]
    BY <1>3, <1>5
<1>7. \A d \in Connections : ~cutShort'[d]
    BY DEF EveryRowOnce
<1> QED
    BY <1>3, <1>4, <1>5, <1>6, <1>7 DEF left

\* The rows of a collection that goes are in no cursor left on it, and nowhere else.
LEMMA DiscardKeeps ==
    ASSUME IInv, NEW c \in Connections, NEW ns \in Collections, Discard(c, ns),
           UNCHANGED <<written, seen, cutShort>>,
           working' \in [Connections -> {Idle} \cup Out],
           \A d \in Connections : ResultsOf(d)' \subseteq ResultsOf(d)
    PROVE  IInv'
<1> USE DEF IInv, TypeOK
<1> DEFINE left == RemoveCursors(cursors[c].table, ns)
           had == UNION {ToSet(left[id].rest) : id \in DOMAIN left}
           gone == {ns} \X (ToSet(rows[ns]) \cap had)
<1>1. /\ cursors' = [cursors EXCEPT ![c].table = left]
      /\ rows' = [rows EXCEPT ![ns] = <<>>]
      /\ dropped' = [dropped EXCEPT ![c] = dropped[c] \cup gone]
    BY DEF Discard
<1> HIDE DEF had
<1>2. /\ \A other \in Collections : rows'[other] = IF other = ns THEN <<>> ELSE rows[other]
      /\ \A d \in Connections : dropped'[d] = IF d = c THEN dropped[c] \cup gone ELSE dropped[d]
    BY <1>1 DEF RowsTyped
<1>3. ToSet(rows[ns]) \subseteq 1..written
    <2>1. rows[ns] \in Seq(1..written)
        BY DEF RowsTyped
    <2> QED
        BY <2>1, ElementsAreIn
<1>4. gone \in SUBSET (Collections \X (1..written))
    BY <1>3
<1>5. RowsTyped'
    <2>1. rows' \in [Collections -> Seq(1..written)]
        <3>1. <<>> \in Seq(1..written)
            BY EmptySeq
        <3> QED
            BY <1>1, <3>1 DEF RowsTyped
    <2>2. dropped' \in [Connections -> SUBSET (Collections \X (1..written))]
        <3> HIDE DEF gone
        <3>1. dropped[c] \cup gone \in SUBSET (Collections \X (1..written))
            BY <1>4 DEF RowsTyped
        <3> QED
            BY <1>1, <3>1 DEF RowsTyped
    <2> QED
        BY <2>1, <2>2 DEF RowsTyped, Out
<1>6. \A other \in Collections : ToSet(rows'[other]) \subseteq ToSet(rows[other])
    BY <1>2, NoElements
<1>7. RowsAreApart'
    BY <1>6, RowsDwindle
<1>8. DroppedIsNowhere'
    <2>1. ASSUME NEW d \in Connections, NEW k \in Collections, NEW row \in 1..written',
                 <<k, row>> \in dropped'[d]
          PROVE  /\ \A other \in Collections : row \notin ToSet(rows'[other])
                 /\ \A e \in Connections : row \notin ResultsOf(e)'
        <3>1. CASE <<k, row>> \in dropped[d]
            <4>1. /\ \A other \in Collections : row \notin ToSet(rows[other])
                  /\ \A e \in Connections : row \notin ResultsOf(e)
                BY <3>1 DEF DroppedIsNowhere
            <4> QED
                BY <4>1, <1>6
        <3>2. CASE <<k, row>> \in gone
            <4>1. row \in ToSet(rows[ns])
                BY <3>2
            <4>2. ASSUME NEW other \in Collections
                  PROVE  row \notin ToSet(rows'[other])
                BY <4>1, <1>2, NoElements DEF RowsAreApart
            <4>3. \A e \in Connections : row \notin ResultsOf(e)'
                BY <4>1 DEF RowsAreApart
            <4> QED
                BY <4>2, <4>3
        <3> QED
            BY <2>1, <3>1, <3>2, <1>2
    <2> QED
        BY <2>1 DEF DroppedIsNowhere
<1>9. /\ CursorsTyped'
      /\ cursors'[c].table = left
      /\ \A id \in DOMAIN cursors'[c].table : cursors[c].table[id].ns # ns
      /\ \A d \in Connections : \A id \in DOMAIN cursors'[d].table :
             /\ id \in DOMAIN cursors[d].table
             /\ cursors'[d].table[id] = cursors[d].table[id]
             /\ id \in DOMAIN seen[d] => id \in DOMAIN seen'[d] /\ seen'[d][id] = seen[d][id]
      /\ \A d \in Connections : ~cutShort'[d]
    BY <1>1, CursorsRemoved
<1>10. ASSUME NEW d \in Connections, NEW id \in DOMAIN cursors'[d].table,
              NEW row, <<cursors[d].table[id].ns, row>> \in dropped'[d]
       PROVE  <<cursors[d].table[id].ns, row>> \in dropped[d]
    <2>1. CASE d = c
        <3>1. cursors[d].table[id].ns # ns
            BY <1>9, <2>1
        <3> QED
            BY <3>1, <2>1, <1>10, <1>2
    <2>2. CASE d # c
        BY <2>2, <1>10, <1>2
    <2> QED
        BY <2>1, <2>2
<1>11. EveryRowOnce' /\ DroppedRowsAreGone'
    BY <1>9, <1>10, CursorsDwindle
<1> QED
    BY <1>5, <1>7, <1>8, <1>9, <1>11

\* drop.
LEMMA DropCollectionKeeps ==
    ASSUME IInv, NEW c \in Connections, NEW ns \in Collections, DropCollection(c, ns)
    PROVE  IInv'
<1>1. /\ Discard(c, ns)
      /\ UNCHANGED <<written, working, seen, cutShort>>
    BY DEF DropCollection
<1>2. working' \in [Connections -> {Idle} \cup Out]
    BY <1>1 DEF IInv, TypeOK, RowsTyped, Out
<1>3. \A d \in Connections : ResultsOf(d)' \subseteq ResultsOf(d)
    BY <1>1 DEF ResultsOf
<1> QED
    BY <1>1, <1>2, <1>3, DiscardKeeps

\* $out clears the collection that it writes to.
LEMMA OutClearKeeps ==
    ASSUME IInv, NEW c \in Connections, OutClear(c)
    PROVE  IInv'
<1>1. /\ working[c].phase = "read"
      /\ Discard(c, working[c].out)
      /\ working' = [working EXCEPT ![c].phase = "cleared"]
      /\ UNCHANGED <<written, seen, cutShort>>
    BY DEF OutClear
<1>2. working \in [Connections -> {Idle} \cup Out]
    BY DEF IInv, TypeOK, RowsTyped
<1>3. working[c] \in Out
    BY <1>1, <1>2 DEF Idle
<1>4. working[c].out \in Collections
    BY <1>3 DEF Out
<1> DEFINE done == [working[c] EXCEPT !.phase = "cleared"]
<1>5. done \in Out /\ done.results = working[c].results
    BY <1>3 DEF Out
<1>6. /\ working' = [working EXCEPT ![c] = done]
      /\ done # Idle
    <2>1. done.phase # Idle.phase
        BY <1>3 DEF Out, Idle
    <2> QED
        BY <1>1, <2>1
<1> HIDE DEF done
<1>7. working' \in [Connections -> {Idle} \cup Out]
    BY <1>2, <1>5, <1>6
<1>8. \A d \in Connections : ResultsOf(d)' \subseteq ResultsOf(d)
    <2>1. working[c] # Idle
        BY <1>1 DEF Idle
    <2>2. \A d \in Connections : working'[d] = IF d = c THEN done ELSE working[d]
        BY <1>2, <1>6
    <2> QED
        BY <2>1, <2>2, <1>5, <1>6 DEF ResultsOf
<1> QED
    BY <1>1, <1>4, <1>7, <1>8, DiscardKeeps

\* deleteIndexes.
LEMMA DeleteIndexesKeeps ==
    ASSUME IInv, NEW c \in Connections, NEW ns \in Collections, DeleteIndexes(c, ns)
    PROVE  IInv'
<1> USE DEF IInv, TypeOK
<1>1. /\ cursors' = [cursors EXCEPT ![c].table = RemoveCursors(cursors[c].table, ns)]
      /\ UNCHANGED <<rows, written, working, seen, cutShort, dropped>>
    BY DEF DeleteIndexes
<1>2. /\ CursorsTyped'
      /\ \A d \in Connections : \A id \in DOMAIN cursors'[d].table :
             /\ id \in DOMAIN cursors[d].table
             /\ cursors'[d].table[id] = cursors[d].table[id]
             /\ id \in DOMAIN seen[d] => id \in DOMAIN seen'[d] /\ seen'[d][id] = seen[d][id]
      /\ \A d \in Connections : ~cutShort'[d]
    BY <1>1, CursorsRemoved
<1>3. EveryRowOnce' /\ DroppedRowsAreGone'
    BY <1>1, <1>2, CursorsDwindle
<1> QED
    BY <1>1, <1>2, <1>3, RowsStay

\* Steps that change no cursor and drop nothing.
LEMMA CursorsStay ==
    ASSUME CursorsTyped, EveryRowOnce, DroppedRowsAreGone,
           UNCHANGED <<cursors, seen, cutShort, dropped>>
    PROVE  CursorsTyped' /\ EveryRowOnce' /\ DroppedRowsAreGone'
<1>1. cursors' = cursors /\ seen' = seen /\ cutShort' = cutShort /\ dropped' = dropped
    OBVIOUS
<1> QED
    BY <1>1 DEF CursorsTyped, EveryRowOnce, DroppedRowsAreGone

\* Rows that a command moves or makes are not among those that were dropped.
Was(row) ==
    \/ \E ns \in Collections : row \in ToSet(rows[ns])
    \/ \E c \in Connections : row \in ResultsOf(c)

\* Rows that were written before may move, and no dropped row comes back.
LEMMA RowsMove ==
    ASSUME RowsTyped, DroppedIsNowhere, dropped' = dropped,
           \A ns \in Collections : \A row \in ToSet(rows'[ns]) : Was(row) \/ row \notin 1..written,
           \A c \in Connections : \A row \in ResultsOf(c)' : Was(row) \/ row \notin 1..written
    PROVE  DroppedIsNowhere'
<1>1. ASSUME NEW c \in Connections, NEW ns \in Collections, NEW row \in 1..written',
             <<ns, row>> \in dropped[c]
      PROVE  row \in 1..written /\ ~Was(row)
    <2>1. row \in 1..written
        BY <1>1 DEF RowsTyped
    <2> QED
        BY <1>1, <2>1 DEF DroppedIsNowhere, Was
<1> QED
    BY <1>1 DEF DroppedIsNowhere

\* The rows of collections and results are numbers that were given out.
LEMMA RowsAreWritten ==
    ASSUME RowsTyped
    PROVE  /\ \A ns \in Collections : rows[ns] \in Seq(1..written) /\ ToSet(rows[ns]) \subseteq 1..written
           /\ \A c \in Connections : ResultsOf(c) \subseteq 1..written
<1>1. ASSUME NEW ns \in Collections
      PROVE  rows[ns] \in Seq(1..written) /\ ToSet(rows[ns]) \subseteq 1..written
    <2>1. rows[ns] \in Seq(1..written)
        BY DEF RowsTyped
    <2> QED
        BY <2>1, ElementsAreIn
<1>2. ASSUME NEW c \in Connections
      PROVE  ResultsOf(c) \subseteq 1..written
    <2>1. CASE working[c] = Idle
        BY <2>1 DEF ResultsOf
    <2>2. CASE working[c] # Idle
        <3>1. working[c] \in Out
            BY <2>2 DEF RowsTyped
        <3>2. working[c].results \in Seq(1..written)
            BY <3>1 DEF Out
        <3> QED
            BY <2>2, <3>2, ElementsAreIn DEF ResultsOf
    <2> QED
        BY <2>1, <2>2
<1> QED
    BY <1>1, <1>2

\* dropDatabase.
LEMMA DropDatabaseKeeps ==
    ASSUME IInv, NEW c \in Connections, DropDatabase(c)
    PROVE  IInv'
<1> USE DEF IInv, TypeOK
<1>1. /\ rows' = [ns \in Collections |-> <<>>]
      /\ written' = written /\ working' = working /\ dropped' = dropped
      /\ UNCHANGED <<cursors, seen, cutShort, dropped>>
    BY DEF DropDatabase
<1>2. <<>> \in Seq(1..written)
    BY EmptySeq
<1>3. RowsTyped'
    BY <1>1, <1>2 DEF RowsTyped, Out
<1>4. \A ns \in Collections : ToSet(rows'[ns]) \subseteq ToSet(rows[ns])
    BY <1>1, NoElements
<1>5. \A d \in Connections : ResultsOf(d)' \subseteq ResultsOf(d)
    BY <1>1 DEF ResultsOf
<1>6. RowsAreApart' /\ DroppedIsNowhere'
    BY <1>1, <1>4, <1>5, RowsDwindle
<1> QED
    BY <1>1, <1>3, <1>6, CursorsStay

\* delete.
LEMMA DeleteKeeps ==
    ASSUME IInv, NEW c \in Connections, NEW ns \in Collections, NEW i \in DOMAIN rows[ns],
           Delete(c, ns, i)
    PROVE  IInv'
<1> USE DEF IInv, TypeOK
<1> DEFINE before == SubSeq(rows[ns], 1, i - 1)
           after == SubSeq(rows[ns], i + 1, Len(rows[ns]))
           left == before \o after
<1>1. /\ rows' = [rows EXCEPT ![ns] = left]
      /\ written' = written /\ working' = working /\ dropped' = dropped
      /\ UNCHANGED <<cursors, seen, cutShort, dropped>>
    BY DEF Delete, RemoveAt
<1>2. rows[ns] \in Seq(1..written) /\ i \in 1..Len(rows[ns])
    BY RowsAreWritten, LenProperties
<1>3. before \in Seq(1..written) /\ ToSet(before) \subseteq ToSet(rows[ns])
    <2> DEFINE n == i - 1
    <2>1. 1 \in 1..Len(rows[ns]) + 1 /\ n \in 1 - 1..Len(rows[ns])
        BY <1>2, LenProperties
    <2> HIDE DEF n
    <2>2. /\ SubSeq(rows[ns], 1, n) \in Seq(1..written)
          /\ ToSet(SubSeq(rows[ns], 1, n)) \subseteq ToSet(rows[ns])
        BY <1>2, <2>1, PartOfSequence
    <2> QED
        BY <2>2 DEF n
<1>4. after \in Seq(1..written) /\ ToSet(after) \subseteq ToSet(rows[ns])
    <2> DEFINE m == i + 1
               n == Len(rows[ns])
    <2>1. m \in 1..Len(rows[ns]) + 1 /\ n \in m - 1..Len(rows[ns])
        BY <1>2, LenProperties
    <2> HIDE DEF m, n
    <2>2. /\ SubSeq(rows[ns], m, n) \in Seq(1..written)
          /\ ToSet(SubSeq(rows[ns], m, n)) \subseteq ToSet(rows[ns])
        BY <1>2, <2>1, PartOfSequence
    <2> QED
        BY <2>2 DEF m, n
<1> HIDE DEF before, after
<1>5. left \in Seq(1..written) /\ ToSet(left) \subseteq ToSet(rows[ns])
    BY <1>3, <1>4, ElementsOfConcat
<1> HIDE DEF left
<1>6. RowsTyped'
    BY <1>1, <1>5 DEF RowsTyped, Out
<1>7. \A other \in Collections : rows'[other] = IF other = ns THEN left ELSE rows[other]
    BY <1>1 DEF RowsTyped
<1>8. \A d \in Connections : ResultsOf(d)' \subseteq ResultsOf(d)
    BY <1>1 DEF ResultsOf
<1>9. RowsAreApart' /\ DroppedIsNowhere'
    BY <1>1, <1>5, <1>7, <1>8, RowsDwindle
<1> QED
    BY <1>1, <1>6, <1>9, CursorsStay

\* renameCollection.
LEMMA RenameCollectionKeeps ==
    ASSUME IInv, NEW c \in Connections, NEW old \in Collections, NEW new \in Collections,
           RenameCollection(c, old, new)
    PROVE  IInv'
<1> USE DEF IInv, TypeOK
<1>1. /\ rows' = [rows EXCEPT ![old] = <<>>, ![new] = rows[old]]
      /\ old # new
      /\ written' = written /\ working' = working /\ dropped' = dropped
      /\ UNCHANGED <<cursors, seen, cutShort, dropped>>
    BY DEF RenameCollection
<1>2. \A ns \in Collections :
          rows'[ns] = IF ns = new THEN rows[old] ELSE IF ns = old THEN <<>> ELSE rows[ns]
    BY <1>1 DEF RowsTyped
<1>3. RowsTyped'
    <2>1. <<>> \in Seq(1..written)
        BY EmptySeq
    <2>2. rows[old] \in Seq(1..written)
        BY RowsAreWritten
    <2> QED
        BY <1>1, <2>1, <2>2 DEF RowsTyped, Out
<1>4. \A d \in Connections : ResultsOf(d)' = ResultsOf(d)
    BY <1>1 DEF ResultsOf
<1>5. RowsAreApart'
    BY <1>2, <1>4, NoElements DEF RowsAreApart
<1>6. DroppedIsNowhere'
    <2>1. \A ns \in Collections : \A row \in ToSet(rows'[ns]) : Was(row)
        BY <1>2, NoElements DEF Was
    <2>2. \A d \in Connections : \A row \in ResultsOf(d)' : Was(row)
        BY <1>4 DEF Was
    <2> QED
        BY <1>1, <2>1, <2>2, RowsMove
<1> QED
    BY <1>1, <1>3, <1>5, <1>6, CursorsStay

\* insert.
LEMMA InsertKeeps ==
    ASSUME IInv, NEW c \in Connections, NEW ns \in Collections, Insert(c, ns)
    PROVE  IInv'
<1> USE DEF IInv, TypeOK
<1> DEFINE row == written + 1
           longer == Append(rows[ns], row)
<1>1. /\ rows' = [rows EXCEPT ![ns] = longer]
      /\ written' = row /\ working' = working /\ dropped' = dropped
      /\ UNCHANGED <<cursors, seen, cutShort, dropped>>
    BY DEF Insert
<1>2. written \in Nat /\ row \in Nat /\ 1..written \subseteq 1..row /\ row \in 1..row
    BY DEF RowsTyped
<1>3. row \notin 1..written
    BY <1>2
<1> HIDE DEF row
<1>4. \A k \in Collections : rows[k] \in Seq(1..row)
    <2>1. \A k \in Collections : rows[k] \in Seq(1..written)
        BY RowsAreWritten
    <2> QED
        BY <1>2, <2>1, WiderSequence
<1>5. longer \in Seq(1..row) /\ ToSet(longer) = ToSet(rows[ns]) \cup {row}
    <2> DEFINE one == <<row>>
    <2>1. one \in Seq(1..row) /\ ToSet(one) = {row}
        BY <1>2 DEF ToSet
    <2>2. longer = rows[ns] \o one
        BY <1>2, <1>4, AppendIsConcat
    <2> HIDE DEF one, longer
    <2>3. rows[ns] \in Seq(1..row)
        BY <1>4
    <2> QED
        BY <2>1, <2>2, <2>3, ElementsOfConcat
<1> HIDE DEF longer
<1>6. \A k \in Collections : rows'[k] = IF k = ns THEN longer ELSE rows[k]
    BY <1>1 DEF RowsTyped
<1>7. RowsTyped'
    <2>1. rows' \in [Collections -> Seq(1..row)]
        BY <1>1, <1>4, <1>5 DEF RowsTyped
    <2>2. working \in [Connections -> {Idle} \cup
              [phase : {"read", "cleared"}, out : Collections, results : Seq(1..row)]]
        <3>1. Seq(1..written) \subseteq Seq(1..row)
            BY <1>2, SeqMonotonic
        <3> QED
            BY <3>1 DEF RowsTyped, Out
    <2>3. dropped \in [Connections -> SUBSET (Collections \X (1..row))]
        <3>1. Collections \X (1..written) \subseteq Collections \X (1..row)
            BY <1>2
        <3> QED
            BY <3>1 DEF RowsTyped
    <2> QED
        BY <1>1, <1>2, <2>1, <2>2, <2>3 DEF RowsTyped, Out
<1>8. \A d \in Connections : ResultsOf(d)' = ResultsOf(d)
    BY <1>1 DEF ResultsOf
<1>9. /\ \A k \in Collections : row \notin ToSet(rows[k])
      /\ \A d \in Connections : row \notin ResultsOf(d)
    BY <1>3, RowsAreWritten
<1>10. RowsAreApart'
    <2>1. \A k \in Collections : ToSet(rows'[k]) \subseteq ToSet(rows[k]) \cup {row}
        BY <1>5, <1>6
    <2>2. \A k \in Collections : k # ns => rows'[k] = rows[k]
        BY <1>6
    <2>3. ASSUME NEW k \in Collections, NEW other \in Collections, k # other
          PROVE  ToSet(rows'[k]) \cap ToSet(rows'[other]) = {}
        <3>1. ToSet(rows[k]) \cap ToSet(rows[other]) = {}
            BY <2>3 DEF RowsAreApart
        <3> QED
            BY <2>1, <2>2, <2>3, <3>1, <1>9
    <2>4. ASSUME NEW k \in Collections, NEW d \in Connections
          PROVE  ToSet(rows'[k]) \cap ResultsOf(d)' = {}
        <3>1. ToSet(rows[k]) \cap ResultsOf(d) = {}
            BY DEF RowsAreApart
        <3> QED
            BY <2>1, <3>1, <1>8, <1>9
    <2>5. \A d, e \in Connections : d # e => ResultsOf(d)' \cap ResultsOf(e)' = {}
        BY <1>8 DEF RowsAreApart
    <2> QED
        BY <2>3, <2>4, <2>5 DEF RowsAreApart
<1>11. DroppedIsNowhere'
    <2>1. \A k \in Collections : \A r \in ToSet(rows'[k]) : Was(r) \/ r \notin 1..written
        BY <1>3, <1>5, <1>6 DEF Was
    <2>2. \A d \in Connections : \A r \in ResultsOf(d)' : Was(r)
        BY <1>8 DEF Was
    <2> QED
        BY <1>1, <2>1, <2>2, RowsMove
<1> QED
    BY <1>1, <1>7, <1>10, <1>11, CursorsStay

-----------------------------------------------------------------------------
(* reply_aggregate with $out.                                              *)

\* aggregate with $out reads its results.
LEMMA OutReadKeeps ==
    ASSUME IInv, NEW c \in Connections, NEW ns \in Collections, NEW out \in Collections,
           OutRead(c, ns, out)
    PROVE  IInv'
<1> USE DEF IInv, TypeOK
<1> DEFINE last == written + Len(rows[ns])
           results == [i \in DOMAIN rows[ns] |-> written + i]
           job == [phase |-> "read", out |-> out, results |-> results]
<1>1. /\ written' = last
      /\ working' = [working EXCEPT ![c] = job]
      /\ working[c] = Idle
      /\ rows' = rows /\ dropped' = dropped
      /\ UNCHANGED <<cursors, seen, cutShort, dropped>>
    BY DEF OutRead, IsIdle
<1>2. /\ written \in Nat /\ Len(rows[ns]) \in Nat
      /\ DOMAIN rows[ns] = 1..Len(rows[ns])
    BY RowsAreWritten, LenProperties DEF RowsTyped
<1>3. last \in Nat /\ 1..written \subseteq 1..last
    BY <1>2
<1>4. results \in Seq(1..last) /\ ToSet(results) \subseteq written + 1..last
    <2>1. results = [i \in 1..Len(rows[ns]) |-> written + i]
        BY <1>2
    <2>2. \A i \in 1..Len(rows[ns]) : written + i \in 1..last /\ written + i \in written + 1..last
        BY <1>2
    <2>3. results \in [1..Len(rows[ns]) -> 1..last]
        BY <2>1, <2>2
    <2>4. results \in Seq(1..last)
        BY <2>3, <1>2, SeqDef
    <2>5. ToSet(results) \subseteq written + 1..last
        BY <2>2, <1>2 DEF ToSet
    <2> QED
        BY <2>4, <2>5
<1> HIDE DEF last, results
<1>5. job # Idle /\ job.results = results
    <2>1. job.phase # Idle.phase
        BY DEF Idle
    <2> QED
        BY <2>1
<1>6. Seq(1..written) \subseteq Seq(1..last)
    BY <1>3, SeqMonotonic
<1>7. RowsTyped'
    <2> DEFINE Jobs == [phase : {"read", "cleared"}, out : Collections, results : Seq(1..last)]
    <2>1. rows' \in [Collections -> Seq(1..last)]
        BY <1>1, <1>6 DEF RowsTyped
    <2>2. Out \subseteq Jobs /\ job \in Jobs
        BY <1>4, <1>6 DEF Out
    <2>3. working' \in [Connections -> {Idle} \cup Jobs]
        <3> HIDE DEF Jobs, job
        <3> QED
            BY <1>1, <2>2 DEF RowsTyped
    <2>4. dropped \in [Connections -> SUBSET (Collections \X (1..last))]
        <3>1. Collections \X (1..written) \subseteq Collections \X (1..last)
            BY <1>3
        <3> QED
            BY <3>1 DEF RowsTyped
    <2> QED
        BY <1>1, <1>3, <2>1, <2>3, <2>4 DEF RowsTyped, Out
<1> HIDE DEF job
<1>8. /\ ResultsOf(c) = {} /\ ResultsOf(c)' = ToSet(results)
      /\ \A d \in Connections : d # c => ResultsOf(d)' = ResultsOf(d)
    <2>1. \A d \in Connections : working'[d] = IF d = c THEN job ELSE working[d]
        BY <1>1 DEF RowsTyped
    <2> QED
        BY <2>1, <1>1, <1>5 DEF ResultsOf
<1>9. ToSet(results) \cap 1..written = {}
    BY <1>2, <1>4
<1>10. /\ \A k \in Collections : ToSet(rows[k]) \cap ToSet(results) = {}
       /\ \A d \in Connections : ResultsOf(d) \cap ToSet(results) = {}
    BY <1>9, RowsAreWritten
<1>11. RowsAreApart'
    <2>1. \A k \in Collections, d \in Connections : ToSet(rows'[k]) \cap ResultsOf(d)' = {}
        BY <1>1, <1>8, <1>10 DEF RowsAreApart
    <2>2. ASSUME NEW d \in Connections, NEW e \in Connections, d # e
          PROVE  ResultsOf(d)' \cap ResultsOf(e)' = {}
        <3>1. ResultsOf(d) \cap ResultsOf(e) = {}
            BY <2>2 DEF RowsAreApart
        <3> QED
            BY <2>2, <3>1, <1>8, <1>10
    <2> QED
        BY <1>1, <2>1, <2>2 DEF RowsAreApart
<1>12. DroppedIsNowhere'
    <2>1. \A k \in Collections : \A r \in ToSet(rows'[k]) : Was(r)
        BY <1>1 DEF Was
    <2>2. \A d \in Connections : \A r \in ResultsOf(d)' : Was(r) \/ r \notin 1..written
        BY <1>8, <1>9 DEF Was
    <2> QED
        BY <1>1, <2>1, <2>2, RowsMove
<1> QED
    BY <1>1, <1>7, <1>11, <1>12, CursorsStay

\* What becomes of results when a connection is done with them.
LEMMA WorkIsDone ==
    ASSUME RowsTyped, NEW c \in Connections, working' = [working EXCEPT ![c] = Idle]
    PROVE  /\ ResultsOf(c)' = {}
           /\ \A d \in Connections : d # c => ResultsOf(d)' = ResultsOf(d)
<1>1. \A d \in Connections : working'[d] = IF d = c THEN Idle ELSE working[d]
    BY DEF RowsTyped
<1> QED
    BY <1>1 DEF ResultsOf

\* $out writes what was read.
LEMMA OutWriteKeeps ==
    ASSUME IInv, NEW c \in Connections, NEW option \in CursorOptions, OutWrite(c, option)
    PROVE  IInv'
<1> USE DEF IInv, TypeOK
<1> DEFINE out == working[c].out
           results == working[c].results
           longer == rows[out] \o results
           none == <<>>
<1>1. /\ working[c].phase = "cleared"
      /\ rows' = [rows EXCEPT ![out] = longer]
      /\ working' = [working EXCEPT ![c] = Idle]
      /\ written' = written /\ dropped' = dropped
    BY DEF OutWrite
<1>2. ReplyWithCursor(c, out, none, option)
    BY DEF OutWrite
<1>3. working[c] # Idle /\ working[c] \in Out
    BY <1>1 DEF RowsTyped, Idle
<1>4. out \in Collections /\ results \in Seq(1..written) /\ ResultsOf(c) = ToSet(results)
    BY <1>3 DEF Out, ResultsOf
<1>5. none \in RowSeq /\ ToSet(none) = {}
    BY NoElements, EmptySeq DEF RowSeq
<1> HIDE DEF out, results, none
<1>6. CursorsTyped' /\ EveryRowOnce' /\ DroppedRowsAreGone'
    BY <1>1, <1>2, <1>4, <1>5, ReplyWithCursorKeeps
<1>7. longer \in Seq(1..written) /\ ToSet(longer) = ToSet(rows[out]) \cup ResultsOf(c)
    <2>1. rows[out] \in Seq(1..written)
        BY <1>4, RowsAreWritten
    <2> QED
        BY <1>4, <2>1, ElementsOfConcat
<1> HIDE DEF longer
<1>8. \A k \in Collections : rows'[k] = IF k = out THEN longer ELSE rows[k]
    BY <1>1 DEF RowsTyped
<1>9. RowsTyped'
    <2>1. working' \in [Connections -> {Idle} \cup Out]
        BY <1>1 DEF RowsTyped
    <2> QED
        BY <1>1, <1>7, <2>1 DEF RowsTyped, Out
<1>10. /\ ResultsOf(c)' = {}
       /\ \A d \in Connections : d # c => ResultsOf(d)' = ResultsOf(d)
    BY <1>1, WorkIsDone
<1>11. RowsAreApart'
    <2>1. ASSUME NEW k \in Collections, NEW other \in Collections, k # other
          PROVE  ToSet(rows'[k]) \cap ToSet(rows'[other]) = {}
        <3>1. /\ ToSet(rows[k]) \cap ToSet(rows[other]) = {}
              /\ ToSet(rows[k]) \cap ResultsOf(c) = {} /\ ToSet(rows[other]) \cap ResultsOf(c) = {}
            BY <2>1 DEF RowsAreApart
        <3> QED
            BY <2>1, <3>1, <1>7, <1>8
    <2>2. ASSUME NEW k \in Collections, NEW d \in Connections
          PROVE  ToSet(rows'[k]) \cap ResultsOf(d)' = {}
        <3>1. CASE d = c
            BY <3>1, <1>10
        <3>2. CASE d # c
            <4>1. /\ ToSet(rows[k]) \cap ResultsOf(d) = {}
                  /\ ResultsOf(c) \cap ResultsOf(d) = {}
                BY <3>2 DEF RowsAreApart
            <4> QED
                BY <3>2, <4>1, <1>7, <1>8, <1>10
        <3> QED
            BY <3>1, <3>2
    <2>3. \A d, e \in Connections : d # e => ResultsOf(d)' \cap ResultsOf(e)' = {}
        BY <1>10 DEF RowsAreApart
    <2> QED
        BY <2>1, <2>2, <2>3 DEF RowsAreApart
<1>12. DroppedIsNowhere'
    <2>1. \A k \in Collections : \A r \in ToSet(rows'[k]) : Was(r)
        BY <1>4, <1>7, <1>8 DEF Was
    <2>2. \A d \in Connections : \A r \in ResultsOf(d)' : Was(r)
        BY <1>10 DEF Was
    <2> QED
        BY <1>1, <2>1, <2>2, RowsMove
<1> QED
    BY <1>6, <1>9, <1>11, <1>12

\* $out fails and leaves the collection cleared.
LEMMA OutFailKeeps ==
    ASSUME IInv, NEW c \in Connections, OutFail(c)
    PROVE  IInv'
<1> USE DEF IInv, TypeOK
<1>1. /\ working' = [working EXCEPT ![c] = Idle]
      /\ rows' = rows /\ written' = written /\ dropped' = dropped
      /\ UNCHANGED <<cursors, seen, cutShort, dropped>>
    BY DEF OutFail
<1>2. RowsTyped'
    <2>1. working' \in [Connections -> {Idle} \cup Out]
        BY <1>1 DEF RowsTyped
    <2> QED
        BY <1>1, <2>1 DEF RowsTyped, Out
<1>3. \A d \in Connections : ResultsOf(d)' \subseteq ResultsOf(d)
    BY <1>1, WorkIsDone
<1>4. RowsAreApart' /\ DroppedIsNowhere'
    BY <1>1, <1>3, RowsDwindle
<1> QED
    BY <1>1, <1>2, <1>4, CursorsStay

-----------------------------------------------------------------------------
(* The theorems.                                                           *)

\* A table of nothing.
LEMMA EmptyTable ==
    ASSUME NEW S
    PROVE  <<>> \in TablesOf(S) /\ DOMAIN <<>> = {}
<1> DEFINE none == [i \in {} |-> i]
<1>1. none \in [{} -> S] /\ {} \in SUBSET Nat
    OBVIOUS
<1>2. <<>> = none
    OBVIOUS
<1> QED
    BY <1>1, <1>2 DEF TablesOf

\* A connection ends, and its cursors with it.
LEMMA ReconnectKeeps ==
    ASSUME IInv, NEW c \in Connections, Reconnect(c)
    PROVE  IInv'
<1> USE DEF IInv, TypeOK
<1> DEFINE none == <<>>
<1>1. /\ cursors' = [cursors EXCEPT ![c] = [num |-> 0, table |-> none]]
      /\ seen' = [seen EXCEPT ![c] = none]
      /\ cutShort' = [cutShort EXCEPT ![c] = FALSE]
      /\ dropped' = [dropped EXCEPT ![c] = {}]
      /\ rows' = rows /\ written' = written /\ working' = working
    BY DEF Reconnect, Fresh
<1>2. none \in TablesOf(Cursor) /\ none \in TablesOf(Answer) /\ DOMAIN none = {}
    BY EmptyTable
<1> HIDE DEF none
<1>3. CursorsTyped'
    BY <1>1, <1>2 DEF CursorsTyped
<1>4. RowsTyped'
    BY <1>1 DEF RowsTyped, Out
<1>5. \A d \in Connections : dropped'[d] = IF d = c THEN {} ELSE dropped[d]
    BY <1>1 DEF RowsTyped
<1>6. RowsAreApart' /\ DroppedIsNowhere'
    <2>1. \A d \in Connections : ResultsOf(d)' = ResultsOf(d)
        BY <1>1 DEF ResultsOf
    <2> QED
        BY <1>1, <1>5, <2>1, RowsDwindle
<1>7. ASSUME NEW d \in Connections, NEW id \in DOMAIN cursors'[d].table
      PROVE  /\ d # c
             /\ cursors'[d] = cursors[d] /\ seen'[d] = seen[d]
    <2>1. DOMAIN cursors = Connections /\ DOMAIN seen = Connections
        BY DEF CursorsTyped
    <2>2. cursors'[c].table = none
        BY <1>1, <2>1
    <2>3. d # c
        BY <1>2, <2>2, <1>7
    <2> QED
        BY <1>1, <2>1, <2>3
<1>8. \A d \in Connections : ~cutShort'[d]
    BY <1>1 DEF EveryRowOnce, CursorsTyped
<1>9. EveryRowOnce' /\ DroppedRowsAreGone'
    BY <1>5, <1>7, <1>8, CursorsDwindle
<1> QED
    BY <1>3, <1>4, <1>6, <1>9

\* No rows, no cursors.
LEMMA InitIsGood == Init => IInv
<1> SUFFICES ASSUME Init
             PROVE  IInv
    OBVIOUS
<1> DEFINE none == <<>>
<1>1. /\ rows = [ns \in Collections |-> none]
      /\ written = 0
      /\ cursors = [c \in Connections |-> [num |-> 0, table |-> none]]
      /\ working = [c \in Connections |-> Idle]
      /\ seen = [c \in Connections |-> none]
      /\ cutShort = [c \in Connections |-> FALSE]
      /\ dropped = [c \in Connections |-> {}]
    BY DEF Init, Fresh
<1>2. /\ none \in TablesOf(Cursor) /\ none \in TablesOf(Answer) /\ DOMAIN none = {}
      /\ none \in Seq(1..written) /\ ToSet(none) = {}
    BY EmptyTable, EmptySeq, NoElements
<1> HIDE DEF none
<1>3. RowsTyped
    BY <1>1, <1>2 DEF RowsTyped, Out
<1>4. CursorsTyped
    BY <1>1, <1>2 DEF CursorsTyped
<1>5. RowsAreApart
    BY <1>1, <1>2 DEF RowsAreApart, ResultsOf
<1>6. DroppedIsNowhere
    BY <1>1 DEF DroppedIsNowhere
<1>7. EveryRowOnce /\ DroppedRowsAreGone
    BY <1>1, <1>2 DEF EveryRowOnce, DroppedRowsAreGone
<1> QED
    BY <1>3, <1>4, <1>5, <1>6, <1>7 DEF IInv, TypeOK

\* Every action keeps the invariant.
LEMMA StepKeeps == IInv /\ [Next]_vars => IInv'
<1> SUFFICES ASSUME IInv, [Next]_vars
             PROVE  IInv'
    OBVIOUS
<1>1. CASE UNCHANGED vars
    <2>1. /\ UNCHANGED <<rows, written, working, dropped>>
          /\ UNCHANGED <<cursors, seen, cutShort, dropped>>
        BY <1>1 DEF vars
    <2> QED
        BY <2>1, RowsStay, CursorsStay DEF IInv, TypeOK
<1>2. ASSUME NEW c \in Connections, Message(c)
      PROVE  IInv'
    <2>1. ASSUME NEW ns \in Collections, NEW skip \in Skips, NEW n \in Sizes, Query(c, ns, skip, n)
          PROVE  IInv'
        BY <2>1, QueryKeeps
    <2>2. ASSUME NEW ns \in Collections, NEW option \in CursorOptions, Aggregate(c, ns, option)
          PROVE  IInv'
        BY <2>2, AggregateKeeps
    <2>3. ASSUME NEW option \in CursorOptions, List(c, option)
          PROVE  IInv'
        BY <2>3, ListKeeps
    <2>4. ASSUME NEW id \in DOMAIN seen[c], NEW n \in Sizes, GetMore(c, id, n)
          PROVE  IInv'
        BY <2>4, GetMoreKeeps
    <2>5. ASSUME NEW ids \in SUBSET DOMAIN seen[c], KillCursors(c, ids)
          PROVE  IInv'
        BY <2>5, KillCursorsKeeps
    <2>6. ASSUME NEW ns \in Collections,
                 DropCollection(c, ns) \/ DeleteIndexes(c, ns) \/ Insert(c, ns)
          PROVE  IInv'
        BY <2>6, DropCollectionKeeps, DeleteIndexesKeeps, InsertKeeps
    <2>7. ASSUME NEW ns \in Collections, NEW i \in DOMAIN rows[ns], Delete(c, ns, i)
          PROVE  IInv'
        BY <2>7, DeleteKeeps
    <2>8. CASE DropDatabase(c)
        BY <2>8, DropDatabaseKeeps
    <2>9. ASSUME NEW old \in Collections, NEW new \in Collections, RenameCollection(c, old, new)
          PROVE  IInv'
        BY <2>9, RenameCollectionKeeps
    <2>10. ASSUME NEW ns \in Collections, NEW out \in Collections, OutRead(c, ns, out)
           PROVE  IInv'
        BY <2>10, OutReadKeeps
    <2> QED
        BY <1>2, <2>1, <2>2, <2>3, <2>4, <2>5, <2>6, <2>7, <2>8, <2>9, <2>10 DEF Message
<1>3. ASSUME NEW c \in Connections, Work(c)
      PROVE  IInv'
    BY <1>3, OutClearKeeps, OutWriteKeeps, OutFailKeeps DEF Work
<1>4. ASSUME NEW c \in Connections, Reconnect(c)
      PROVE  IInv'
    BY <1>4, ReconnectKeeps
<1> QED
    BY <1>1, <1>2, <1>3, <1>4 DEF Next

\* The inductive invariant: types, where rows are, and the two properties.
THEOREM Inductive == Spec => []IInv
BY InitIsGood, StepKeeps, PTL DEF Spec

\* Whatever clients, other connections and commands do in between, batches lose no
\* row and give none out twice, and an end that is announced is one (grab, do_limit,
\* reply_with_cursor, reply_2005).
THEOREM NoRowIsLost == Spec => []EveryRowOnce
<1>1. IInv => EveryRowOnce
    BY DEF IInv
<1> QED
    BY <1>1, Inductive, PTL

\* A connection that dropped a collection or replaced it by $out never returns its
\* rows under that name again (remove_cursors_for_collection in reply_drop_collection
\* and reply_aggregate).
THEOREM DroppedRowsStayGone == Spec => []DroppedRowsAreGone
<1>1. IInv => DroppedRowsAreGone
    BY DEF IInv
<1> QED
    BY <1>1, Inductive, PTL
=============================================================================
