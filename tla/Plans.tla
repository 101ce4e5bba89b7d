------------------------------- MODULE Plans -------------------------------
(***************************************************************************)
(* Which index a query uses and what a scan of it finds: elmo/src/lib.rs,  *)
(* choose_index and get_index_entries, and storage/lsm/src/lib.rs,         *)
(* get_reader_regular_index_scan.                                          *)
(*                                                                         *)
(* An index is [name, keys, sparse, unique]; a key is a path and whether   *)
(* it runs backward.  A plan is an index, a bound and the values of the    *)
(* bound.  Text indexes are left out: a scan of one is unimplemented.      *)
(***************************************************************************)
EXTENDS Matcher, FiniteSets

IdIndex == [name |-> "_id_", keys |-> <<<<<<"_id">>, FALSE>>>>, sparse |-> FALSE, unique |-> TRUE]

NoPlan == [bound |-> "none"]
Refused == [bound |-> "refused"]
Plan(index, bound, vals) == [bound |-> bound, index |-> index, vals |-> vals]

-----------------------------------------------------------------------------
(* The entries of a document.                                              *)

WholeArrayOnly(vals) == {vals}

\* maybe_array: every array, and each of its items in its place.
RECURSIVE Multikey(_)
Multikey(vals) ==
    LET with(i, x) == [j \in DOMAIN vals |-> IF j = i THEN <<x, vals[j][2]>> ELSE vals[j]]
    IN  {vals} \cup
        UNION {UNION {Multikey(with(i, x)) : x \in ToSet(Items(vals[i][1]))} :
                  i \in {j \in DOMAIN vals : IsArr(vals[j][1])}}

\* get_index_entries: a sparse index skips what is undefined.  What is kept is
\* closed up, so a later key's value can stand in an earlier place.
AllDefined(vals) == [i \in DOMAIN vals |-> <<ReplaceUndefined(vals[i][1]), vals[i][2]>>]

IndexEntries(doc, index) ==
    Multikey(AllDefined(
        SelectSeq([i \in DOMAIN index.keys |-> <<ValueAt(doc, index.keys[i][1]), index.keys[i][2]>>],
                  LAMBDA t : ~(index.sparse /\ t[1] = Undefined))))

-----------------------------------------------------------------------------
(* Scans.                                                                  *)

\* What runs backward is encoded with every bit inverted.
CompareField(s, t) == (IF s[2] THEN -1 ELSE 1) * CompareEncoded(s[1], t[1])

\* An entry next to the values of a bound.  An entry that is shorter goes on with
\* a record id, which is below every value while ids are small; what a longer one
\* goes on with is looked at by InBounds.
CompareToBound(entry, vals) ==
    Lexicographic(SubSeq(entry, 1, IF Len(entry) < Len(vals) THEN Len(entry) ELSE Len(vals)),
                  vals, CompareField)

\* f_gt, f_lt and the range of EQ.  Behind the values of a bound come other
\* fields and, unless the index is unique, a record id; the bound is moved past
\* them when there is a record id.
IsInBounds(c, bound, inFrontOfFields) ==
    CASE bound = "eq" -> c = 0
      [] bound = "gt" -> c > 0 \/ (c = 0 /\ inFrontOfFields)
      [] bound = "gte" -> c >= 0
      [] bound = "lt" -> c < 0
      [] bound = "lte" -> c < 0 \/ (c = 0 /\ ~inFrontOfFields)
InBounds(entry, plan) ==
    IsInBounds(CompareToBound(entry, plan.vals), plan.bound,
               plan.index.unique /\ Len(entry) > Len(plan.vals))

\* A finite set as a sequence.
InOrder(S, Before(_, _)) ==
    [n \in 1..Cardinality(S) |->
        CHOOSE x \in S : Cardinality({y \in S : Before(y, x)}) = n - 1]

Reached(doc, plan) == {e \in IndexEntries(doc, plan.index) : InBounds(e, plan)}

\* The entries of an index that are in the bounds, in order, as <<entry, record>>.
EntriesInOrder(docs, plan) ==
    LET found == UNION {Reached(docs[r], plan) \X {r} : r \in DOMAIN docs}
        c(x, y) == Lexicographic(x[1], y[1], CompareField)
    IN  InOrder(found, LAMBDA x, y : c(x, y) < 0 \/ (c(x, y) = 0 /\ x[2] < y[2]))

EveryEntry(s) == s

\* The records, each where it comes first.
Distinct(s) == FoldLeft(LAMBDA t, r : IF Contains(t, r) THEN t ELSE Append(t, r), <<>>, s)

\* The records a plan reads: without an index all of them, in their order.
Records(entries) == [i \in DOMAIN entries |-> entries[i][2]]
Scan(docs, plan) ==
    IF plan = NoPlan THEN InOrder(DOMAIN docs, <)
    ELSE Distinct(Records(EntriesInOrder(docs, plan)))

-----------------------------------------------------------------------------
(* Plans.                                                                  *)

\* find_compares_eq refuses two different values for one path.
Conflicting(eqs) == \E c, d \in eqs : c.path = d.path /\ c.v # d.v
ConflictingEq(query) == Conflicting(ToSet(Equalities(query)))

\* find_compares_ineq: of the lower bounds of a path the least, or else of the
\* upper bounds the least; strict ones come first.
Below(c, d) ==
    \/ Compare(c.v, d.v) < 0
    \/ Compare(c.v, d.v) = 0 /\ c.op \in {"gt", "lt"} /\ d.op \notin {"gt", "lt"}
LeastOf(s) == SelectSeq(s, LAMBDA c : ~\E i \in DOMAIN s : Below(s[i], c))
Having(comparisons, ops) == SelectSeq(comparisons, LAMBDA c : c.op \in ops)
FirstOf(s, t) == IF s # <<>> THEN <<Head(s)>> ELSE SubSeq(t, 1, IF t = <<>> THEN 0 ELSE 1)
Bound(comparisons) ==
    FirstOf(LeastOf(Having(comparisons, {"gt", "gte"})), LeastOf(Having(comparisons, {"lt", "lte"})))

OnPath(comparisons, path) == SelectSeq(comparisons, LAMBDA c : c.path = path)

\* fit_index_to_query: equalities for the first keys, and for the next one an
\* equality or an inequality.  eqs has the equalities of each key.
UsableKeys(eqs, sparse) ==
    Cardinality({i \in DOMAIN eqs : \A j \in 1..i :
                     eqs[j] # <<>> /\ ~(sparse /\ eqs[j][1].v = Null)})
EqFields(eqs, keys) == [i \in DOMAIN eqs |-> <<eqs[i][1].v, keys[i][2]>>]
FitWithBound(index, fields, next) ==
    CASE next # <<>> -> Plan(index, next[1].op,
                             Append(fields, <<next[1].v, index.keys[Len(fields) + 1][2]>>))
      [] next = <<>> /\ fields # <<>> -> Plan(index, "eq", fields)
      [] next = <<>> /\ fields = <<>> -> NoPlan
FitWithFields(index, fields, comparisons) ==
    FitWithBound(index, fields,
        IF Len(fields) < Len(index.keys)
        THEN Bound(OnPath(comparisons, index.keys[Len(fields) + 1][1])) ELSE <<>>)
FitWithEqs(index, eqs, comparisons) ==
    FitWithFields(index, EqFields(SubSeq(eqs, 1, UsableKeys(eqs, index.sparse)), index.keys),
                  comparisons)
Fit(index, query) ==
    FitWithEqs(index, [i \in DOMAIN index.keys |-> OnPath(Equalities(query), index.keys[i][1])],
               Comparisons(query))

\* choose_from_possibles: the hint if it fits, or else the last that is on _id, or
\* else the first.
Named(fits, name) == SelectSeq(fits, LAMBDA p : p.index.name = name)
ChooseFrom(fits, hint) ==
    HeadOr(Named(fits, hint) \o Named(fits, "_id_") \o fits, NoPlan)

\* choose_index.  "natural" is no index at all.
ChooseIndex(indexes, query, hint) ==
    CASE hint = "natural" -> NoPlan
      [] hint # "natural" /\ ConflictingEq(query) -> Refused
      [] hint # "natural" /\ ~ConflictingEq(query) ->
            ChooseFrom(SelectSeq([i \in DOMAIN indexes |-> Fit(indexes[i], query)],
                                 LAMBDA p : p # NoPlan), hint)

\* What a reader yields: the records of the scan that the query matches, with
\* the position of the match.
Rows(docs, records, query) ==
    SelectSeq([i \in DOMAIN records |->
                  [record |-> records[i], match |-> MatchQuery(query, docs[records[i]])]],
              LAMBDA row : row.match.ok)
=============================================================================
