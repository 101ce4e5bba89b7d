------------------------------ MODULE Updates ------------------------------
(***************************************************************************)
(* What update operators make of a document: elmo/src/lib.rs,              *)
(* apply_update_ops, the check for conflicts, upserts, and the order that  *)
(* documents are sorted in.                                                *)
(*                                                                         *)
(* An operator is what parse_update_doc makes of its part of the update, a *)
(* sequence that begins with a name and a path.  An operation that returns *)
(* Err yields Error, whatever it did to its copy of the document before.   *)
(***************************************************************************)
EXTENDS Matcher, FiniteSets

-----------------------------------------------------------------------------
(* Sorting.                                                                *)

\* array_min_max: the first that none is below, or above.
Extreme(items, judge) ==
    items[SelectInSeq(items, LAMBDA v : \A i \in DOMAIN items : Compare(items[i], v) # judge)]

\* cmpdir: next to something else an array counts as its least item, or as its
\* greatest when the order is reversed.
CompareDir(d, lit, reverse) ==
    LET of(v, other) == IF IsArr(v) /\ ~IsArr(other) /\ Items(v) # <<>>
                        THEN Extreme(Items(v), IF reverse THEN 1 ELSE -1) ELSE v
    IN  (IF reverse THEN -1 ELSE 1) * Compare(of(d, lit), of(lit, d))

FirstLeaf(v, path) == OrNull(HeadOr(Leaves(v, path), Leaf(Missing, NoPosition)).v)

\* do_sort_docs and do_sort, by keys <<path, backward>>: the sort is stable.
\* compare_values_at_path looks at the first leaf.
CompareByKeys(d, e, keys) ==
    HeadOr(SelectSeq([k \in DOMAIN keys |->
                         CompareDir(FirstLeaf(d, keys[k][1]), FirstLeaf(e, keys[k][1]), keys[k][2])],
                     LAMBDA c : c # 0),
           0)
InFrontOf(i, items, keys) ==
    {j \in (DOMAIN items) \ {i} :
        CompareByKeys(items[j], items[i], keys) < (IF j < i THEN 1 ELSE 0)}
Sorted(items, keys) ==
    [n \in DOMAIN items |->
        items[CHOOSE i \in DOMAIN items : Cardinality(InFrontOf(i, items, keys)) = n - 1]]

-----------------------------------------------------------------------------
(* One operator.                                                           *)

\* fix_positional: the first "$" is the position the matcher reported.
FixPositional(path, pos) ==
    IF pos = NoPosition \/ ~Contains(path, "$") THEN path
    ELSE [path EXCEPT ![SelectInSeq(path, LAMBDA name : name = "$")] = NameOf(pos)]

\* The entry is replaced by what F makes of it, or the result is absent when
\* there is none.
SetUnlessError(doc, path, x) == IF x = Error THEN Error ELSE SetPath(doc, path, x)
ChangedEntry(doc, path, e, F(_), absent) ==
    CASE e = Error -> Error
      [] e = Missing -> absent
      [] OTHER -> SetUnlessError(doc, path, F(e))
Changed(doc, path, F(_), absent) ==
    ChangedEntry(doc, path, Entry(doc, path), F, absent)

\* The same, of an array.
ChangedArray(doc, path, F(_), absent) ==
    Changed(doc, path, LAMBDA e : IF IsArr(e) THEN Arr(F(Items(e))) ELSE Error, absent)

\* $inc and $mul keep the kind of the number; NaN stays.
Arithmetic(e, v, F(_, _)) ==
    CASE ~IsNumeric(e) -> Error
      [] e = NaN -> NaN
      [] OTHER -> <<e[1], F(e[2], v[2])>>

\* What $slice leaves: the first, or with a negative number the last.
Sliced(items, n) ==
    IF n >= 0 THEN SubSeq(items, 1, IF n < Len(items) THEN n ELSE Len(items))
    ELSE SubSeq(items, IF -n < Len(items) THEN Len(items) + n + 1 ELSE 1, Len(items))

\* $push, with $each, $position, $sort and $slice, of which the last three are
\* sequences that can be empty.  A position beyond the end panics.
Pushed(items, p) ==
    LET at == IF p.position = <<>> THEN Len(items) ELSE p.position[1]
        sorted(all) == IF p.sort = <<>> THEN all ELSE Sorted(all, p.sort)
        sliced(all) == IF p.slice = <<>> THEN all ELSE Sliced(all, p.slice[1])
    IN  sliced(sorted(SubSeq(items, 1, at) \o p.each \o SubSeq(items, at + 1, Len(items))))

Added(items, v) == IF Contains(items, v) THEN items ELSE Append(items, v)

\* $pop, from the end or from the start.
Popped(items, n) ==
    CASE items = <<>> -> items
      [] items # <<>> /\ n > 0 -> Front(items)
      [] items # <<>> /\ n <= 0 -> Tail(items)

\* $rename refuses to dive into arrays.
Moved(e, without, new) == IF e \in {Error, Missing} THEN without ELSE SetPath(without, new, e)
Renamed(doc, old, new) ==
    IF DivesIntoArray(doc, old) \/ DivesIntoArray(doc, new) THEN Error
    ELSE Moved(Entry(doc, old), UnsetPath(doc, old), new)

\* One pass of the loop of apply_update_ops.  $currentDate sets what the update
\* gives as the time.
AppliedAt(doc, op, path, isUpsert, pos) ==
    LET v == op[3]
        set == SetPath(doc, path, v)
    IN  CASE op[1] \in {"min", "max"} ->
                Changed(doc, path, LAMBDA e :
                    IF Compare(v, e) = (IF op[1] = "min" THEN -1 ELSE 1) THEN v ELSE e, set)
          [] op[1] = "inc" ->
                IF ~IsNumeric(v) THEN Error
                ELSE Changed(doc, path, LAMBDA e :
                         IF v[2] = 0 THEN e ELSE Arithmetic(e, v, LAMBDA m, n : m + n), set)
          [] op[1] = "mul" ->
                IF ~IsNumeric(v) THEN Error
                ELSE Changed(doc, path, LAMBDA e : Arithmetic(e, v, LAMBDA m, n : m * n), set)
          [] op[1] \in {"set", "currentDate"} -> set
          [] op[1] = "setOnInsert" -> IF isUpsert THEN set ELSE doc
          [] op[1] = "bit" ->
                Changed(doc, path, LAMBDA e : IF e[1] = "int" THEN Integer(v[e[2]]) ELSE Error, Error)
          [] op[1] = "push" ->
                ChangedArray(doc, path, LAMBDA s : Pushed(s, v), SetPath(doc, path, Arr(v.each)))
          [] op[1] = "addToSet" ->
                ChangedArray(doc, path, LAMBDA s : FoldLeft(Added, s, v),
                             SetPath(doc, path, Arr(FoldLeft(Added, <<>>, v))))
          [] op[1] = "pullAll" ->
                ChangedArray(doc, path, LAMBDA s : SelectSeq(s, LAMBDA x : ~Contains(v, x)), Error)
          [] op[1] = "pullQuery" ->
                ChangedArray(doc, path, LAMBDA s : SelectSeq(s, LAMBDA x : ~Matches(v, x)), Error)
          [] op[1] = "pullPredicates" ->
                ChangedArray(doc, path,
                    LAMBDA s : SelectSeq(s, LAMBDA x : ~MatchPredList(v, x).ok), Error)
          [] op[1] = "pop" -> ChangedArray(doc, path, LAMBDA s : Popped(s, v), doc)
          [] op[1] = "unset" -> UnsetPath(doc, path)
          [] op[1] = "rename" -> Renamed(doc, path, FixPositional(v, pos))
Applied(doc, op, isUpsert, pos) ==
    AppliedAt(doc, op, FixPositional(op[2], pos), isUpsert, pos)

\* apply_update_ops.
RECURSIVE ApplyUpdateOps(_, _, _, _)
ApplyUpdateOps(doc, ops, isUpsert, pos) ==
    IF doc = Error \/ ops = <<>> THEN doc
    ELSE ApplyUpdateOps(Applied(doc, Head(ops), isUpsert, pos), Tail(ops), isUpsert, pos)

-----------------------------------------------------------------------------
(* Conflicts.                                                              *)

\* check_prefix.
Conflict(p, q) == IsPrefix(p, q) \/ IsPrefix(q, p)

Paths(op) == IF op[1] = "rename" THEN <<op[2], op[3]>> ELSE <<op[2]>>

\* check_update_doc_for_conflicts, on the paths as they were written.
HasConflictExceptWithin(ops) ==
    LET a == FlattenSeq([i \in DOMAIN ops |-> Paths(ops[i])])
    IN  \E i, j \in DOMAIN a : i < j /\ a[i] = a[j]

HasConflict(ops) ==
    LET a == FlattenSeq([i \in DOMAIN ops |-> Paths(ops[i])])
    IN  \E i, j \in DOMAIN a : i < j /\ Conflict(a[i], a[j])

-----------------------------------------------------------------------------
(* Documents that an update inserts.  NoId stands for an _id that is made  *)
(* up, which is unlike every other.                                        *)

\* build_upsert_with_update_operators, on an id that ensure_id would make up.
FromEqualities(eqs) ==
    FoldLeft(LAMBDA d, c : IF d = Error THEN Error ELSE SetPath(d, c.path, c.v), Doc(<<>>), eqs)
WithUpsertId(doc, new, madeUp) ==
    CASE new = Error -> Error
      [] new # Error /\ Id(new) = Missing -> WithChild(new, "_id", madeUp)
      [] new # Error /\ Id(new) # Missing ->
            IF Id(doc) \notin {Missing, Id(new)} THEN Error ELSE new
UpsertFrom(doc, ops, madeUp) ==
    WithUpsertId(doc, ApplyUpdateOps(doc, ops, TRUE, NoPosition), madeUp)
UpsertWithOperators(query, ops, madeUp) ==
    UpsertFrom(FromEqualities(Equalities(query)), ops, madeUp)

\* build_simple_upsert; queryId is the _id the query was written with.
SimpleUpsert(queryId, new, madeUp) ==
    CASE Id(new) = Missing -> WithChild(new, "_id", IF queryId = Missing THEN madeUp ELSE queryId)
      [] Id(new) # Missing -> IF queryId \notin {Missing, Id(new)} THEN Error ELSE new
=============================================================================
