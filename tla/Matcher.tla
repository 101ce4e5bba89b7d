------------------------------ MODULE Matcher ------------------------------
(***************************************************************************)
(* Which documents a query matches: elmo/src/matcher.rs.                   *)
(*                                                                         *)
(* A query is the sequence parse_query makes: <<"compare", path, preds>>,  *)
(* <<"and", queries>>, <<"or", queries>>, <<"nor", queries>>.  A predicate *)
(* is <<name, argument>>.                                                  *)
(*                                                                         *)
(* Next to whether it matches, the matcher reports the last position in an *)
(* array at which something did: what "$" stands for in an update.  The    *)
(* callback that sets it is never undone, so the position is handed on     *)
(* through everything that is tried.                                       *)
(***************************************************************************)
EXTENDS Bson

Result(ok, pos) == [ok |-> ok, pos |-> pos]

\* Iterator::any and all: M is tried until one decides.
AnyOf(s, M(_, _), pos) ==
    FoldLeft(LAMBDA r, x : IF r.ok THEN r ELSE M(x, r.pos), Result(FALSE, pos), s)
AllOf(s, M(_, _), pos) ==
    FoldLeft(LAMBDA r, x : IF r.ok THEN M(x, r.pos) ELSE r, Result(TRUE, pos), s)
Negated(r) == [r EXCEPT !.ok = ~@]

-----------------------------------------------------------------------------
(* Comparing one value with a literal.                                     *)

SameType(d, lit) == OrderOf(d) = OrderOf(lit)

Eq(d, lit) == SameType(d, lit) /\ Compare(d, lit) = 0
Lt(d, lit) == SameType(d, lit) /\ d # NaN /\ lit # NaN /\ Compare(d, lit) < 0
Gt(d, lit) == SameType(d, lit) /\ d # NaN /\ lit # NaN /\ Compare(d, lit) > 0

\* The comparisons.  cmp_lte_gte: NaN is equal to itself.
Holds(op, d, lit) ==
    \/ op \in {"eq", "lte", "gte"} /\ Eq(d, lit)
    \/ op \in {"lt", "lte"} /\ Lt(d, lit)
    \/ op \in {"gt", "gte"} /\ Gt(d, lit)

\* get_type_number, of the kinds that are modelled.
TypeNumber ==
    [dbl |-> 1, nan |-> 1, str |-> 2, doc |-> 3, arr |-> 4, undefined |-> 6,
     oid |-> 7, null |-> 10, int |-> 16]

-----------------------------------------------------------------------------
(* Predicates.                                                             *)

\* A leaf that is missing is taken for null, but by some predicates for nothing.
OrNull(v) == IF v = Missing THEN Null ELSE v

\* cmp_with_array: the value itself, or the first item of an array.
FirstItem(v, Test(_)) == IF IsArr(v) THEN SelectInSeq(Items(v), Test) ELSE 0
AtItem(i, pos) == IF i = 0 THEN Result(FALSE, pos) ELSE Result(TRUE, i - 1)
WithArray(Test(_), pos, leafPos, v) ==
    IF Test(v) THEN Result(TRUE, IF leafPos = NoPosition THEN pos ELSE leafPos)
    ELSE AtItem(FirstItem(v, Test), pos)

AnyLeaf(leaves, Test(_), pos) ==
    AnyOf(leaves, LAMBDA l, p : WithArray(Test, p, l.pos, OrNull(l.v)), pos)

\* $all and $in do not report where.
AnyLeafAnywhere(leaves, Test(_), pos) ==
    AnyOf(leaves, LAMBDA l, p : WithArray(Test, p, NoPosition, OrNull(l.v)), pos)

\* The array at a leaf has an item that is tried with success.
ItemsWithPosition(v) ==
    IF IsArr(v) THEN [i \in DOMAIN Items(v) |-> <<Items(v)[i], i - 1>>] ELSE <<>>
MatchedAt(r, pos) == IF r.ok THEN Result(TRUE, pos) ELSE r
AnyItem(leaves, M(_, _), pos) ==
    AnyOf(FlattenSeq([i \in DOMAIN leaves |-> ItemsWithPosition(leaves[i].v)]),
          LAMBDA x, p : MatchedAt(M(x[1], p), x[2]), pos)

\* Rust's remainder has the sign of the number that is divided.
Remainder(n, div) == IF n >= 0 THEN n % div ELSE -((-n) % div)

\* match_walk, match_query_item and match_query_doc.
RECURSIVE MatchWalk(_, _, _), MatchPreds(_, _, _), MatchItem(_, _, _),
          MatchDoc(_, _, _), MatchContainer(_, _, _)
MatchWalk(pred, leaves, pos) ==
    LET op == pred[1]
        arg == pred[2]
        present == {leaves[i].v : i \in DOMAIN leaves} \ {Missing}
    IN  CASE op \in {"eq", "lt", "gt", "lte", "gte"} ->
                AnyLeaf(leaves, LAMBDA v : Holds(op, v, arg), pos)
          [] op = "ne" -> Negated(MatchWalk(<<"eq", arg>>, leaves, pos))
          [] op = "all" ->
                IF arg = <<>> THEN Result(FALSE, pos)
                ELSE AllOf(arg, LAMBDA lit, p : AnyLeafAnywhere(leaves, LAMBDA v : Eq(v, lit), p), pos)
          [] op = "in" ->
                AnyOf(arg, LAMBDA lit, p : AnyLeafAnywhere(leaves, LAMBDA v : Eq(v, lit), p), pos)
          [] op = "nin" -> Negated(MatchWalk(<<"in", arg>>, leaves, pos))
          [] op = "exists" -> Result(arg = (present # {}), pos)
          [] op = "not" ->
                AnyOf(arg, LAMBDA s, p : Negated(MatchWalk(s, leaves, p)), pos)
          [] op = "type" ->
                AnyOf(leaves, LAMBDA l, p :
                    IF l.v = Missing THEN Result(FALSE, p)
                    ELSE WithArray(LAMBDA v : TypeNumber[v[1]] = arg, p, l.pos, l.v), pos)
          [] op = "size" ->
                Result(\E v \in present : IsArr(v) /\ Len(Items(v)) = arg, pos)
          [] op = "mod" ->
                Result(\E v \in present : v[1] \in {"int", "dbl"} /\ Remainder(v[2], arg[1]) = arg[2], pos)
          [] op = "elemMatch" ->
                AnyItem(leaves, LAMBDA x, p : MatchContainer(arg, x, p), pos)
          [] op = "allElemMatch" ->
                AllOf(arg, LAMBDA q, p : MatchWalk(<<"elemMatch", q>>, leaves, p), pos)
          [] op = "elemMatchPreds" ->
                AnyItem(leaves, LAMBDA x, p : MatchPreds(arg, FakeLeaves(x), p), pos)
MatchPreds(preds, leaves, pos) == AllOf(preds, LAMBDA s, p : MatchWalk(s, leaves, p), pos)
MatchItem(item, v, pos) ==
    CASE item[1] = "compare" -> MatchPreds(item[3], Leaves(v, item[2]), pos)
      [] item[1] = "and" -> AllOf(item[2], LAMBDA q, p : MatchDoc(q, v, p), pos)
      [] item[1] = "or" -> AnyOf(item[2], LAMBDA q, p : MatchDoc(q, v, p), pos)
      [] item[1] = "nor" -> Negated(MatchItem(<<"or", item[2]>>, v, pos))
MatchDoc(query, v, pos) == AllOf(query, LAMBDA item, p : MatchItem(item, v, p), pos)
MatchContainer(query, v, pos) ==
    IF IsContainer(v) THEN MatchDoc(query, v, pos) ELSE Result(FALSE, pos)

\* match_query and match_pred_list.
MatchQuery(query, v) == MatchDoc(query, v, NoPosition)
MatchPredList(preds, v) == MatchPreds(preds, FakeLeaves(v), NoPosition)

Matches(query, v) == MatchQuery(query, v).ok

-----------------------------------------------------------------------------
(* The comparisons a query is sure to make: those of its own and of what   *)
(* its "and"s contain.                                                     *)

RECURSIVE Comparisons(_)
Comparisons(query) ==
    FlattenSeq([i \in DOMAIN query |->
        CASE query[i][1] = "compare" ->
                [j \in DOMAIN query[i][3] |->
                    [path |-> query[i][2], op |-> query[i][3][j][1], v |-> query[i][3][j][2]]]
          [] query[i][1] = "and" ->
                FlattenSeq([j \in DOMAIN query[i][2] |-> Comparisons(query[i][2][j])])
          [] OTHER -> <<>>])

EqualitiesAtTop(query) ==
    SelectSeq(Comparisons(SelectSeq(query, LAMBDA item : item[1] = "compare")),
              LAMBDA c : c.op = "eq")

\* get_eqs.
Equalities(query) == SelectSeq(Comparisons(query), LAMBDA c : c.op = "eq")
=============================================================================
