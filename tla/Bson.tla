-------------------------------- MODULE Bson --------------------------------
(***************************************************************************)
(* Values, their order, and paths into them: bson/src/lib.rs, with the     *)
(* order of elmo/src/matcher.rs.                                           *)
(*                                                                         *)
(* A value is a pair of its kind and what it holds: a number stands for    *)
(* the text of a string, a document holds a sequence of <<name, value>>,   *)
(* an array a sequence of values.  The widths of integers are left out; an *)
(* integer and a double are different values that can compare as equal.    *)
(* A path is a sequence of names.                                          *)
(***************************************************************************)
EXTENDS Integers, Sequences, SequencesExt

\* Every name the checked instances use, in the order of their bytes.
NamesInOrder == <<"$", "0", "1", "2", "_id", "a", "b", "c">>
RankOf == [n \in ToSet(NamesInOrder) |-> CHOOSE i \in DOMAIN NamesInOrder : NamesInOrder[i] = n]

\* The names that parse as a usize.
IndexOf == [n \in {"0", "1", "2"} |-> CASE n = "0" -> 0 [] n = "1" -> 1 [] n = "2" -> 2]
IsIndex(name) == name \in DOMAIN IndexOf
NameOf(i) == CHOOSE n \in DOMAIN IndexOf : IndexOf[n] = i

Undefined == <<"undefined", 0>>
Null == <<"null", 0>>
NaN == <<"nan", 0>>
Integer(n) == <<"int", n>>
Double(n) == <<"dbl", n>>
Text(n) == <<"str", n>>
Doc(pairs) == <<"doc", pairs>>
Arr(items) == <<"arr", items>>

\* Not values: what a walk does not find, and an operation that returns Err.
Missing == <<"missing", 0>>
Error == <<"error", 0>>

IsDoc(v) == v[1] = "doc"
IsArr(v) == v[1] = "arr"
IsContainer(v) == IsDoc(v) \/ IsArr(v)
IsNumeric(v) == v[1] \in {"int", "dbl", "nan"}
Items(v) == v[2]

-----------------------------------------------------------------------------
(* Order.                                                                  *)

\* get_type_order.
TypeOrder ==
    [undefined |-> 0, null |-> 5, int |-> 10, dbl |-> 10, nan |-> 10,
     str |-> 15, doc |-> 20, arr |-> 25, oid |-> 35]
OrderOf(v) == TypeOrder[v[1]]

Sign(n) == CASE n < 0 -> -1 [] n = 0 -> 0 [] n > 0 -> 1

\* The first difference decides, or else the length.
HeadOr(s, default) == IF s = <<>> THEN default ELSE Head(s)
Lexicographic(s, t, C(_, _)) ==
    HeadOr(SelectSeq([i \in 1..(IF Len(s) < Len(t) THEN Len(s) ELSE Len(t)) |-> C(s[i], t[i])],
                     LAMBDA c : c # 0),
           Sign(Len(s) - Len(t)))

\* cmp_f64: NaN is below every number.
CompareNumbers(d, lit) ==
    CASE d = NaN /\ lit = NaN -> 0
      [] d = NaN /\ lit # NaN -> -1
      [] d # NaN /\ lit = NaN -> 1
      [] d # NaN /\ lit # NaN -> Sign(d[2] - lit[2])

\* A name before its value.
ComparePairs(p, q, C(_, _)) ==
    IF p[1] # q[1] THEN Sign(RankOf[p[1]] - RankOf[q[1]]) ELSE C(p[2], q[2])

\* matcher::cmp, which is also $min's and $max's order.
RECURSIVE Compare(_, _)
Compare(d, lit) ==
    CASE OrderOf(d) # OrderOf(lit) -> Sign(OrderOf(d) - OrderOf(lit))
      [] IsNumeric(d) /\ IsNumeric(lit) -> CompareNumbers(d, lit)
      [] IsArr(d) /\ IsArr(lit) -> Lexicographic(Items(d), Items(lit), Compare)
      [] IsDoc(d) /\ IsDoc(lit) ->
            Lexicographic(Items(d), Items(lit), LAMBDA p, q : ComparePairs(p, q, Compare))
      [] OTHER -> Sign(d[2] - lit[2])

\* The order of what encode_for_index writes: a longer document or array is
\* greater, whatever it holds.
RECURSIVE CompareEncoded(_, _)
CompareEncoded(d, lit) ==
    CASE OrderOf(d) # OrderOf(lit) -> Sign(OrderOf(d) - OrderOf(lit))
      [] IsNumeric(d) /\ IsNumeric(lit) -> CompareNumbers(d, lit)
      [] IsContainer(d) /\ Len(Items(d)) # Len(Items(lit)) ->
            Sign(Len(Items(d)) - Len(Items(lit)))
      [] IsArr(d) /\ IsArr(lit) -> Lexicographic(Items(d), Items(lit), CompareEncoded)
      [] IsDoc(d) /\ IsDoc(lit) ->
            Lexicographic(Items(d), Items(lit), LAMBDA p, q : ComparePairs(p, q, CompareEncoded))
      [] OTHER -> Sign(d[2] - lit[2])

-----------------------------------------------------------------------------
(* Children.                                                               *)

Position(doc, name) == SelectInSeq(Items(doc), LAMBDA p : p[1] = name)

\* Document::get, and the item of an array.
Child(v, name) ==
    IF IsDoc(v)
    THEN LET i == Position(v, name) IN IF i = 0 THEN Missing ELSE Items(v)[i][2]
    ELSE LET i == IndexOf[name]
         IN  IF i < Len(Items(v)) THEN Items(v)[i + 1] ELSE Missing

Nulls(n) == [i \in 1..n |-> Null]

\* Document::set, EntryFound::replace, and EntryAbsent::insert of what is missing
\* here: a document gets the name at its end, an array is filled up with nulls.
WithChild(v, name, x) ==
    IF IsDoc(v)
    THEN LET i == Position(v, name)
         IN  IF i = 0 THEN Doc(Append(Items(v), <<name, x>>))
             ELSE Doc([Items(v) EXCEPT ![i] = <<name, x>>])
    ELSE LET i == IndexOf[name]
         IN  IF i < Len(Items(v)) THEN Arr([Items(v) EXCEPT ![i + 1] = x])
             ELSE Arr(Items(v) \o Nulls(i - Len(Items(v))) \o <<x>>)

\* EntryFound::unset: an item of an array becomes null.
WithoutChild(v, name) ==
    IF IsDoc(v) THEN Doc(RemoveAt(Items(v), Position(v, name))) ELSE WithChild(v, name, Null)

-----------------------------------------------------------------------------
(* Paths that lead to one place: entry, set_path, unset_path.              *)

\* What entry() refuses to dive into.
Refuses(v, name) == ~IsContainer(v) \/ (IsArr(v) /\ ~IsIndex(name))

\* entry: what is there, or Missing, or Error.
RECURSIVE Entry(_, _)
Entry(v, path) ==
    CASE Refuses(v, Head(path)) -> Error
      [] ~Refuses(v, Head(path)) ->
            LET c == Child(v, Head(path))
            IN  IF c = Missing \/ Len(path) = 1 THEN c ELSE Entry(c, Tail(path))

\* What EntryAbsent::insert makes where the path leads into nothing.
NewAncestor(v, name) ==
    IF IsArr(v) THEN Error ELSE IF IsIndex(name) THEN Arr(<<>>) ELSE Doc(<<>>)

ChildOrNew(v, name) ==
    IF Child(v, name) = Missing THEN NewAncestor(v, name) ELSE Child(v, name)
WithChildUnlessError(v, name, x) == IF x = Error THEN Error ELSE WithChild(v, name, x)

\* set_path.
RECURSIVE SetPath(_, _, _)
SetPath(v, path, x) ==
    CASE Refuses(v, Head(path)) -> Error
      [] ~Refuses(v, Head(path)) /\ Len(path) = 1 -> WithChild(v, Head(path), x)
      [] ~Refuses(v, Head(path)) /\ Len(path) > 1 ->
            WithChildUnlessError(v, Head(path),
                                 SetPath(ChildOrNew(v, Head(path)), Tail(path), x))

\* unset_path.
RECURSIVE UnsetPath(_, _)
UnsetPath(v, path) ==
    CASE Entry(v, path) \in {Error, Missing} -> IF Entry(v, path) = Error THEN Error ELSE v
      [] OTHER ->
            IF Len(path) = 1 THEN WithoutChild(v, Head(path))
            ELSE WithChild(v, Head(path), UnsetPath(Child(v, Head(path)), Tail(path)))

\* dives_into_any_array.
RECURSIVE DivesIntoArray(_, _)
DivesIntoArray(doc, path) ==
    LET c == Child(doc, Head(path))
    IN  /\ Len(path) > 1
        /\ \/ IsArr(c)
           \/ IsDoc(c) /\ DivesIntoArray(c, Tail(path))

-----------------------------------------------------------------------------
(* Paths that lead to many places: walk_path and leaves.                   *)

NoPosition == -1
Leaf(v, pos) == [v |-> v, pos |-> pos]

\* A document yields a leaf for what it does not have; an array yields the item
\* that the name is the index of, and what its subdocuments yield for the whole
\* path, and nothing else.  pos is the last index on the way.
RECURSIVE LeavesOfDoc(_, _, _), LeavesOfArr(_, _), LeavesOfItem(_, _)
LeavesOfDoc(doc, path, pos) ==
    LET c == Child(doc, Head(path))
    IN  CASE Len(path) = 1 -> <<Leaf(c, pos)>>
          [] Len(path) > 1 /\ IsDoc(c) -> LeavesOfDoc(c, Tail(path), pos)
          [] Len(path) > 1 /\ IsArr(c) -> LeavesOfArr(c, Tail(path))
          [] Len(path) > 1 /\ ~IsContainer(c) -> <<Leaf(Missing, pos)>>
LeavesOfArr(arr, path) ==
    LeavesOfItem(IF IsIndex(Head(path)) THEN Child(arr, Head(path)) ELSE Missing, path)
    \o FlattenSeq([j \in DOMAIN Items(arr) |->
           IF IsDoc(Items(arr)[j]) THEN LeavesOfDoc(Items(arr)[j], path, j - 1) ELSE <<>>])
LeavesOfItem(item, path) ==
    CASE item = Missing -> <<>>
      [] item # Missing /\ Len(path) = 1 -> <<Leaf(item, IndexOf[Head(path)])>>
      [] Len(path) > 1 /\ IsDoc(item) -> LeavesOfDoc(item, Tail(path), IndexOf[Head(path)])
      [] Len(path) > 1 /\ IsArr(item) -> LeavesOfArr(item, Tail(path))
      [] OTHER -> <<>>

\* Value::walk_path(path).leaves(), and fake_walk's.
Leaves(v, path) ==
    CASE IsDoc(v) -> LeavesOfDoc(v, path, NoPosition)
      [] IsArr(v) -> LeavesOfArr(v, path)
      [] OTHER -> <<Leaf(Missing, NoPosition)>>
FakeLeaves(v) == <<Leaf(v, NoPosition)>>

\* hack_like_find_path: several leaves become an array.
ValueOf(leaves) ==
    LET value(l) == IF l.v = Missing THEN Undefined ELSE l.v
    IN  IF Len(leaves) = 1 THEN value(leaves[1])
        ELSE IF leaves = <<>> THEN Undefined
        ELSE Arr([i \in DOMAIN leaves |-> value(leaves[i])])
ValueAt(v, path) == ValueOf(Leaves(v, path))

\* replace_undefined, which looks one level deep.
ReplaceUndefined(v) ==
    LET null(x) == IF x = Undefined THEN Null ELSE x
    IN  CASE v = Undefined -> Null
          [] IsArr(v) -> Arr([i \in DOMAIN Items(v) |-> null(Items(v)[i])])
          [] IsDoc(v) -> Doc([i \in DOMAIN Items(v) |->
                                 <<Items(v)[i][1], null(Items(v)[i][2])>>])
          [] OTHER -> v

-----------------------------------------------------------------------------
(* What may be stored: validate_id, validate_keys.                         *)

RECURSIVE KeysAreValid(_)
KeysAreValid(v) ==
    CASE IsDoc(v) -> \A i \in DOMAIN Items(v) :
                         Items(v)[i][1] # "$" /\ KeysAreValid(Items(v)[i][2])
      [] IsArr(v) -> \A i \in DOMAIN Items(v) : KeysAreValid(Items(v)[i])
      [] OTHER -> TRUE

Id(doc) == Child(doc, "_id")
HasValidId(doc) == Id(doc) # Missing /\ ~IsArr(Id(doc)) /\ Id(doc) # Undefined

\* validate_id also moves the _id to the front.
IdFirst(doc) ==
    LET i == Position(doc, "_id") IN Doc(<<Items(doc)[i]>> \o RemoveAt(Items(doc), i))
=============================================================================
