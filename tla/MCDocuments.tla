---------------------------- MODULE MCDocuments ----------------------------
(***************************************************************************)
(* A checked instance of Documents: documents with scalars, arrays and     *)
(* documents in arrays at the paths that queries, updates and indexes name.*)
(***************************************************************************)
EXTENDS Documents

One1 == Integer(1)
Two == Integer(2)
Field(name, v) == <<name, v>>
Is(path, op, v) == <<"compare", path, <<<<op, v>>>>>>
A == <<"a">>
B == <<"b">>
AB == <<"a", "b">>
C == <<"c">>
AC == <<"a", "c">>
A0 == <<"a", "0">>
A1 == <<"a", "1">>

MCInserts ==
    {Doc(<<Field("a", One1), Field("b", Two)>>),
     Doc(<<Field("_id", One1), Field("a", Arr(<<Double(1), Two>>))>>),
     Doc(<<Field("a", Arr(<<Doc(<<Field("b", Null)>>), Doc(<<Field("b", Two)>>)>>))>>)}

MCQueries ==
    {<<>>,
     <<Is(A, "eq", One1)>>,
     <<Is(A, "gt", One1)>>,
     <<Is(AB, "eq", Two)>>,
     <<Is(B, "lte", Two), Is(A, "eq", One1)>>}

MCHints == {"", "a"}

Update(query, ops, new, multi, upsert) ==
    [query |-> query, queryId |-> Missing, ops |-> ops, new |-> new, multi |-> multi,
     upsert |-> upsert]

MCChanges ==
    {Update(<<Is(A, "eq", One1)>>, <<<<"set", <<"a", "$">>, Two>>>>, Null, FALSE, FALSE),
     Update(<<Is(B, "eq", Two)>>, <<<<"set", <<"_id">>, One1>>>>, Null, TRUE, FALSE),
     Update(<<<<"and", <<<<Is(AB, "eq", One1)>>, <<Is(B, "eq", One1)>>>>>>>>,
            <<<<"set", AC, Null>>>>, Null, FALSE, TRUE),
     Update(<<<<"and", <<<<Is(B, "eq", Two)>>>>>>>>,
            <<<<"setOnInsert", C, One1>>, <<"unset", A, Null>>>>, Null, FALSE, TRUE),
     Update(<<>>, <<<<"rename", AB, C>>, <<"unset", AC, Null>>>>, Null, TRUE, FALSE),
     Update(<<>>, <<<<"set", A0, One1>>, <<"pop", A, 1>>>>, Null, TRUE, FALSE),
     Update(<<Is(AB, "eq", Two)>>,
            <<<<"push", A, [each |-> <<One1>>, position |-> <<0>>, sort |-> <<>>, slice |-> <<2>>]>>>>,
            Null, FALSE, FALSE),
     Update(<<Is(A, "elemMatch", <<Is(B, "eq", Two)>>)>>,
            <<<<"inc", <<"a", "$", "b">>, Integer(-1)>>>>, Null, FALSE, FALSE),
     Update(<<<<"nor", <<<<Is(A, "size", 1)>>, <<Is(A, "in", <<One1>>)>>>>>>>>,
            <<<<"pullQuery", A, <<Is(B, "eq", Null)>>>>, <<"max", B, One1>>>>, Null, TRUE, FALSE),
     Update(<<Is(A, "all", <<One1, Two>>)>>,
            <<<<"pullAll", A, <<Double(1)>>>>, <<"mul", B, Two>>>>, Null, TRUE, FALSE),
     Update(<<Is(B, "eq", Two)>>, <<>>, Doc(<<Field("a", Arr(<<Two>>))>>), FALSE, TRUE)}

MCModifies ==
    {[query |-> <<>>, queryId |-> Missing, sort |-> <<<<B, TRUE>>, <<A, FALSE>>>>,
      ops |-> <<<<"min", B, One1>>>>, new |-> Null, remove |-> FALSE, upsert |-> FALSE],
     [query |-> <<Is(<<"_id">>, "eq", Two)>>, queryId |-> Two, sort |-> <<>>,
      ops |-> <<>>, new |-> Doc(<<Field("b", One1)>>), remove |-> FALSE, upsert |-> TRUE],
     [query |-> <<Is(A, "gte", One1)>>, queryId |-> Missing, sort |-> <<<<A, FALSE>>>>,
      ops |-> <<>>, new |-> Null, remove |-> TRUE, upsert |-> FALSE]}

MCCatalogue ==
    <<[name |-> "a", keys |-> <<<<A, FALSE>>>>, sparse |-> FALSE, unique |-> FALSE],
      [name |-> "ab_b", keys |-> <<<<AB, FALSE>>, <<B, TRUE>>>>, sparse |-> TRUE, unique |-> FALSE]>>

\* Operators on items of a, on fields of a, in documents in a, and on all of a.
On(name, v, paths) == [i \in DOMAIN paths |-> <<name, paths[i], v>>]
Push1 == [each |-> <<One1>>, position |-> <<>>, sort |-> <<>>, slice |-> <<>>]
MCOperators ==
    On("set", One1, <<A0, A1, AB, AC, C>>)
    \o On("unset", Null, <<A, A0, A1, AB, B>>)
    \o On("inc", One1, <<A0, AB, B, <<"a", "1", "b">>>>)
    \o On("min", Two, <<A0, A1, AC, <<"a", "0", "b">>>>)
    \o On("push", Push1, <<A, AC>>)
    \o On("pop", 1, <<A, A0>>)
    \o <<<<"rename", AB, C>>, <<"rename", C, AB>>, <<"rename", B, AC>>, <<"rename", AC, AB>>,
         <<"rename", A, C>>, <<"rename", A0, B>>, <<"rename", <<"a", "0", "b">>, A1>>>>

Values == {Null, One1, Double(2), Arr(<<One1>>), Doc(<<Field("b", One1)>>)}

Scalars == {Null, One1, Double(2)}

MCProbes ==
    {<<Is(path, op, v)>> : path \in {A, B, AB, <<"a", "0">>},
                           op \in {"eq", "gt", "gte", "lt", "lte"}, v \in Values}
    \cup {<<Is(B, "eq", v), Is(A, op, w)>> : op \in {"eq", "gt"}, v, w \in Scalars}
    \cup {<<<<"and", <<<<Is(AB, "eq", v)>>, <<Is(B, "eq", w)>>>>>>>> : v, w \in Scalars}
=============================================================================
