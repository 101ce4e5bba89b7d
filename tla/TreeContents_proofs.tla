------------------------ MODULE TreeContents_proofs ------------------------
(***************************************************************************)
(* Trees implements Segments: what the steps of a merge do to the pairs of *)
(* the two trees, and to those of what is written.  TreeCursors implements *)
(* SortedCursor: where the calls on a cursor leave the cursors at all the  *)
(* depths of a tree.                                                       *)
(***************************************************************************)
EXTENDS TreeContents, Trees_proofs

-----------------------------------------------------------------------------
(* The pairs of a tree, and what Contents makes of them.                   *)

\* What is under a node are pairs, with keys that are under it.
LEMMA PairsUnderNodes ==
    ASSUME NEW f, FileOk(f), NEW n, IsNode(f, n), NEW p \in PairsUnder(f, n)
    PROVE  /\ p \in PairRec /\ p.key \in Keys /\ p.key \in Int /\ p.value \in Stored
           /\ p.key \in KeysUnder(f, n)
<1>1. PICK m \in {x \in Below(f, n) : f[x].depth = 0} : p \in {f[m].items[i] : i \in DOMAIN f[m].items}
  BY DEF PairsUnder, ItemsOf
<1>2. Forest(f) /\ n \in DOMAIN f BY DEF FileOk, IsNode, IsLeaf, IsInner
<1>3. IsNode(f, m) /\ f[m].depth = 0 BY <1>1, <1>2, BelowNodes
<1>4. IsLeaf(f, m) BY <1>3, NodeFacts DEF IsNode, IsLeaf, IsInner
<1>5. PairsOk(f, f[m].items) BY <1>4 DEF FileOk, PageOk, LeafOk, IsLeaf
<1>6. p \in PairRec BY <1>1, <1>5 DEF PairsOk, PairOk
<1> QED BY <1>6, Fields, PairsAssumption DEF KeysUnder, Stored

\* A tree has no two pairs for a key.
LEMMA OnePair ==
    ASSUME NEW f, FileOk(f), NEW root, IsNode(f, root), NEW x \in PairsUnder(f, root),
           NEW y \in PairsUnder(f, root), x.key = y.key
    PROVE  x = y
<1> DEFINE Two(n) == \E p, q \in PairsUnder(f, n) : p.key = q.key /\ p # q
           Bad == {n \in DOMAIN f : IsNode(f, n) /\ Two(n)}
<1>1. Forest(f) BY DEF FileOk
<1>2. ASSUME Bad # {}
      PROVE  FALSE
  <2>1. PICK n \in Bad : \A m \in Bad : f[n].depth <= f[m].depth
    <3>1. Bad \subseteq DOMAIN f OBVIOUS
    <3> HIDE DEF Bad
    <3> QED BY <1>1, <1>2, <3>1, LowestPage
  <2>2. n \in DOMAIN f /\ IsNode(f, n) /\ Two(n) BY <2>1
  <2>3. PICK p \in PairsUnder(f, n), q \in PairsUnder(f, n) : p.key = q.key /\ p # q BY <2>2
  <2>4. p.key \in Int BY <2>2, PairsUnderNodes
  <2>5. CASE IsLeaf(f, n)
    <3> DEFINE s == f[n].items
    <3>1. PICK i \in DOMAIN s : p = s[i] BY <1>1, <2>5, PairsUnderFacts
    <3>2. PICK j \in DOMAIN s : q = s[j] BY <1>1, <2>5, PairsUnderFacts
    <3>3. s \in Seq(PairRec) /\ Ascending(s) BY <2>5 DEF FileOk, PageOk, LeafOk, PairsOk, IsLeaf
    <3> HIDE DEF s
    <3>4. i \in Nat /\ j \in Nat BY <3>3, ListDomain
    <3>5. ~(i < j) /\ ~(j < i) BY <2>3, <2>4, <3>1, <3>2, <3>3 DEF Ascending
    <3>6. i = j BY <3>4, <3>5
    <3> QED BY <2>3, <3>1, <3>2, <3>6
  <2>6. CASE IsInner(f, n)
    <3> DEFINE s == f[n].items
    <3>1. PICK c \in Children(f, n) : p \in PairsUnder(f, c) BY <1>1, <2>6, PairsUnderFacts
    <3>2. PICK e \in Children(f, n) : q \in PairsUnder(f, e) BY <1>1, <2>6, PairsUnderFacts
    <3>3. PICK i \in DOMAIN s : c = s[i].page BY DEF Children
    <3>4. PICK j \in DOMAIN s : e = s[j].page BY DEF Children
    <3>5. ItemsOk(f, f[n].depth, s) BY <2>6 DEF FileOk, PageOk, IsInner
    <3>6. s \in Seq(ItemRec) /\ i \in Nat /\ j \in Nat BY <3>5, ListDomain DEF ItemsOk
    <3>7. /\ IsNode(f, c) /\ IsNode(f, e) /\ c \in DOMAIN f
          /\ f[c].depth = f[n].depth - 1 /\ f[n].depth \in Nat \ {0}
      BY <1>1, <2>6, ChildFacts
    <3>8. c # e
      <4> SUFFICES ASSUME c = e
                   PROVE  FALSE
        OBVIOUS
      <4>1. c \in Bad BY <2>3, <3>1, <3>2, <3>7
      <4>2. f[n].depth <= f[c].depth BY <2>1, <4>1
      <4> QED BY <3>7, <4>2
    <3>9. p.key \in KeysUnder(f, c) /\ q.key \in KeysUnder(f, e) BY <3>1, <3>2, <3>7, PairsUnderNodes
    <3>10. ItemOk(f, f[n].depth, s[i]) /\ ItemOk(f, f[n].depth, s[j]) BY <3>5 DEF ItemsOk
    <3>11. s[i].key \in Int /\ s[j].key \in Int /\ p.key <= s[i].key /\ q.key <= s[j].key
      BY <3>3, <3>4, <3>9, <3>10, ItemKeys
    <3> HIDE DEF s
    <3>12. (i < j => s[i].key < q.key) /\ (j < i => s[j].key < p.key)
      BY <3>3, <3>4, <3>5, <3>9 DEF ItemsOk, Before
    <3>13. ~(i < j) /\ ~(j < i) BY <2>3, <2>4, <3>11, <3>12
    <3>14. i = j BY <3>6, <3>13
    <3> QED BY <3>3, <3>4, <3>8, <3>14
  <2> QED BY <2>2, <2>5, <2>6 DEF IsNode
<1>3. root \in DOMAIN f BY DEF IsNode, IsLeaf, IsInner
<1>4. ~Two(root) BY <1>2, <1>3
<1> QED BY <1>4

\* Contents says of every key which value the tree has for it, if any.
LEMMA ContentsAre ==
    ASSUME NEW f, FileOk(f), NEW root, RootOk(f, root)
    PROVE  /\ Contents(f, root) \in PairSet
           /\ \A k \in Keys, v \in Stored : InTree(f, root, k, v) <=> Contents(f, root)[k] = v
<1> DEFINE Under == ItemsOf(f, {n \in Nodes(f, root) : f[n].depth = 0})
           has(k) == {p \in Under : p.key = k}
<1>1. Contents(f, root) = [k \in Keys |-> IF has(k) = {} THEN Absent ELSE (CHOOSE p \in has(k) : TRUE).value]
  BY DEF Contents
<1>2. root = NoPage => Under = {} BY DEF Nodes, ItemsOf
<1>3. root # NoPage => Under = PairsUnder(f, root) /\ IsNode(f, root) BY DEF Nodes, PairsUnder, RootOk
<1>4. \A p \in Under : p.value \in Stored BY <1>2, <1>3, PairsUnderNodes
<1>5. \A p, q \in Under : p.key = q.key => p = q BY <1>2, <1>3, OnePair
<1>6. \A k, v : InTree(f, root, k, v) <=> \E p \in has(k) : p.value = v
  BY <1>2, <1>3 DEF InTree, Among
<1> HIDE DEF Under
<1>7. \A k : has(k) # {} => (CHOOSE p \in has(k) : TRUE) \in has(k) OBVIOUS
<1>8. \A k : \A p, q \in has(k) : p = q BY <1>5
<1>9. \A k : \A p \in has(k) : p.value \in Stored BY <1>4
<1> HIDE DEF has
<1>10. Contents(f, root) \in PairSet BY <1>1, <1>7, <1>9 DEF PairSet, Entry, Stored
<1>11. ASSUME NEW k \in Keys, NEW v \in Stored
       PROVE  InTree(f, root, k, v) <=> Contents(f, root)[k] = v
  <2>1. v # Absent BY PairsAssumption DEF Stored
  <2>2. CASE has(k) = {} BY <1>1, <1>6, <2>1, <2>2
  <2>3. CASE has(k) # {}
    <3> DEFINE p == CHOOSE p \in has(k) : TRUE
    <3>1. p \in has(k) /\ Contents(f, root)[k] = p.value BY <1>1, <1>7, <2>3
    <3> HIDE DEF p
    <3> QED BY <1>6, <1>8, <3>1
  <2> QED BY <2>2, <2>3
<1> QED BY <1>10, <1>11


-----------------------------------------------------------------------------
(* Where a pair is: in lists that grow, shrink or are told to the level    *)
(* above, and in files that grow.                                          *)

\* Nothing is in an empty list.
LEMMA NothingIn ==
    ASSUME NEW f, NEW k, NEW v
    PROVE  ~InList(<<>>, k, v) /\ ~InItems(f, <<>>, k, v)
BY DEF InList, InItems

\* A pair is put behind the others.
LEMMA InListAppended ==
    ASSUME NEW S, NEW s \in Seq(S), NEW p, NEW k, NEW v
    PROVE  InList(Append(s, p), k, v) <=> InList(s, k, v) \/ (p.key = k /\ p.value = v)
<1>1. Len(s) \in Nat /\ DOMAIN s = 1..Len(s) OBVIOUS
<1>2. /\ DOMAIN Append(s, p) = 1..Len(s) + 1 /\ Append(s, p)[Len(s) + 1] = p
      /\ \A i \in DOMAIN s : Append(s, p)[i] = s[i]
  OBVIOUS
<1>3. \A i \in DOMAIN Append(s, p) : i \in DOMAIN s \/ i = Len(s) + 1 BY <1>1, <1>2
<1>4. Len(s) + 1 \in DOMAIN Append(s, p) /\ DOMAIN s \subseteq DOMAIN Append(s, p) BY <1>1, <1>2
<1> DEFINE t == Append(s, p)
           n == Len(s) + 1
<1>5. t[n] = p /\ n \in DOMAIN t /\ DOMAIN s \subseteq DOMAIN t BY <1>2, <1>4
<1>6. (\A i \in DOMAIN s : t[i] = s[i]) /\ \A i \in DOMAIN t : i \in DOMAIN s \/ i = n BY <1>2, <1>3
<1> HIDE DEF t, n
<1> QED
  <2>1. InList(t, k, v) <=> InList(s, k, v) \/ (p.key = k /\ p.value = v) BY <1>5, <1>6 DEF InList
  <2> QED BY <2>1 DEF t

\* The first pair is taken out.
LEMMA InListTail ==
    ASSUME NEW S, NEW s \in Seq(S), s # <<>>, NEW k, NEW v
    PROVE  InList(s, k, v) <=> InList(Tail(s), k, v) \/ (Head(s).key = k /\ Head(s).value = v)
<1>1. /\ Head(s) = s[1] /\ 1 \in DOMAIN s
      /\ \A i \in DOMAIN Tail(s) : Tail(s)[i] = s[i + 1] /\ i + 1 \in DOMAIN s
  BY TailFacts
<1>2. Len(s) \in Nat /\ DOMAIN s = 1..Len(s) OBVIOUS
<1>3. Len(Tail(s)) = Len(s) - 1 /\ DOMAIN Tail(s) = 1..Len(s) - 1 BY TailFacts
<1>4. ASSUME NEW i \in DOMAIN s, i # 1
      PROVE  i - 1 \in DOMAIN Tail(s) /\ Tail(s)[i - 1] = s[i]
  <2>1. i - 1 \in DOMAIN Tail(s) /\ i - 1 + 1 = i BY <1>2, <1>3, <1>4
  <2> QED BY <1>1, <2>1
<1> DEFINE t == Tail(s)
<1>5. \A i \in DOMAIN s : i = 1 \/ \E j \in DOMAIN t : t[j] = s[i] BY <1>4
<1>6. \A j \in DOMAIN t : \E i \in DOMAIN s : t[j] = s[i] BY <1>1
<1> HIDE DEF t
<1>7. InList(s, k, v) <=> InList(t, k, v) \/ (Head(s).key = k /\ Head(s).value = v)
  BY <1>1, <1>5, <1>6 DEF InList
<1> QED BY <1>7 DEF t

\* An item is put behind the others; overflows may be added on the way.
LEMMA InItemsAppended ==
    ASSUME NEW S, NEW s \in Seq(S), NEW c, NEW it, DOMAIN it = DOMAIN Append(s, c),
           \A i \in DOMAIN it : it[i].page = Append(s, c)[i].page, NEW f, NEW k, NEW v
    PROVE  InItems(f, it, k, v) <=> InItems(f, s, k, v) \/ Among(PairsUnder(f, c.page), k, v)
<1>1. Len(s) \in Nat /\ DOMAIN s = 1..Len(s) OBVIOUS
<1>2. /\ DOMAIN Append(s, c) = 1..Len(s) + 1 /\ Append(s, c)[Len(s) + 1] = c
      /\ \A i \in DOMAIN s : Append(s, c)[i] = s[i]
  OBVIOUS
<1> DEFINE n == Len(s) + 1
<1>3. n \in DOMAIN it /\ DOMAIN s \subseteq DOMAIN it /\ \A i \in DOMAIN it : i \in DOMAIN s \/ i = n
  BY <1>1, <1>2
<1>4. it[n].page = c.page /\ \A i \in DOMAIN s : it[i].page = s[i].page BY <1>2, <1>3
<1> HIDE DEF n
<1> QED BY <1>3, <1>4 DEF InItems

\* The first item is taken out.
LEMMA InItemsTail ==
    ASSUME NEW S, NEW s \in Seq(S), s # <<>>, NEW f, NEW k, NEW v
    PROVE  InItems(f, s, k, v) <=> InItems(f, Tail(s), k, v) \/ Among(PairsUnder(f, Head(s).page), k, v)
<1>1. /\ Head(s) = s[1] /\ 1 \in DOMAIN s
      /\ \A i \in DOMAIN Tail(s) : Tail(s)[i] = s[i + 1] /\ i + 1 \in DOMAIN s
  BY TailFacts
<1>2. Len(s) \in Nat /\ DOMAIN s = 1..Len(s) OBVIOUS
<1>3. Len(Tail(s)) = Len(s) - 1 /\ DOMAIN Tail(s) = 1..Len(s) - 1 BY TailFacts
<1>4. ASSUME NEW i \in DOMAIN s, i # 1
      PROVE  i - 1 \in DOMAIN Tail(s) /\ Tail(s)[i - 1] = s[i]
  <2>1. i - 1 \in DOMAIN Tail(s) /\ i - 1 + 1 = i BY <1>2, <1>3, <1>4
  <2> QED BY <1>1, <2>1
<1> DEFINE t == Tail(s)
<1>5. \A i \in DOMAIN s : i = 1 \/ \E j \in DOMAIN t : t[j] = s[i] BY <1>4
<1>6. \A j \in DOMAIN t : \E i \in DOMAIN s : t[j] = s[i] BY <1>1
<1> HIDE DEF t
<1>7. InItems(f, s, k, v) <=> InItems(f, t, k, v) \/ Among(PairsUnder(f, Head(s).page), k, v)
  BY <1>1, <1>5, <1>6 DEF InItems
<1> QED BY <1>7 DEF t

\* One item.
LEMMA InOneItem ==
    ASSUME NEW c, NEW f, NEW k, NEW v
    PROVE  InItems(f, <<c>>, k, v) <=> Among(PairsUnder(f, c.page), k, v)
<1>1. DOMAIN <<c>> = {1} /\ <<c>>[1] = c OBVIOUS
<1> QED BY <1>1 DEF InItems

\* The other levels stay, but for empty ones that are added.
LEMMA OneLevel ==
    ASSUME NEW ch, NEW new, NEW l \in DOMAIN ch, l \in DOMAIN new,
           \A d \in DOMAIN new : d # l => new[d] = <<>> \/ (d \in DOMAIN ch /\ new[d] = ch[d]),
           \A d \in DOMAIN ch : d # l => d \in DOMAIN new /\ new[d] = ch[d],
           NEW f, NEW k, NEW v
    PROVE  InLevels(f, new, k, v) <=>
              InItems(f, new[l], k, v) \/ \E d \in DOMAIN ch \ {l} : InItems(f, ch[d], k, v)
<1>1. ~InItems(f, <<>>, k, v) BY NothingIn
<1>2. \A d \in DOMAIN new \ {l} : InItems(f, new[d], k, v) => d \in DOMAIN ch /\ new[d] = ch[d] BY <1>1
<1> QED BY <1>2 DEF InLevels

\* When items are added to a level, or taken from it, there is as much more or less in
\* all of them.
LEMMA LevelGains ==
    ASSUME NEW ch, NEW new, NEW l \in DOMAIN ch, l \in DOMAIN new,
           \A d \in DOMAIN new : d # l => new[d] = <<>> \/ (d \in DOMAIN ch /\ new[d] = ch[d]),
           \A d \in DOMAIN ch : d # l => d \in DOMAIN new /\ new[d] = ch[d],
           NEW f, NEW k, NEW v, NEW more \in BOOLEAN
    PROVE  /\ (InItems(f, new[l], k, v) <=> InItems(f, ch[l], k, v) \/ more)
                => (InLevels(f, new, k, v) <=> InLevels(f, ch, k, v) \/ more)
           /\ (InItems(f, ch[l], k, v) <=> InItems(f, new[l], k, v) \/ more)
                => (InLevels(f, ch, k, v) <=> InLevels(f, new, k, v) \/ more)
<1>1. InLevels(f, new, k, v) <=>
         InItems(f, new[l], k, v) \/ \E d \in DOMAIN ch \ {l} : InItems(f, ch[d], k, v)
  BY OneLevel
<1>2. InLevels(f, ch, k, v) <=>
         InItems(f, ch[l], k, v) \/ \E d \in DOMAIN ch \ {l} : InItems(f, ch[d], k, v)
  BY DEF InLevels
<1> QED BY <1>1, <1>2

\* Pages that are added change nothing that refers to the others.
LEMMA PlacesStay ==
    ASSUME NEW f, NEW g, Forest(f), Forest(g), Extends(g, f), NEW k, NEW v
    PROVE  /\ \A n \in DOMAIN f : Among(PairsUnder(g, n), k, v) <=> Among(PairsUnder(f, n), k, v)
           /\ \A d, s : ItemsOk(f, d, s) => (InItems(g, s, k, v) <=> InItems(f, s, k, v))
           /\ \A root : RootOk(f, root) => (InTree(g, root, k, v) <=> InTree(f, root, k, v))
           /\ \A ch : (\A d \in DOMAIN ch : ItemsOk(f, d, ch[d])) => (InLevels(g, ch, k, v) <=> InLevels(f, ch, k, v))
<1>1. \A n \in DOMAIN f : PairsUnder(g, n) = PairsUnder(f, n) BY TreesStay
<1>2. \A d, s : ItemsOk(f, d, s) => \A i \in DOMAIN s : s[i].page \in DOMAIN f
  BY DEF ItemsOk, ItemOk, IsNode, IsLeaf, IsInner
<1>3. \A d, s : ItemsOk(f, d, s) => (InItems(g, s, k, v) <=> InItems(f, s, k, v))
  BY <1>1, <1>2 DEF InItems
<1>4. \A root : RootOk(f, root) => (InTree(g, root, k, v) <=> InTree(f, root, k, v))
  BY <1>1 DEF InTree, RootOk, IsNode, IsLeaf, IsInner
<1>5. ASSUME NEW ch, \A d \in DOMAIN ch : ItemsOk(f, d, ch[d])
      PROVE  InLevels(g, ch, k, v) <=> InLevels(f, ch, k, v)
  BY <1>3, <1>5 DEF InLevels
<1>6. \A n \in DOMAIN f : Among(PairsUnder(g, n), k, v) <=> Among(PairsUnder(f, n), k, v) BY <1>1
<1> QED BY <1>3, <1>4, <1>5, <1>6

-----------------------------------------------------------------------------
(* What the steps of the writer do to it.                                  *)

\* The pairs under a node are those of its items.
LEMMA UnderItems ==
    ASSUME NEW f, Forest(f), NEW n, NEW k, NEW v
    PROVE  /\ IsLeaf(f, n) => (Among(PairsUnder(f, n), k, v) <=> InList(f[n].items, k, v))
           /\ IsInner(f, n) => (Among(PairsUnder(f, n), k, v) <=> InItems(f, f[n].items, k, v))
<1>1. ASSUME IsLeaf(f, n)
      PROVE  Among(PairsUnder(f, n), k, v) <=> InList(f[n].items, k, v)
  <2>1. PairsUnder(f, n) = {f[n].items[i] : i \in DOMAIN f[n].items} BY <1>1, PairsUnderFacts
  <2> QED BY <2>1 DEF Among, InList
<1>2. ASSUME IsInner(f, n)
      PROVE  Among(PairsUnder(f, n), k, v) <=> InItems(f, f[n].items, k, v)
  <2>1. PairsUnder(f, n) = UNION {PairsUnder(f, c) : c \in Children(f, n)} BY <1>2, PairsUnderFacts
  <2> QED BY <2>1 DEF Among, InItems, Children
<1> QED BY <1>1, <1>2

\* What the levels of the chain and of what is left are made of.
LEMMA LevelsAre ==
    ASSUME NEW f
    PROVE  /\ \A lf, ch : LevelsOk(f, lf, ch) =>
                 ch \in Seq(Seq(ItemRec)) /\ \A d \in DOMAIN ch : ItemsOk(f, d, ch[d]) /\ ch[d] \in Seq(ItemRec)
           /\ \A rd, td : TodoOk(f, rd, td) =>
                 td \in Seq(Seq(ItemRec)) /\ \A d \in DOMAIN td : ItemsOk(f, d, td[d]) /\ td[d] \in Seq(ItemRec)
BY DEF LevelsOk, LevelOk, TodoOk, ItemsOk

\* The item in hand goes to its level.
LEMMA JoinWrites ==
    ASSUME NEW f, FileOk(f), NEW lf, NEW ch, NEW c, NEW l,
           LeafOk(f, lf), LevelsOk(f, lf, ch), ShortTop(ch), HandOk(f, lf, ch, c, l),
           Len(ch[l]) < 2 \/ ParentSize(ch[l]) + ParentNeed(c) <= ParentRoom,
           NEW t, t = WithItem(f, ch[l], c), NEW k, NEW v
    PROVE  Written(t.file, lf, ChainWith(ch, l, t.items), <<>>, k, v) <=> Written(f, lf, ch, <<c>>, k, v)
<1> DEFINE g == t.file
           s == ch[l]
           it == t.items
           new == ChainWith(ch, l, it)
<1>1. /\ l \in DOMAIN ch /\ ItemOk(f, l, c) /\ c.location # "owned"
      /\ \A i \in DOMAIN s : Before(f, s[i], c)
  <2>1. l \in DOMAIN ch /\ ItemOk(f, l, c) /\ c.location # "owned" BY DEF HandOk
  <2>2. l \in Int BY <2>1, LevelsAre
  <2> QED BY <2>1, <2>2 DEF HandOk
<1>2. ch \in Seq(Seq(ItemRec)) /\ s \in Seq(ItemRec) /\ LevelOk(f, l, s) BY <1>1, LevelsAre DEF LevelsOk
<1>3. /\ FileOk(g) /\ Extends(g, f) /\ LevelOk(g, l, it)
      /\ DOMAIN it = DOMAIN Append(s, c)
      /\ \A i \in DOMAIN Append(s, c) : it[i].page = Append(s, c)[i].page
  <2> HIDE DEF s
  <2>1. t = WithItem(f, s, c) BY DEF s
  <2>2. Len(s) < 2 \/ ParentSize(s) + ParentNeed(c) <= ParentRoom BY DEF s
  <2> QED BY <1>1, <1>2, <2>1, <2>2, Joined
<1>4. it \in Seq(ItemRec) BY <1>3 DEF LevelOk, ItemsOk
<1>5. Forest(f) /\ Forest(g) BY <1>3 DEF FileOk
<1> HIDE DEF g, it
<1>6. /\ new[l] = it /\ l \in DOMAIN new
      /\ \A d \in DOMAIN new : d # l => new[d] = <<>> \/ (d \in DOMAIN ch /\ new[d] = ch[d])
      /\ \A d \in DOMAIN ch : d \in DOMAIN new /\ (d # l => new[d] = ch[d])
  BY <1>1, <1>2, <1>4, ChainWithFacts
<1> HIDE DEF s, new
<1> DEFINE more == Among(PairsUnder(g, c.page), k, v)
<1>7. InItems(g, it, k, v) <=> InItems(g, s, k, v) \/ more
  BY <1>2, <1>3, InItemsAppended
<1>8. more <=> Among(PairsUnder(f, c.page), k, v)
  BY <1>1, <1>3, <1>5, PlacesStay DEF ItemOk, IsNode, IsLeaf, IsInner
<1>9. more \in BOOLEAN BY DEF Among
<1> HIDE DEF more
<1>10. InLevels(g, new, k, v) <=> InLevels(g, ch, k, v) \/ more
  <2>1. InItems(g, new[l], k, v) <=> InItems(g, ch[l], k, v) \/ more BY <1>6, <1>7 DEF s
  <2> QED BY <1>1, <1>6, <1>9, <2>1, LevelGains
<1>11. InLevels(g, ch, k, v) <=> InLevels(f, ch, k, v) BY <1>3, <1>5, LevelsAre, PlacesStay
<1>12. InItems(f, <<c>>, k, v) <=> Among(PairsUnder(f, c.page), k, v) BY InOneItem
<1>13. ~InItems(g, <<>>, k, v) BY NothingIn
<1>14. Written(g, lf, new, <<>>, k, v) <=> Written(f, lf, ch, <<c>>, k, v)
  BY <1>8, <1>10, <1>11, <1>12, <1>13 DEF Written
<1> QED BY <1>14 DEF g, new, it

\* A level is written and told to the level above.
LEMMA ParentWrites ==
    ASSUME NEW f, FileOk(f), NEW lf, NEW ch, NEW hd, NEW l, WriterOk(f, lf, ch, hd, l),
           NEW d, d \in DOMAIN ch, d < Len(ch), ch[d] # <<>>, hd # <<>> => l = d,
           NEW node, node = [depth |-> d, items |-> ch[d]],
           NEW g, g = WritePage(f, node), NEW c, c = ItemForParent(NextPage(f), node), NEW k, NEW v
    PROVE  Written(g, lf, [ch EXCEPT ![d] = hd], <<c>>, k, v) <=> Written(f, lf, ch, hd, k, v)
<1> DEFINE s == ch[d]
           new == [ch EXCEPT ![d] = hd]
<1>1. FileOk(g) /\ Extends(g, f) /\ Tells(f, g, d, s, c) BY WriteParentKeeps
<1>2. ch \in Seq(Seq(ItemRec)) /\ (\A e \in DOMAIN ch : ItemsOk(f, e, ch[e]) /\ ch[e] \in Seq(ItemRec))
  BY LevelsAre DEF WriterOk
<1>3. Forest(f) /\ Forest(g) BY <1>1 DEF FileOk
<1>4. d \in Nat /\ d # 0 BY <1>2, ListDomain
<1>5. c.page \in DOMAIN g /\ g[c.page] = node
  <2>1. c.page = NextPage(f) BY <1>1 DEF Tells
  <2>2. NextPage(f) \in DOMAIN g /\ g[NextPage(f)] = node
    <3> HIDE DEF s, new
    <3> QED BY <1>3, WritePageFacts
  <2> QED BY <2>1, <2>2
<1>6. IsInner(g, c.page) /\ g[c.page].items = s
  <2>1. node \in ParentNode BY <1>2, <1>4 DEF ParentNode
  <2> QED BY <1>5, <2>1 DEF IsInner
<1>7. Among(PairsUnder(g, c.page), k, v) <=> InItems(g, s, k, v) BY <1>3, <1>6, UnderItems
<1>8. InItems(g, s, k, v) <=> InItems(f, s, k, v) BY <1>1, <1>2, <1>3, PlacesStay
<1>9. InItems(g, <<c>>, k, v) <=> Among(PairsUnder(g, c.page), k, v) BY InOneItem
<1>10. InItems(g, hd, k, v) <=> InItems(f, hd, k, v)
  <2>1. CASE hd = <<>> BY <2>1, NothingIn
  <2>2. CASE hd # <<>>
    <3>1. PICK b : hd = <<b>> /\ HandOk(f, lf, ch, b, l) BY <2>2 DEF WriterOk
    <3>2. b.page \in DOMAIN f BY <3>1 DEF HandOk, ItemOk, IsNode, IsLeaf, IsInner
    <3>3. Among(PairsUnder(g, b.page), k, v) <=> Among(PairsUnder(f, b.page), k, v)
      BY <1>1, <1>3, <3>2, PlacesStay
    <3> QED BY <3>1, <3>3, InOneItem
  <2> QED BY <2>1, <2>2
<1>11. new[d] = hd /\ DOMAIN new = DOMAIN ch /\ \A e \in DOMAIN ch : e # d => new[e] = ch[e] BY <1>2
<1> HIDE DEF s, new
<1>12. InLevels(g, new, k, v) <=> InItems(g, hd, k, v) \/ \E e \in DOMAIN ch \ {d} : InItems(g, ch[e], k, v)
  BY <1>11, OneLevel
<1>13. InLevels(f, ch, k, v) <=> InItems(f, s, k, v) \/ \E e \in DOMAIN ch \ {d} : InItems(f, ch[e], k, v)
  BY DEF InLevels, s
<1>14. \A e \in DOMAIN ch : InItems(g, ch[e], k, v) <=> InItems(f, ch[e], k, v) BY <1>1, <1>2, <1>3, PlacesStay
<1>15. Written(g, lf, new, <<c>>, k, v) <=> Written(f, lf, ch, hd, k, v)
  BY <1>7, <1>8, <1>9, <1>10, <1>12, <1>13, <1>14 DEF Written
<1> QED BY <1>15 DEF new

\* A leaf is written and told to the first level.
LEMMA LeafWrites ==
    ASSUME NEW f, FileOk(f), NEW lf, NEW ch, NEW l, WriterOk(f, lf, ch, <<>>, l), lf # <<>>,
           NEW node, node = [depth |-> 0, items |-> lf],
           NEW g, g = WritePage(f, node), NEW c, c = LeafForParent(NextPage(f), node),
           NEW next, LeafOk(f, next), \A i \in DOMAIN next : UpTo(lf, ch, <<>>, next[i].key), NEW k, NEW v
    PROVE  Written(g, next, ch, <<c>>, k, v) <=> Written(f, lf, ch, <<>>, k, v) \/ InList(next, k, v)
<1>1. FileOk(g) /\ Extends(g, f) BY WriteLeafKeeps
<1>2. \A e \in DOMAIN ch : ItemsOk(f, e, ch[e]) BY LevelsAre DEF WriterOk
<1>3. Forest(f) /\ Forest(g) BY <1>1 DEF FileOk
<1>4. c.page = NextPage(f) BY DEF LeafForParent
<1>5. c.page \in DOMAIN g /\ g[c.page] = node BY <1>3, <1>4, WritePageFacts
<1>6. IsLeaf(g, c.page) /\ g[c.page].items = lf
  <2>1. lf \in Seq(PairRec) BY DEF WriterOk, LeafOk, PairsOk
  <2>2. node \in LeafNode BY <2>1 DEF LeafNode
  <2> QED BY <1>5, <2>2 DEF IsLeaf
<1>7. Among(PairsUnder(g, c.page), k, v) <=> InList(lf, k, v) BY <1>3, <1>6, UnderItems
<1>8. InItems(g, <<c>>, k, v) <=> Among(PairsUnder(g, c.page), k, v) BY InOneItem
<1>9. InLevels(g, ch, k, v) <=> InLevels(f, ch, k, v) BY <1>1, <1>2, <1>3, PlacesStay
<1>10. ~InItems(f, <<>>, k, v) BY NothingIn
<1> QED BY <1>7, <1>8, <1>9, <1>10 DEF Written

\* What is left to be read stays when pages are written.
LEMMA WaitingStays ==
    ASSUME NEW f, NEW g, FileOk(f), FileOk(g), Extends(g, f), NEW rd, NEW td, TodoOk(f, rd, td), NEW k, NEW v
    PROVE  Waiting(g, rd, td, k, v) <=> Waiting(f, rd, td, k, v)
<1>1. InLevels(g, td, k, v) <=> InLevels(f, td, k, v) BY LevelsAre, PlacesStay DEF FileOk
<1> QED BY <1>1 DEF Waiting

-----------------------------------------------------------------------------
(* What the steps of the writer do to what is written.                     *)

\* Nothing is lost, and nothing added, when a level takes the item in hand.
LEMMA JoinKeepsPairs ==
    ASSUME SInv, hand # <<>>, Join, leaf' = leaf, NEW k, NEW v
    PROVE  FileOk(file') /\ Extends(file', file) /\ WrittenStays(k, v)
<1>1. /\ FileOk(file) /\ LeafOk(file, leaf) /\ LevelsOk(file, leaf, chain) /\ ShortTop(chain)
  BY DEF SInv, WritingOk, WriterOk
<1>2. PICK c : hand = <<c>> /\ HandOk(file, leaf, chain, c, level) BY DEF SInv, WritingOk, WriterOk
<1> DEFINE s == chain[level]
           t == WithItem(file, s, c)
<1>3. /\ Len(s) < 2 \/ ParentSize(s) + ParentNeed(c) <= ParentRoom
      /\ file' = t.file /\ chain' = ChainWith(chain, level, t.items) /\ hand' = <<>> /\ level' = 1
  BY <1>2 DEF Join, WithItem, ChainWith, IsLast
<1>4. t = WithItem(file, chain[level], c) OBVIOUS
<1> HIDE DEF t
<1>5. FileOk(t.file) /\ Extends(t.file, file) BY <1>1, <1>2, <1>3, <1>4, JoinKeeps
<1>6. Written(t.file, leaf, ChainWith(chain, level, t.items), <<>>, k, v) <=> Written(file, leaf, chain, <<c>>, k, v)
  BY <1>1, <1>2, <1>3, <1>4, JoinWrites
<1> QED BY <1>2, <1>3, <1>5, <1>6 DEF WrittenStays

\* Nor when a level is written and told to the one above.
LEMMA WriteParentKeepsPairs ==
    ASSUME SInv, NEW d \in DOMAIN chain, d < Len(chain), chain[d] # <<>>,
           hand # <<>> => level = d, WriteParent(d), leaf' = leaf, NEW k, NEW v
    PROVE  FileOk(file') /\ Extends(file', file) /\ WrittenStays(k, v)
<1> DEFINE node == [depth |-> d, items |-> chain[d]]
           g == WritePage(file, node)
           c == ItemForParent(NextPage(file), node)
<1>1. file' = g /\ chain' = [chain EXCEPT ![d] = hand] /\ hand' = <<c>> BY DEF WriteParent
<1>2. FileOk(file) /\ WriterOk(file, leaf, chain, hand, level) BY DEF SInv, WritingOk
<1>3. node = [depth |-> d, items |-> chain[d]] /\ g = WritePage(file, node)
      /\ c = ItemForParent(NextPage(file), node)
  OBVIOUS
<1> HIDE DEF node, g, c
<1>4. FileOk(g) /\ Extends(g, file) BY <1>2, <1>3, WriteParentKeeps
<1>5. Written(g, leaf, [chain EXCEPT ![d] = hand], <<c>>, k, v) <=> Written(file, leaf, chain, hand, k, v)
  BY <1>2, <1>3, ParentWrites
<1> QED BY <1>1, <1>4, <1>5 DEF WrittenStays

\* What is written stays written while the writer goes on.
LEMMA WriterKeepsPairs ==
    ASSUME SInv, AddChild \/ FlushPage \/ FlushLeaf, NEW k, NEW v
    PROVE  FileOk(file') /\ Extends(file', file) /\ WrittenStays(k, v)
<1>1. CASE AddChild
  <2>1. hand # <<>> /\ leaf' = leaf BY <1>1 DEF AddChild
  <2>2. CASE Join BY <2>1, <2>2, JoinKeepsPairs
  <2>3. CASE Len(chain[level]) >= 2 /\ WriteParent(level)
    <3>1. PICK c : hand = <<c>> /\ HandOk(file, leaf, chain, c, level)
      BY <2>1 DEF SInv, WritingOk, WriterOk
    <3>2. level \in DOMAIN chain /\ chain \in Seq(Seq(ItemRec)) /\ ShortTop(chain)
      BY <3>1 DEF HandOk, SInv, WritingOk, WriterOk, LevelsOk
    <3>3. level # Len(chain) /\ chain[level] # <<>>
      <4>1. chain[level] \in Seq(ItemRec) /\ Len(chain[level]) \in Nat BY <3>2
      <4>2. chain[level] # <<>> BY <2>3, <4>1
      <4>3. level # Len(chain) BY <2>3, <3>2, <4>1 DEF ShortTop
      <4> QED BY <4>2, <4>3
    <3>4. level < Len(chain) BY <3>2, <3>3
    <3> QED BY <2>1, <2>3, <3>2, <3>3, <3>4, WriteParentKeepsPairs
  <2> QED BY <1>1, <2>2, <2>3 DEF AddChild
<1>2. CASE FlushPage
  <2> DEFINE d == Lowest(chain)
  <2>1. hand = <<>> /\ ~AllEmpty(chain) /\ d # Len(chain) /\ WriteParent(d) /\ leaf' = leaf
    BY <1>2 DEF FlushPage, MustWrite, IsLast
  <2>2. chain \in Seq(Seq(ItemRec)) BY DEF SInv, WritingOk, WriterOk, LevelsOk
  <2>3. d \in DOMAIN chain /\ chain[d] # <<>> BY <2>1, <2>2, LowestFacts
  <2>4. d < Len(chain) BY <2>1, <2>2, <2>3
  <2> HIDE DEF d
  <2> QED BY <2>1, <2>3, <2>4, WriteParentKeepsPairs
<1>3. CASE FlushLeaf
  <2> DEFINE node == [depth |-> 0, items |-> leaf]
             g == WritePage(file, node)
             c == LeafForParent(NextPage(file), node)
             next == <<>>
  <2>1. /\ hand = <<>> /\ leaf # <<>> /\ file' = g /\ leaf' = next /\ hand' = <<c>> /\ chain' = chain
    BY <1>3 DEF FlushLeaf, MustWrite, WriteLeaf
  <2>2. FileOk(file) /\ WriterOk(file, leaf, chain, <<>>, level) BY <2>1 DEF SInv, WritingOk
  <2>3. LeafOk(file, next) /\ DOMAIN next = {} /\ ~InList(next, k, v)
    <3>1. <<>> \in Seq(PairRec) /\ LeafSize(<<>>) = 0 BY LeafSizes
    <3> QED BY <3>1, TreesAssumption, NothingIn DEF LeafOk, PairsOk, Ascending
  <2>4. node = [depth |-> 0, items |-> leaf] /\ g = WritePage(file, node)
        /\ c = LeafForParent(NextPage(file), node)
    OBVIOUS
  <2> HIDE DEF node, g, c, next
  <2>5. \A i \in DOMAIN next : UpTo(leaf, chain, <<>>, next[i].key) BY <2>3
  <2>6. FileOk(g) /\ Extends(g, file) BY <2>1, <2>2, <2>3, <2>4, <2>5, WriteLeafKeeps
  <2>7. Written(g, next, chain, <<c>>, k, v) <=> Written(file, leaf, chain, <<>>, k, v) \/ InList(next, k, v)
    BY <2>1, <2>2, <2>3, <2>4, <2>5, LeafWrites
  <2> QED BY <2>1, <2>3, <2>6, <2>7 DEF WrittenStays
<1> QED BY <1>1, <1>2, <1>3

\* A pair that is put is written, and nothing else changes.
LEMMA PutPairAdds ==
    ASSUME NEW p, FileOk(file), WriterOk(file, leaf, chain, <<>>, level), hand = <<>>,
           PairOk(file, p), UpTo(leaf, chain, <<>>, p.key), PutPair(p), chain' = chain, NEW k, NEW v
    PROVE  WrittenGains(p, k, v)
<1> DEFINE s == ToPut(file, p)
<1>1. /\ FileOk(s.file) /\ Extends(s.file, file) /\ PairOk(s.file, s.p)
      /\ s.p.key = p.key /\ s.p.value = p.value
      /\ s.p.keyPage = NoPage => Small(s.p.key)
  BY ToPutFacts
<1>2. IF LeafSize(leaf) + LeafNeed(s.p) <= LeafRoom
      THEN /\ file' = s.file
           /\ leaf' = Append(leaf, s.p)
           /\ UNCHANGED <<hand, level>>
      ELSE WriteLeaf(s.file, <<s.p>>)
  BY DEF PutPair, ToPut
<1> HIDE DEF s
<1>3. WriterOk(s.file, leaf, chain, <<>>, level) BY <1>1, WriterStays DEF FileOk
<1> DEFINE q == s.p
           g == s.file
<1>4. FileOk(g) /\ Extends(g, file) /\ PairOk(g, q) /\ q.key = p.key /\ q.value = p.value
      /\ (q.keyPage = NoPage => Small(q.key)) /\ WriterOk(g, leaf, chain, <<>>, level)
      /\ UpTo(leaf, chain, <<>>, q.key)
  BY <1>1, <1>3
<1>5. q \in PairRec /\ LeafNeed(q) \in Nat /\ q.key \in Int
  <2>1. q \in PairRec BY <1>4 DEF PairOk
  <2> QED BY <2>1, LeafSizes, Fields, PairsAssumption
<1>6. Written(g, leaf, chain, <<>>, k, v) <=> Written(file, leaf, chain, <<>>, k, v)
  <2>1. \A d \in DOMAIN chain : ItemsOk(file, d, chain[d]) BY LevelsAre DEF WriterOk
  <2>2. InLevels(g, chain, k, v) <=> InLevels(file, chain, k, v) BY <1>4, <2>1, PlacesStay DEF FileOk
  <2> QED BY <2>2, NothingIn DEF Written
<1>7. leaf \in Seq(PairRec) BY DEF WriterOk, LeafOk, PairsOk
<1>8. CASE LeafSize(leaf) + LeafNeed(q) <= LeafRoom
  <2>1. file' = g /\ leaf' = Append(leaf, q) /\ hand' = <<>> BY <1>2, <1>8
  <2> HIDE DEF q, g
  <2>2. InList(leaf', k, v) <=> InList(leaf, k, v) \/ (p.key = k /\ p.value = v)
    BY <1>4, <1>7, <2>1, InListAppended
  <2> QED BY <1>6, <2>1, <2>2 DEF Written, WrittenGains
<1>9. CASE ~(LeafSize(leaf) + LeafNeed(q) <= LeafRoom)
  <2> DEFINE node == [depth |-> 0, items |-> leaf]
             h == WritePage(g, node)
             c == LeafForParent(NextPage(g), node)
             next == <<q>>
  <2>1. file' = h /\ leaf' = next /\ hand' = <<c>> BY <1>2, <1>9 DEF WriteLeaf
  <2> HIDE DEF q, g
  <2>2. LeafNeed(q) <= LeafRoom BY <1>4, <1>5, TreesAssumption, Fields DEF LeafNeed, Small
  <2>3. leaf # <<>> BY <1>5, <1>9, <2>2, LeafSizes
  <2>4. LeafOk(g, next)
    <3>1. LeafSize(<<q>>) = LeafNeed(q)
      <4> DEFINE e == <<>>
      <4>1. <<q>> = Append(e, q) /\ e \in Seq(PairRec) /\ LeafSize(e) = 0 BY LeafSizes
      <4> HIDE DEF e
      <4>2. LeafSize(Append(e, q)) = LeafSize(e) + LeafNeed(q) BY <1>5, <4>1, LeafSizes
      <4>3. LeafSize(<<q>>) = LeafSize(Append(e, q)) BY <4>1
      <4> QED BY <1>5, <4>1, <4>2, <4>3
    <3> QED BY <1>4, <1>5, <2>2, <3>1 DEF LeafOk, PairsOk, Ascending
  <2>5. node = [depth |-> 0, items |-> leaf] /\ h = WritePage(g, node)
        /\ c = LeafForParent(NextPage(g), node)
    OBVIOUS
  <2>6. DOMAIN next = {1} /\ next[1] = q OBVIOUS
  <2> HIDE DEF node, h, c, next
  <2>7. \A i \in DOMAIN next : UpTo(leaf, chain, <<>>, next[i].key) BY <1>4, <2>6
  <2>8. Written(h, next, chain, <<c>>, k, v) <=> Written(g, leaf, chain, <<>>, k, v) \/ InList(next, k, v)
    BY <1>4, <2>3, <2>4, <2>5, <2>7, LeafWrites
  <2>9. InList(next, k, v) <=> p.key = k /\ p.value = v BY <1>4, <2>6 DEF InList
  <2> QED BY <1>6, <2>1, <2>8, <2>9 DEF WrittenGains
<1> QED BY <1>8, <1>9

-----------------------------------------------------------------------------
(* What the steps of a merge have to keep.                                 *)

\* What is promoted and what the trees have stays when pages are written.
LEMMA TreesHold ==
    ASSUME SInv, FileOk(file'), Extends(file', file), UNCHANGED <<upper, lower, promoted, pending>>
    PROVE  /\ Moved' = Moved
           /\ \A root \in {upper, lower, pending.upper, pending.lower} : \A k, v :
                 InTree(file', root, k, v) <=> InTree(file, root, k, v)
           /\ upper # NoPage => Below(file', upper) = Below(file, upper)
           /\ \A n \in DOMAIN file : AwayFrom(file, promoted, n) => AwayFrom(file', promoted, n)
<1>1. Forest(file) /\ Forest(file') BY DEF SInv, FileOk
<1>2. \A n \in promoted : n \in DOMAIN file BY DEF SInv, CleanOk, IsLeaf
<1>3. \A n \in DOMAIN file : file'[n] = file[n] BY DEF Extends
<1>4. ItemsOf(file', promoted) = ItemsOf(file, promoted) BY <1>2, <1>3 DEF ItemsOf
<1>5. Moved' = Moved BY <1>4 DEF Moved
<1>6. /\ RootOk(file, upper) /\ RootOk(file, lower)
      /\ RootOk(file, pending.upper) /\ RootOk(file, pending.lower)
  BY DEF SInv, RootsOk
<1>7. \A root \in {upper, lower, pending.upper, pending.lower} : \A k, v :
         InTree(file', root, k, v) <=> InTree(file, root, k, v)
  BY <1>1, <1>6, PlacesStay
<1>8. upper # NoPage => Below(file', upper) = Below(file, upper)
  BY <1>1, <1>6, TreesStay DEF RootOk, IsNode, IsLeaf, IsInner
<1>9. \A n \in DOMAIN file : Below(file', n) = Below(file, n) /\ KeysUnder(file', n) = KeysUnder(file, n)
  BY <1>1, TreesStay
<1>10. \A n \in DOMAIN file : AwayFrom(file, promoted, n) => AwayFrom(file', promoted, n)
  BY <1>2, <1>9 DEF AwayFrom
<1> QED BY <1>5, <1>7, <1>8, <1>10

\* The pairs that are promoted are pairs of the upper tree, one for a key.
LEMMA MovedFacts ==
    ASSUME SInv, MergeInv, phase \in {"merge", "survivors", "prepared"}
    PROVE  /\ upper # NoPage /\ IsNode(file, upper) /\ Moved \subseteq PairsUnder(file, upper)
           /\ \A p, q \in Moved : p.key = q.key => p = q
           /\ \A p \in Moved : p \in PairRec /\ p.key \in Keys /\ p.value \in Stored
           /\ \A k, v : Among(Moved, k, v) => InTree(file, upper, k, v)
<1>1. upper # NoPage /\ promoted \subseteq Below(file, upper) BY DEF MergeInv
<1>2. IsNode(file, upper) BY <1>1 DEF SInv, RootsOk, RootOk
<1>3. \A n \in promoted : IsLeaf(file, n) BY DEF SInv, CleanOk
<1>4. \A n \in promoted : file[n].depth = 0 BY <1>3, NodeFacts DEF IsNode, IsLeaf
<1>5. Moved \subseteq PairsUnder(file, upper) BY <1>1, <1>4 DEF Moved, PairsUnder, ItemsOf
<1>6. FileOk(file) BY DEF SInv
<1>7. \A p, q \in Moved : p.key = q.key => p = q BY <1>2, <1>5, <1>6, OnePair
<1>8. \A p \in Moved : p \in PairRec /\ p.key \in Keys /\ p.value \in Stored BY <1>2, <1>5, <1>6, PairsUnderNodes
<1>9. \A k, v : Among(Moved, k, v) => InTree(file, upper, k, v) BY <1>1, <1>5 DEF Among, InTree
<1> QED BY <1>1, <1>2, <1>5, <1>7, <1>8, <1>9

\* A step of a merge that neither begins nor ends a tree.
LEMMA MergeStep ==
    ASSUME SInv, MergeInv, FileOk(file'), Extends(file', file),
           UNCHANGED <<upper, lower, promoted, pending, phase>>,
           phase \in {"write", "merge", "survivors"}, pairs' \subseteq pairs,
           phase = "merge" => \A k \in Keys, v \in Stored : MergeKeeps(k, v),
           phase = "survivors" => StillAway /\ \A k \in Keys, v \in Stored : SurvivorsKeep(k, v)
    PROVE  MergeInv'
<1>1. /\ Moved' = Moved
      /\ \A root \in {upper, lower, pending.upper, pending.lower} : \A k, v :
            InTree(file', root, k, v) <=> InTree(file, root, k, v)
      /\ upper # NoPage => Below(file', upper) = Below(file, upper)
      /\ \A n \in DOMAIN file : AwayFrom(file, promoted, n) => AwayFrom(file', promoted, n)
  BY TreesHold
<1>2. \A k, v : Here(k, v)' <=> After(k, v) BY DEF Here, After, Done, Left
<1>3. \A k, v : Done(k, v)' <=> Written(file', leaf', chain', hand', k, v) BY DEF Done
<1>4. phase \in {"merge", "survivors", "prepared"} => upper' # NoPage /\ promoted' \subseteq Below(file', upper')
  BY <1>1 DEF MergeInv
<1>5. ASSUME phase = "merge"
      PROVE  MergedSoFar'
  <2>1. MergedSoFar BY <1>5 DEF MergeInv
  <2>2. pairs' \subseteq Moved' BY <1>1, <2>1 DEF MergedSoFar
  <2> SUFFICES ASSUME NEW k \in Keys, NEW v \in Stored
               PROVE  /\ HasKey(Moved', k) /\ ~HasKey(pairs', k) =>
                           (Here(k, v)' => Among(Moved', k, v)) /\ (Among(Moved', k, v) => Here(k, v)' \/ v = Tombstone)
                      /\ ~HasKey(Moved', k) => (Here(k, v)' <=> InTree(file', lower', k, v))
    BY <2>2 DEF MergedSoFar
  <2>3. MergeKeeps(k, v) BY <1>5
  <2>4. ASSUME HasKey(Moved, k), ~HasKey(pairs', k)
        PROVE  (After(k, v) => Among(Moved, k, v)) /\ (Among(Moved, k, v) => After(k, v) \/ v = Tombstone)
    <3>1. CASE HasKey(pairs, k)
      <4>1. pairs \subseteq Moved BY <2>1 DEF MergedSoFar
      <4>2. \A p, q \in Moved : p.key = q.key => p = q BY <1>5, MovedFacts
      <4>3. Among(Moved, k, v) <=> Among(pairs, k, v) BY <3>1, <4>1, <4>2 DEF Among, HasKey
      <4> QED BY <2>3, <2>4, <3>1, <4>3 DEF MergeKeeps, Taking
    <3>2. CASE ~HasKey(pairs, k) BY <2>1, <2>3, <2>4, <3>2 DEF MergeKeeps, MergedSoFar
    <3> QED BY <3>1, <3>2
  <2>5. ASSUME ~HasKey(Moved, k)
        PROVE  After(k, v) <=> InTree(file, lower, k, v)
    <3>1. ~HasKey(pairs, k) BY <2>1, <2>5 DEF MergedSoFar, HasKey
    <3> QED BY <2>1, <2>3, <2>5, <3>1 DEF MergeKeeps, MergedSoFar
  <2> QED BY <1>1, <1>2, <2>4, <2>5
<1>6. ASSUME phase = "survivors"
      PROVE  LowerIsMerged'
  <2>1. LowerIsMerged BY <1>6 DEF MergeInv
  <2> QED BY <1>1, <2>1 DEF LowerIsMerged
<1>7. ASSUME phase = "survivors"
      PROVE  LeftSoFar'
  <2>1. LeftSoFar BY <1>7 DEF MergeInv
  <2>2. \A d \in DOMAIN todo' : \A i \in DOMAIN todo'[d] : AwayFrom(file', promoted', todo'[d][i].page)
    BY <1>1, <1>7 DEF StillAway
  <2>3. \A k \in Keys, v \in Stored :
           /\ HasKey(Moved', k) => ~Done(k, v)'
           /\ ~HasKey(Moved', k) => (Here(k, v)' <=> InTree(file', upper', k, v))
    BY <1>1, <1>2, <1>3, <1>7, <2>1 DEF LeftSoFar, SurvivorsKeep
  <2> QED BY <2>2, <2>3 DEF LeftSoFar
<1> QED BY <1>4, <1>5, <1>6, <1>7 DEF MergeInv

-----------------------------------------------------------------------------
(* The steps that write.                                                   *)

\* What is there stays when the writer goes on, or gets more levels.
LEMMA WriterStep ==
    ASSUME SInv, MergeInv, FileOk(file'), Extends(file', file),
           \A k, v : WrittenStays(k, v), phase \in {"write", "merge", "survivors"},
           UNCHANGED <<upper, lower, promoted, pending, phase, pairs, reading, todo>>
    PROVE  MergeInv'
<1>1. TodoOk(file, reading, todo) BY DEF SInv, ReadingOk, SourcesOk
<1>2. FileOk(file) BY DEF SInv
<1>3. \A k, v : Waiting(file', reading, todo, k, v) <=> Waiting(file, reading, todo, k, v)
  BY <1>1, <1>2, WaitingStays
<1>4. \A k, v : Written(file', leaf', chain', hand', k, v) <=> Done(k, v) BY DEF WrittenStays, Done
<1>5. \A k, v : After(k, v) <=> Here(k, v) BY <1>3, <1>4 DEF After, Here, Left
<1>6. \A k, v : MergeKeeps(k, v) BY <1>5 DEF MergeKeeps, Taking
<1>7. \A k, v : SurvivorsKeep(k, v) BY <1>4, <1>5 DEF SurvivorsKeep
<1>8. phase = "survivors" => StillAway
  <2>1. \A d \in DOMAIN todo : \A i \in DOMAIN todo[d] : todo[d][i].page \in DOMAIN file
    BY <1>1 DEF TodoOk, ItemsOk, ItemOk, IsNode, IsLeaf, IsInner
  <2> QED BY <2>1 DEF StillAway, MergeInv, LeftSoFar
<1> QED BY <1>6, <1>7, <1>8, MergeStep

\* AddChild, FlushPage, FlushLeaf.
LEMMA WriterSteps ==
    ASSUME SInv, MergeInv, AddChild \/ FlushPage \/ FlushLeaf
    PROVE  MergeInv'
<1>1. FileOk(file') /\ Extends(file', file) /\ \A k, v : WrittenStays(k, v) BY WriterKeepsPairs
<1>2. UNCHANGED <<upper, lower, promoted, pending, phase, pairs, reading, todo>>
  BY DEF AddChild, FlushPage, FlushLeaf, segments, merge, sources
<1>3. phase \in {"write", "merge", "survivors"}
  <2>1. leaf # <<>> \/ hand # <<>> \/ ~AllEmpty(chain) BY DEF AddChild, FlushPage, FlushLeaf
  <2>2. phase \notin {"idle", "prepared"} BY <2>1, Busy
  <2> QED BY <2>2 DEF SInv, PhaseOk
<1> QED BY <1>1, <1>2, <1>3, WriterStep

\* RecycleChildren.
LEMMA RecycleStep ==
    ASSUME SInv, MergeInv, RecycleChildren
    PROVE  MergeInv'
<1>1. /\ UNCHANGED <<file, upper, lower, promoted, pending, phase, pairs, reading, todo, leaf, hand>>
      /\ Walking /\ chain' = Lengthened(Depth)
  BY DEF RecycleChildren, segments, merge
<1>2. phase \in {"write", "merge", "survivors"} BY <1>1 DEF Walking, Ready
<1>3. LevelsOk(file, leaf, chain) BY DEF SInv, WritingOk, WriterOk
<1> DEFINE D == Depth
           n == IF D > Len(chain) THEN D ELSE Len(chain)
<1>4. D \in Nat BY <1>1, WalkFacts DEF Walking
<1>5. chain' = [d \in 1..n |-> IF d <= Len(chain) THEN chain[d] ELSE <<>>] BY <1>1 DEF Lengthened
<1> HIDE DEF D
<1>6. n \in Nat /\ n >= Len(chain) BY <1>3, <1>4 DEF LevelsOk
<1> HIDE DEF n
<1>7. /\ DOMAIN chain \subseteq DOMAIN chain' /\ \A d \in DOMAIN chain : chain'[d] = chain[d]
      /\ \A d \in DOMAIN chain' : d \notin DOMAIN chain => chain'[d] = <<>>
  BY <1>3, <1>5, <1>6, LevelsAdded
<1>8. ASSUME NEW k, NEW v
      PROVE  InLevels(file, chain', k, v) <=> InLevels(file, chain, k, v)
  <2>1. ~InItems(file, <<>>, k, v) BY NothingIn
  <2> QED BY <1>7, <2>1 DEF InLevels
<1>9. \A k, v : WrittenStays(k, v) BY <1>1, <1>8 DEF WrittenStays, Written
<1>10. FileOk(file') /\ Extends(file', file) BY <1>1 DEF SInv, Extends
<1> QED BY <1>1, <1>2, <1>9, <1>10, WriterStep

-----------------------------------------------------------------------------
(* The steps that take pairs.                                              *)

\* No pair with a key that is still to come has been written.
LEMMA NotYetWritten ==
    ASSUME NEW f, FileOk(f), NEW lf, NEW ch, NEW l, WriterOk(f, lf, ch, <<>>, l),
           NEW y \in Int, UpTo(lf, ch, <<>>, y), NEW v
    PROVE  ~Written(f, lf, ch, <<>>, y, v)
<1>1. ~InList(lf, y, v) BY DEF UpTo, InList
<1>2. \A d \in DOMAIN ch : ItemsOk(f, d, ch[d]) BY LevelsAre DEF WriterOk
<1>3. ASSUME NEW d \in DOMAIN ch, NEW i \in DOMAIN ch[d], Among(PairsUnder(f, ch[d][i].page), y, v)
      PROVE  FALSE
  <2>1. y \in KeysUnder(f, ch[d][i].page) BY <1>3 DEF Among, KeysUnder
  <2>2. ItemOk(f, d, ch[d][i]) BY <1>2 DEF ItemsOk
  <2>3. ch[d][i].key \in Int /\ y <= ch[d][i].key BY <2>1, <2>2, ItemKeys
  <2>4. ch[d][i].key < y BY DEF UpTo
  <2> QED BY <2>3, <2>4
<1>4. ~InLevels(f, ch, y, v) BY <1>3 DEF InLevels, InItems
<1> QED BY <1>1, <1>4, NothingIn DEF Written

\* And none is left of those that were passed.
LEMMA NotLeft ==
    ASSUME NEW f, NEW y \in Int, NEW ps, NEW rd, NEW td, Follow(f, y, ps, rd, td), NEW v
    PROVE  ~Waiting(f, rd, td, y, v)
<1>1. ~InList(rd, y, v) BY DEF Follow, InList
<1>2. ASSUME NEW d \in DOMAIN td, NEW i \in DOMAIN td[d], Among(PairsUnder(f, td[d][i].page), y, v)
      PROVE  FALSE
  <2>1. y \in KeysUnder(f, td[d][i].page) BY <1>2 DEF Among, KeysUnder
  <2>2. y < y BY <2>1 DEF Follow
  <2> QED BY <2>2
<1> QED BY <1>1, <1>2 DEF Waiting, InLevels, InItems

\* The pair that is taken takes the place of what has the same key.
LEMMA TakeStep ==
    ASSUME SInv, MergeInv, Ready, pairs # {}, TakePair,
           Follow(file, NextPair.key, pairs', reading', todo), SourcesOk(file, pairs', reading', todo),
           \A k, v : k # NextPair.key => (InList(reading', k, v) <=> InList(reading, k, v)),
           UNCHANGED <<upper, lower, promoted, pending, phase, todo, chain>>
    PROVE  MergeInv'
<1>1. hand = <<>> /\ phase \in {"write", "merge", "survivors"} BY DEF Ready
<1>2. phase # "survivors" BY DEF SInv, PhaseOk
<1>3. SourceOk(file, pairs) /\ FileOk(file) /\ TodoOk(file, reading', todo)
      /\ WriterOk(file, leaf, chain, <<>>, level)
  BY <1>1 DEF SInv, ReadingOk, SourcesOk, WritingOk
<1>4. Takes(NextPair) /\ pairs' = pairs \ {NextPair} BY <1>1, TakePairFacts
<1>5. FileOk(file') /\ Extends(file', file) BY <1>1, <1>4, TakesFacts
<1>6. /\ NextPair \in pairs /\ NextPair.key \in Int /\ PairOk(file, NextPair)
      /\ \A q \in pairs \ {NextPair} : NextPair.key < q.key
  BY <1>3, NextPairFacts, PairsLeft
<1> DEFINE y == NextPair.key
           w == NextPair.value
<1>7. UpTo(leaf, chain, <<>>, y) BY <1>1, <1>6 DEF SInv, InOrder, UpToSources, UpToPairs
<1>8. \A k, v : Waiting(file', reading', todo, k, v) <=> Waiting(file, reading', todo, k, v)
  BY <1>3, <1>5, WaitingStays
<1>9. ASSUME NEW k, NEW v
      PROVE  \/ WrittenGains(NextPair, k, v)
             \/ w = Tombstone /\ WrittenStays(k, v)
  <2>1. CASE PutPair(NextPair)
    <3>1. WrittenGains(NextPair, k, v) BY <1>1, <1>3, <1>6, <1>7, <2>1, PutPairAdds
    <3> QED BY <3>1
  <2>2. CASE w = Tombstone /\ UNCHANGED <<file, leaf, hand, level>> BY <2>2 DEF WrittenStays
  <2> QED BY <2>1, <2>2 DEF TakePair
<1>10. \A v : ~Done(y, v) BY <1>1, <1>3, <1>6, <1>7, NotYetWritten DEF Done
<1>11. \A v : ~Waiting(file, reading', todo, y, v) BY <1>6, NotLeft
<1>12. ASSUME NEW k, NEW v
       PROVE  MergeKeeps(k, v)
  <2>1. HasKey(pairs, y) /\ (Taking(k) => k = y) BY <1>4, <1>6 DEF Taking, HasKey
  <2>2. CASE k = y
    <3>1. Among(pairs, k, v) <=> v = w BY <1>6, <2>2 DEF Among
    <3>2. After(k, v) <=> Written(file', leaf', chain', hand', k, v) BY <1>8, <1>11, <2>2 DEF After
    <3>3. \/ After(k, v) <=> v = w
          \/ w = Tombstone /\ ~After(k, v)
      BY <1>9, <1>10, <2>2, <3>2 DEF WrittenGains, WrittenStays, Done
    <3> QED BY <2>1, <2>2, <3>1, <3>3 DEF MergeKeeps
  <2>3. CASE k # y
    <3>1. Written(file', leaf', chain', hand', k, v) <=> Done(k, v)
      BY <1>9, <2>3 DEF WrittenGains, WrittenStays, Done
    <3>2. Waiting(file', reading', todo', k, v) <=> Left(k, v)
      BY <1>8, <2>3 DEF Waiting, Left
    <3> QED BY <2>1, <2>3, <3>1, <3>2 DEF MergeKeeps, After, Here
  <2> QED BY <2>2, <2>3
<1>13. pairs' \subseteq pairs BY <1>4
<1> QED BY <1>1, <1>2, <1>5, <1>12, <1>13, MergeStep

\* What is left when the next pair is taken, and the first of the leaf that is rewritten.
LEMMA WhatIsLeft ==
    ASSUME SInv, pairs # {}
    PROVE  /\ SourceOk(file, pairs \ {NextPair}) /\ NextPair.key \in Int
           /\ reading = <<>> /\ AllEmpty(todo) =>
                 Follow(file, NextPair.key, pairs \ {NextPair}, reading, todo)
           /\ reading # <<>> /\ NextPair.key < Head(reading).key =>
                 Follow(file, NextPair.key, pairs \ {NextPair}, reading, todo)
           /\ reading # <<>> /\ NextPair.key = Head(reading).key =>
                 Follow(file, NextPair.key, pairs \ {NextPair}, Tail(reading), todo)
<1>1. SourcesOk(file, pairs, reading, todo) /\ SourceOk(file, pairs) /\ FileOk(file)
  BY DEF SInv, ReadingOk, SourcesOk
<1> DEFINE y == NextPair.key
           ps == pairs \ {NextPair}
<1>2. SourceOk(file, ps) /\ y \in Int /\ \A q \in ps : y < q.key BY <1>1, PairsLeft, NextPairFacts
<1> HIDE DEF y, ps
<1>3. reading = <<>> /\ AllEmpty(todo) => Follow(file, y, ps, reading, todo) BY <1>2 DEF Follow, AllEmpty
<1>4. ASSUME reading # <<>>, y < Head(reading).key
      PROVE  Follow(file, y, ps, reading, todo)
  <2>1. Head(reading).key \in Int /\ Head(reading) = reading[1] /\ 1 \in DOMAIN reading
    BY <1>1, <1>4, ReadingLeft
  <2>2. \A d \in DOMAIN todo : \A i \in DOMAIN todo[d] :
                 \A m \in KeysUnder(file, todo[d][i].page) : Head(reading).key < m /\ m \in Int
    BY <1>1, <1>4, ReadingLeft, KeysToCome
  <2>3. \A i \in DOMAIN reading : reading[i].key \in Int /\ Head(reading).key <= reading[i].key
    <3> TAKE i \in DOMAIN reading
    <3>1. reading[i].key \in Int BY <1>1, KeysToCome
    <3>2. i = 1 \/ 1 < i BY <1>1 DEF SourcesOk, PairsOk
    <3> QED BY <1>1, <2>1, <3>1, <3>2 DEF SourcesOk, PairsOk, Ascending
  <2>4. \A i \in DOMAIN reading : y < reading[i].key BY <1>2, <1>4, <2>1, <2>3
  <2>5. \A d \in DOMAIN todo : \A i \in DOMAIN todo[d] : \A m \in KeysUnder(file, todo[d][i].page) : y < m
    BY <1>2, <1>4, <2>1, <2>2
  <2> QED BY <1>2, <2>4, <2>5 DEF Follow
<1>5. ASSUME reading # <<>>, y = Head(reading).key
      PROVE  Follow(file, y, ps, Tail(reading), todo)
  <2>1. /\ \A i \in DOMAIN Tail(reading) : Head(reading).key < Tail(reading)[i].key
        /\ \A d \in DOMAIN todo : \A i \in DOMAIN todo[d] :
              \A m \in KeysUnder(file, todo[d][i].page) : Head(reading).key < m
    BY <1>1, <1>5, ReadingLeft
  <2> QED BY <1>2, <1>5, <2>1 DEF Follow
<1> QED BY <1>2, <1>3, <1>4, <1>5 DEF y, ps

\* TakeRest, TakeBetween and Replace.
LEMMA TakeSteps ==
    ASSUME SInv, MergeInv, TakeRest \/ TakeBetween \/ Replace
    PROVE  MergeInv'
<1>1. /\ Ready /\ pairs # {} /\ TakePair
      /\ UNCHANGED <<upper, lower, promoted, pending, phase, todo, chain>>
      /\ \/ reading' = reading /\ reading = <<>> /\ AllEmpty(todo)
         \/ reading' = reading /\ reading # <<>> /\ NextPair.key < Head(reading).key
         \/ reading' = Tail(reading) /\ reading # <<>> /\ NextPair.key = Head(reading).key
  BY DEF TakeRest, TakeBetween, Replace, Merging, segments
<1>2. pairs' = pairs \ {NextPair} BY <1>1 DEF TakePair
<1>3. Follow(file, NextPair.key, pairs', reading', todo) BY <1>1, <1>2, WhatIsLeft
<1>4. SourcesOk(file, pairs, reading, todo) /\ FileOk(file) BY DEF SInv, ReadingOk
<1>5. PairsOk(file, reading') /\ TodoOk(file, reading', todo)
  <2>1. CASE reading' = reading BY <1>4, <2>1 DEF SourcesOk
  <2>2. CASE reading' = Tail(reading) /\ reading # <<>> BY <1>4, <2>2, ReadingLeft
  <2> QED BY <1>1, <2>1, <2>2
<1>6. SourcesOk(file, pairs', reading', todo) BY <1>1, <1>2, <1>5, WhatIsLeft DEF SourcesOk
<1>7. ASSUME NEW k, NEW v, k # NextPair.key
      PROVE  InList(reading', k, v) <=> InList(reading, k, v)
  <2>1. CASE reading' = reading BY <2>1
  <2>2. CASE reading' = Tail(reading) /\ reading # <<>> /\ NextPair.key = Head(reading).key
    <3>1. reading \in Seq(PairRec) BY <1>4 DEF SourcesOk, PairsOk
    <3>2. InList(reading, k, v) <=> InList(Tail(reading), k, v) \/ (Head(reading).key = k /\ Head(reading).value = v)
      BY <2>2, <3>1, InListTail
    <3> QED BY <1>7, <2>2, <3>2
  <2> QED BY <1>1, <2>1, <2>2
<1> QED BY <1>1, <1>3, <1>6, <1>7, TakeStep

\* KeepPair: the first pair of the leaf that is rewritten is written again.
LEMMA KeepPairStep ==
    ASSUME SInv, MergeInv, KeepPair
    PROVE  MergeInv'
<1> DEFINE p == Head(reading)
           t == Tail(reading)
<1>1. /\ Ready /\ reading # <<>> /\ PutPair(p) /\ reading' = t
      /\ UNCHANGED <<upper, lower, promoted, pending, phase, pairs, todo, chain>>
  BY DEF KeepPair, Merging, segments, merge
<1>2. hand = <<>> /\ phase \in {"write", "merge", "survivors"} BY <1>1 DEF Ready
<1>3. phase = "merge" BY <1>1, <1>2 DEF SInv, PhaseOk
<1>4. SourcesOk(file, pairs, reading, todo) /\ FileOk(file) /\ reading \in Seq(PairRec)
      /\ WriterOk(file, leaf, chain, <<>>, level)
  BY <1>2 DEF SInv, ReadingOk, SourcesOk, PairsOk, WritingOk
<1>5. PairOk(file, p) /\ p = reading[1] /\ 1 \in DOMAIN reading /\ TodoOk(file, t, todo)
  BY <1>1, <1>4, ReadingLeft
<1>6. \A k, v : InList(reading, k, v) <=> InList(t, k, v) \/ (p.key = k /\ p.value = v)
  BY <1>1, <1>4, InListTail
<1> HIDE DEF p, t
<1>7. UpTo(leaf, chain, <<>>, p.key) BY <1>2, <1>5 DEF SInv, InOrder, UpToSources, UpToReading
<1>8. Takes(p) BY <1>1, <1>5, <1>7 DEF Takes
<1>9. FileOk(file') /\ Extends(file', file) BY <1>1, <1>2, <1>8, TakesFacts
<1>10. \A k, v : WrittenGains(p, k, v) BY <1>1, <1>2, <1>4, <1>5, <1>7, PutPairAdds
<1>11. \A k, v : Waiting(file', t, todo, k, v) <=> Waiting(file, t, todo, k, v)
  BY <1>4, <1>5, <1>9, WaitingStays
<1>12. \A k, v : After(k, v) <=> Here(k, v)
  BY <1>1, <1>6, <1>10, <1>11 DEF After, Here, Done, Left, Waiting, WrittenGains
<1>13. \A k, v : MergeKeeps(k, v) BY <1>1, <1>12 DEF MergeKeeps, Taking
<1> QED BY <1>1, <1>3, <1>9, <1>13, MergeStep

-----------------------------------------------------------------------------
(* The steps that keep or rewrite nodes.                                   *)

\* The keys under a node are under those above it.
LEMMA KeysBelow ==
    ASSUME NEW f, Forest(f), NEW n \in DOMAIN f, NEW m \in Below(f, n)
    PROVE  PairsUnder(f, m) \subseteq PairsUnder(f, n) /\ KeysUnder(f, m) \subseteq KeysUnder(f, n)
<1>1. Below(f, m) \subseteq Below(f, n) BY BelowNodes
<1>2. PairsUnder(f, m) \subseteq PairsUnder(f, n) BY <1>1 DEF PairsUnder, ItemsOf
<1> QED BY <1>2 DEF KeysUnder

\* The children of a parent have no key in common.
LEMMA ChildrenApart ==
    ASSUME NEW f, FileOk(f), NEW n, IsInner(f, n), NEW c \in Children(f, n), NEW e \in Children(f, n), c # e
    PROVE  KeysUnder(f, c) \cap KeysUnder(f, e) = {}
<1> DEFINE s == f[n].items
<1>1. PICK i \in DOMAIN s : c = s[i].page BY DEF Children
<1>2. PICK j \in DOMAIN s : e = s[j].page BY DEF Children
<1>3. ItemsOk(f, f[n].depth, s) BY DEF FileOk, PageOk, IsInner
<1>4. i \in Nat /\ j \in Nat /\ i # j BY <1>1, <1>2, <1>3, ListDomain DEF ItemsOk
<1>5. /\ s[i].key \in Int /\ \A k \in KeysUnder(f, c) : k \in Int /\ k <= s[i].key
      /\ s[j].key \in Int /\ \A k \in KeysUnder(f, e) : k \in Int /\ k <= s[j].key
  BY <1>1, <1>2, <1>3, ItemKeys DEF ItemsOk
<1>6. /\ i < j => \A k \in KeysUnder(f, e) : s[i].key < k
      /\ j < i => \A k \in KeysUnder(f, c) : s[j].key < k
  BY <1>1, <1>2, <1>3 DEF ItemsOk, Before
<1>7. i < j \/ j < i BY <1>4
<1> HIDE DEF s
<1> QED BY <1>5, <1>6, <1>7

\* What holds of a parent and the promoted leaves holds of its children.
LEMMA AwayDown ==
    ASSUME NEW f, FileOk(f), NEW pr, \A m \in pr : IsLeaf(f, m), NEW n, IsInner(f, n), AwayFrom(f, pr, n),
           NEW c \in Children(f, n)
    PROVE  AwayFrom(f, pr, c)
<1>1. Forest(f) /\ n \in DOMAIN f BY DEF FileOk, IsInner
<1>2. c \in Below(f, n)
  <2>1. c \in DOMAIN f BY <1>1, ChildFacts
  <2>2. c \in Below(f, c) BY <1>1, <2>1, BelowNodes
  <2> QED BY <1>1, <2>2, BelowFacts
<1>3. KeysUnder(f, c) \subseteq KeysUnder(f, n) BY <1>1, <1>2, KeysBelow
<1> SUFFICES ASSUME NEW m \in pr, m \notin Below(f, c)
             PROVE  KeysUnder(f, m) \cap KeysUnder(f, c) = {}
  BY DEF AwayFrom
<1>4. CASE m \in Below(f, n)
  <2>1. m # n
    <3>1. IsLeaf(f, m) OBVIOUS
    <3>2. f[m].depth = 0 BY <3>1, NodeFacts DEF IsNode, IsLeaf
    <3>3. f[n].depth # 0 BY <1>1, ChildFacts
    <3> QED BY <3>2, <3>3
  <2>2. PICK e \in Children(f, n) : m \in Below(f, e) BY <1>1, <1>4, <2>1, BelowFacts
  <2>3. e # c /\ e \in DOMAIN f BY <1>1, <2>2, ChildFacts
  <2>4. KeysUnder(f, m) \subseteq KeysUnder(f, e) BY <1>1, <2>2, <2>3, KeysBelow
  <2>5. KeysUnder(f, e) \cap KeysUnder(f, c) = {} BY <2>2, <2>3, ChildrenApart
  <2> QED BY <2>4, <2>5
<1>5. CASE m \notin Below(f, n) BY <1>3, <1>5 DEF AwayFrom
<1> QED BY <1>4, <1>5

\* When the next item has been dealt with, what is under it is not left any more.
LEMMA PastPairs ==
    ASSUME SInv, ~AllEmpty(todo), NEW td, td = Past, NEW k, NEW v
    PROVE  InLevels(file, todo, k, v) <=> InLevels(file, td, k, v) \/ Among(PairsUnder(file, Item.page), k, v)
<1> DEFINE more == Among(PairsUnder(file, Item.page), k, v)
           D == Depth
<1>1. /\ DOMAIN td = DOMAIN todo
      /\ td[D] = Tail(todo[D]) /\ \A d \in DOMAIN todo : d # D => td[d] = todo[d]
  BY PastFacts
<1>2. D \in DOMAIN todo /\ todo[D] # <<>> /\ todo[D] \in Seq(ItemRec) /\ Item = Head(todo[D])
  BY WalkFacts DEF Item
<1>3. InItems(file, todo[D], k, v) <=> InItems(file, td[D], k, v) \/ more
  <2> HIDE DEF D
  <2> QED BY <1>1, <1>2, InItemsTail
<1>4. more \in BOOLEAN BY DEF Among
<1> HIDE DEF D, more
<1>5. InLevels(file, todo, k, v) <=> InLevels(file, td, k, v) \/ more
  BY <1>1, <1>2, <1>3, <1>4, LevelGains
<1> QED BY <1>5 DEF more

\* And what is left of it is still away from the promoted leaves.
LEMMA PastAway ==
    ASSUME SInv, MergeInv, phase = "survivors", ~AllEmpty(todo), NEW td, td = Past
    PROVE  /\ \A d \in DOMAIN td : \A i \in DOMAIN td[d] :
                 td[d][i].page \in DOMAIN file /\ AwayFrom(file, promoted, td[d][i].page)
           /\ Item.page \in DOMAIN file /\ AwayFrom(file, promoted, Item.page)
<1>1. \A d \in DOMAIN todo : \A i \in DOMAIN todo[d] : AwayFrom(file, promoted, todo[d][i].page)
  BY DEF MergeInv, LeftSoFar
<1>2. \A d \in DOMAIN todo : \A i \in DOMAIN todo[d] : todo[d][i].page \in DOMAIN file
  BY DEF SInv, ReadingOk, SourcesOk, TodoOk, ItemsOk, ItemOk, IsNode, IsLeaf, IsInner
<1>3. DOMAIN td = DOMAIN todo
      /\ \A d \in DOMAIN td : \A i \in DOMAIN td[d] : \E j \in DOMAIN todo[d] : td[d][i] = todo[d][j]
  BY PastFacts
<1>4. Depth \in DOMAIN todo /\ 1 \in DOMAIN todo[Depth] /\ Item = todo[Depth][1] BY WalkFacts
<1> QED BY <1>1, <1>2, <1>3, <1>4

\* RewriteChild: the items of a node take its place.
LEMMA RewriteChildStep ==
    ASSUME SInv, MergeInv, RewriteChild
    PROVE  MergeInv'
<1> DEFINE D == Depth
           n == Item.page
           td == Past
           s == file[n].items
<1>1. /\ Ready /\ reading = <<>> /\ ~AllEmpty(todo)
      /\ UNCHANGED <<file, upper, lower, phase, pairs, leaf, chain, hand, promoted, pending>>
  BY DEF RewriteChild, Walking, segments, writer
<1>2. IF D > 1 THEN todo' = [td EXCEPT ![D - 1] = s] /\ reading' = reading
      ELSE phase = "merge" /\ todo' = td /\ reading' = s
  BY DEF RewriteChild
<1>3. /\ D \in DOMAIN todo /\ D \in Nat \ {0} /\ ItemOk(file, D, Item)
      /\ \A e \in DOMAIN todo : e < D => todo[e] = <<>>
      /\ phase \in {"merge", "survivors"}
  BY <1>1, WalkFacts
<1>4. /\ td \in Seq(Seq(ItemRec)) /\ DOMAIN td = DOMAIN todo
      /\ \A d \in DOMAIN todo : d # D => td[d] = todo[d]
  BY <1>1, PastFacts
<1>5. FileOk(file) /\ Forest(file) BY DEF SInv, FileOk
<1>6. \A k, v : InLevels(file, todo, k, v) <=> InLevels(file, td, k, v) \/ Among(PairsUnder(file, n), k, v)
  BY <1>1, PastPairs
<1>7. phase = "survivors" => AwayFrom(file, promoted, n) /\ \A d \in DOMAIN td : \A i \in DOMAIN td[d] :
         td[d][i].page \in DOMAIN file /\ AwayFrom(file, promoted, td[d][i].page)
  BY <1>1, PastAway
<1>8. \A p \in promoted : IsLeaf(file, p) BY DEF SInv, CleanOk
<1> HIDE DEF td
<1>9. CASE D > 1
  <2>1. IsInner(file, n) /\ ItemsOk(file, D - 1, s) BY <1>3, <1>5, <1>9, ItemPage
  <2>2. todo' = [td EXCEPT ![D - 1] = s] /\ reading' = reading BY <1>2, <1>9
  <2>3. D - 1 \in DOMAIN td /\ D - 1 # D /\ td[D - 1] = <<>>
    <3>1. D - 1 \in DOMAIN td /\ D - 1 < D BY <1>3, <1>4, <1>9
    <3> QED BY <1>3, <1>4, <3>1
  <2>4. s \in Seq(ItemRec) BY <2>1 DEF ItemsOk
  <2>5. \A k, v : Among(PairsUnder(file, n), k, v) <=> InItems(file, s, k, v) BY <1>5, <2>1, UnderItems
  <2>6. phase = "survivors" => \A i \in DOMAIN s : s[i].page \in DOMAIN file /\ AwayFrom(file, promoted, s[i].page)
    <3> SUFFICES ASSUME phase = "survivors", NEW i \in DOMAIN s
                 PROVE  s[i].page \in DOMAIN file /\ AwayFrom(file, promoted, s[i].page)
      OBVIOUS
    <3>1. s[i].page \in Children(file, n) BY DEF Children
    <3>2. s[i].page \in DOMAIN file BY <1>5, <2>1, <3>1, ChildFacts
    <3>3. AwayFrom(file, promoted, s[i].page) BY <1>5, <1>7, <1>8, <2>1, <3>1, AwayDown
    <3> QED BY <3>2, <3>3
  <2> HIDE DEF D, s, n
  <2>7. /\ DOMAIN todo' = DOMAIN td /\ todo'[D - 1] = s
        /\ \A d \in DOMAIN td : d # D - 1 => todo'[d] = td[d]
    BY <1>4, <2>2, <2>3, <2>4, LevelChanged
  <2>8. ASSUME NEW k, NEW v
        PROVE  InLevels(file, todo', k, v) <=> InLevels(file, todo, k, v)
    <3> DEFINE more == InItems(file, s, k, v)
    <3>1. InItems(file, todo'[D - 1], k, v) <=> InItems(file, td[D - 1], k, v) \/ more BY <2>3, <2>7, NothingIn
    <3>2. more \in BOOLEAN BY DEF InItems
    <3> HIDE DEF more
    <3>3. InLevels(file, todo', k, v) <=> InLevels(file, td, k, v) \/ more
      BY <2>3, <2>7, <3>1, <3>2, LevelGains
    <3> QED BY <1>6, <2>5, <3>3 DEF more
  <2>9. \A k, v : After(k, v) <=> Here(k, v)
    BY <1>1, <2>2, <2>8 DEF After, Here, Done, Left, Waiting
  <2>10. \A k, v : MergeKeeps(k, v) BY <1>1, <2>9 DEF MergeKeeps, Taking
  <2>11. \A k, v : SurvivorsKeep(k, v) BY <1>1, <2>9 DEF SurvivorsKeep, Done
  <2>12. phase = "survivors" => StillAway BY <1>7, <2>6, <2>7 DEF StillAway
  <2>13. FileOk(file') /\ Extends(file', file) /\ pairs' \subseteq pairs BY <1>1, <1>5 DEF Extends
  <2> QED BY <1>1, <1>3, <2>10, <2>11, <2>12, <2>13, MergeStep
<1>10. CASE ~(D > 1)
  <2>1. phase = "merge" /\ todo' = td /\ reading' = s BY <1>2, <1>10
  <2>2. IsLeaf(file, n)
    <3>1. D = 1 BY <1>3, <1>10
    <3>2. ItemOk(file, 1, Item) BY <1>3, <3>1
    <3> QED BY <1>5, <3>2, ItemPage
  <2>3. \A k, v : Among(PairsUnder(file, n), k, v) <=> InList(s, k, v) BY <1>5, <2>2, UnderItems
  <2> HIDE DEF D, s, n
  <2>4. \A k, v : After(k, v) <=> Here(k, v)
    BY <1>1, <1>6, <2>1, <2>3, NothingIn DEF After, Here, Done, Left, Waiting
  <2>5. \A k, v : MergeKeeps(k, v) BY <1>1, <2>4 DEF MergeKeeps, Taking
  <2>6. FileOk(file') /\ Extends(file', file) /\ pairs' \subseteq pairs BY <1>1, <1>5 DEF Extends
  <2> QED BY <1>1, <2>1, <2>5, <2>6, MergeStep
<1> QED BY <1>9, <1>10

\* KeepChild: a node goes into the hand, with what is under it.
LEMMA KeepChildStep ==
    ASSUME SInv, MergeInv, KeepChild
    PROVE  MergeInv'
<1> DEFINE n == Item.page
           td == Past
<1>1. /\ keep > 0 /\ hand = <<>> /\ hand' = <<AsItem(Item)>> /\ todo' = td
      /\ UNCHANGED <<file, upper, lower, phase, pairs, reading, leaf, chain, promoted, pending>>
  BY DEF KeepChild, segments, merge
<1>2. /\ phase \in {"merge", "survivors"} /\ ~AllEmpty(todo)
      /\ phase = "survivors" => ~OnLineage(Item)
  BY <1>1 DEF SInv, KeepOk
<1>3. FileOk(file) BY DEF SInv
<1>4. \A k, v : InLevels(file, todo, k, v) <=> InLevels(file, td, k, v) \/ Among(PairsUnder(file, n), k, v)
  BY <1>2, PastPairs
<1>5. phase = "survivors" => AwayFrom(file, promoted, n) /\ \A d \in DOMAIN td : \A i \in DOMAIN td[d] :
         td[d][i].page \in DOMAIN file /\ AwayFrom(file, promoted, td[d][i].page)
  BY <1>2, PastAway
<1>6. AsItem(Item).page = n
  <2>1. ItemOk(file, Depth, Item) BY <1>2, WalkFacts
  <2> QED BY <2>1, AsItemFacts
<1>7. \A k, v : InItems(file, hand', k, v) <=> Among(PairsUnder(file, n), k, v) BY <1>1, <1>6, InOneItem
<1> HIDE DEF td, n
<1>8. \A k, v : Written(file', leaf', chain', hand', k, v) <=> Done(k, v) \/ Among(PairsUnder(file, n), k, v)
  BY <1>1, <1>7, NothingIn DEF Written, Done
<1>9. \A k, v : Left(k, v) <=> Waiting(file', reading', todo', k, v) \/ Among(PairsUnder(file, n), k, v)
  BY <1>1, <1>4 DEF Left, Waiting
<1>10. \A k, v : After(k, v) <=> Here(k, v) BY <1>8, <1>9 DEF After, Here
<1>11. \A k, v : MergeKeeps(k, v) BY <1>1, <1>10 DEF MergeKeeps, Taking
<1>12. ASSUME phase = "survivors", NEW k, NEW v
       PROVE  SurvivorsKeep(k, v)
  <2>1. ASSUME HasKey(Moved, k), Among(PairsUnder(file, n), k, v)
        PROVE  FALSE
    <3>1. PICK m \in promoted : \E i \in DOMAIN file[m].items : file[m].items[i].key = k
      BY <2>1 DEF HasKey, Moved, ItemsOf
    <3>2. IsLeaf(file, m) BY DEF SInv, CleanOk
    <3>3. k \in KeysUnder(file, m) BY <1>3, <3>1, <3>2, PairsUnderFacts DEF FileOk
    <3>4. k \in KeysUnder(file, n) BY <2>1 DEF Among, KeysUnder
    <3>5. m \notin Below(file, n) BY <1>2, <1>12 DEF OnLineage, n
    <3> QED BY <1>5, <1>12, <3>3, <3>4, <3>5 DEF AwayFrom
  <2> QED BY <1>8, <1>10, <2>1 DEF SurvivorsKeep
<1>13. phase = "survivors" => StillAway BY <1>1, <1>5 DEF StillAway
<1>14. FileOk(file') /\ Extends(file', file) /\ pairs' \subseteq pairs BY <1>1, <1>3 DEF Extends
<1> QED BY <1>1, <1>2, <1>11, <1>12, <1>13, <1>14, MergeStep

\* SkipLeaf: a promoted leaf does not become part of the new upper tree.
LEMMA SkipLeafStep ==
    ASSUME SInv, MergeInv, SkipLeaf
    PROVE  MergeInv'
<1> DEFINE n == Item.page
           td == Past
<1>1. /\ ~AllEmpty(todo) /\ Keepable(Depth, todo[Depth]) = 0 /\ Depth = 1 /\ phase = "survivors" /\ todo' = td
      /\ UNCHANGED <<file, upper, lower, phase, pairs, reading, leaf, chain, hand, promoted, pending>>
  BY DEF SkipLeaf, Walking, segments, writer, merge
<1>2. FileOk(file) BY DEF SInv
<1>3. \A k, v : InLevels(file, todo, k, v) <=> InLevels(file, td, k, v) \/ Among(PairsUnder(file, n), k, v)
  BY <1>1, PastPairs
<1>4. \A d \in DOMAIN td : \A i \in DOMAIN td[d] :
         td[d][i].page \in DOMAIN file /\ AwayFrom(file, promoted, td[d][i].page)
  BY <1>1, PastAway
<1>5. n \in promoted /\ IsLeaf(file, n)
  <2>1. ItemOk(file, 1, Item)
    <3>1. ItemOk(file, Depth, Item) BY <1>1, WalkFacts
    <3> QED BY <1>1, <3>1
  <2>2. IsLeaf(file, n) BY <1>2, <2>1, ItemPage
  <2>3. Item = Head(todo[Depth]) BY DEF Item
  <2>4. OnLineage(Item) BY <1>1, <2>3 DEF Keepable
  <2>5. ~IsInner(file, n) /\ n \in DOMAIN file BY <2>2 DEF IsLeaf, IsInner, LeafNode, ParentNode
  <2>6. Below(file, n) = {n} BY <1>2, <2>5, BelowFacts DEF FileOk
  <2> QED BY <2>2, <2>4, <2>6 DEF OnLineage
<1>6. \A k, v : Among(PairsUnder(file, n), k, v) => HasKey(Moved, k)
  <2>1. PairsUnder(file, n) = {file[n].items[i] : i \in DOMAIN file[n].items}
    BY <1>2, <1>5, PairsUnderFacts DEF FileOk
  <2> QED BY <1>5, <2>1 DEF Among, HasKey, Moved, ItemsOf
<1> HIDE DEF td, n
<1>7. \A k, v : ~HasKey(Moved, k) => (After(k, v) <=> Here(k, v))
  BY <1>1, <1>3, <1>6 DEF After, Here, Done, Left, Waiting
<1>8. \A k, v : SurvivorsKeep(k, v) BY <1>1, <1>7 DEF SurvivorsKeep, Done
<1>9. StillAway BY <1>1, <1>4 DEF StillAway
<1>10. FileOk(file') /\ Extends(file', file) /\ pairs' \subseteq pairs BY <1>1, <1>2 DEF Extends
<1> QED BY <1>1, <1>8, <1>9, <1>10, MergeStep

-----------------------------------------------------------------------------
(* Trees begin and end.                                                    *)

\* There is nothing in an empty writer.
LEMMA NothingWritten ==
    ASSUME NEW f, NEW k, NEW v
    PROVE  ~Written(f, <<>>, NewChain, <<>>, k, v)
<1>1. \A d \in DOMAIN NewChain : NewChain[d] = <<>> BY DEF NewChain
<1> QED BY <1>1 DEF Written, InLevels, InItems, InList

\* When nothing is left, the tree that was written has everything.
LEMMA RootHolds ==
    ASSUME SInv, IsWritten, NEW k, NEW v
    PROVE  Here(k, v) <=> InTree(file, Root, k, v)
<1>1. leaf = <<>> /\ hand = <<>> /\ reading = <<>> /\ AllEmpty(todo) BY DEF IsWritten, HasRoot, NothingLeft
<1>2. ~Left(k, v) BY <1>1 DEF Left, Waiting, InList, InLevels, InItems, AllEmpty
<1>3. Done(k, v) <=> InLevels(file, chain, k, v) BY <1>1, NothingIn DEF Done, Written
<1>4. CASE AllEmpty(chain)
  <2>1. Root = NoPage BY <1>4 DEF Root
  <2>2. ~InLevels(file, chain, k, v) BY <1>4 DEF AllEmpty, InLevels, InItems
  <2> QED BY <1>2, <1>3, <2>1, <2>2 DEF Here, InTree
<1>5. CASE ~AllEmpty(chain)
  <2> DEFINE d == Lowest(chain)
             c == chain[d][1]
  <2>1. LevelsOk(file, leaf, chain) /\ chain \in Seq(Seq(ItemRec)) /\ ShortTop(chain)
    BY DEF SInv, WritingOk, WriterOk, LevelsOk
  <2>2. /\ d \in DOMAIN chain /\ d \in Nat /\ chain[d] # <<>> /\ \A e \in DOMAIN chain : e < d => chain[e] = <<>>
    BY <1>5, <2>1, LowestFacts
  <2>3. chain[d] \in Seq(ItemRec) /\ Len(chain[d]) \in Nat /\ Len(chain[d]) # 0 /\ Len(chain) \in Nat
        /\ DOMAIN chain = 1..Len(chain)
    BY <2>1, <2>2
  <2>4. \/ d = Len(chain)
        \/ d + 1 = Len(chain) /\ chain[d + 1] = <<>> /\ Len(chain[d]) = 1
    BY <1>5 DEF IsWritten, HasRoot, IsLast
  <2>5. Len(chain[d]) = 1
    <3>1. CASE d = Len(chain)
      <4>1. Len(chain[d]) <= 1 BY <2>1, <3>1 DEF ShortTop
      <4>2. \A n \in Nat : n # 0 /\ n <= 1 => n = 1 OBVIOUS
      <4> QED BY <2>3, <4>1, <4>2, Zenon
    <3> QED BY <2>4, <3>1
  <2>6. \A e \in DOMAIN chain : e # d => chain[e] = <<>>
    <3> SUFFICES ASSUME NEW e \in DOMAIN chain, e # d
                 PROVE  chain[e] = <<>>
      OBVIOUS
    <3>1. e < d \/ e = d + 1 BY <2>2, <2>3, <2>4
    <3>2. CASE e < d BY <2>2, <3>2
    <3>3. CASE e = d + 1
      <4>1. d # Len(chain) BY <2>2, <2>3, <3>3
      <4> QED BY <2>4, <3>3, <4>1
    <3> QED BY <3>1, <3>2, <3>3
  <2>7. DOMAIN chain[d] = {1} BY <2>3, <2>5
  <2>8. Root = c.page BY <1>5 DEF Root
  <2>9. ItemOk(file, d, c)
    <3>1. ItemsOk(file, d, chain[d]) BY <2>1, <2>2, LevelsAre
    <3> QED BY <2>7, <3>1 DEF ItemsOk
  <2> HIDE DEF d
  <2>10. InLevels(file, chain, k, v) <=> InItems(file, chain[d], k, v)
    <3>1. ~InItems(file, <<>>, k, v) BY NothingIn
    <3> QED BY <2>2, <2>6, <3>1 DEF InLevels
  <2>11. InItems(file, chain[d], k, v) <=> Among(PairsUnder(file, c.page), k, v) BY <2>7 DEF InItems
  <2>12. c.page # NoPage BY <2>9 DEF ItemOk, IsNode, IsLeaf, IsInner, SInv, FileOk, Forest
  <2> QED BY <1>2, <1>3, <2>8, <2>10, <2>11, <2>12 DEF Here, InTree
<1> QED BY <1>4, <1>5

\* When a tree begins to be taken apart, everything it has is left.
LEMMA TakenPairs ==
    ASSUME FileOk(file), NEW root, RootOk(file, root), NEW k, NEW v
    PROVE  InTree(file, root, k, v) <=>
              \/ InLevels(file, Taken(root), k, v)
              \/ root # NoPage /\ ~IsParent(file, root) /\ InList(file[root].items, k, v)
<1>1. Forest(file) BY DEF FileOk
<1>2. CASE root = NoPage
  <2>1. Taken(root) = <<>> BY <1>2 DEF Taken
  <2> QED BY <1>2, <2>1 DEF InTree, InLevels
<1>3. CASE root # NoPage /\ ~IsParent(file, root)
  <2>1. Taken(root) = <<>> BY <1>3 DEF Taken
  <2>2. IsLeaf(file, root) BY <1>3, TakenFacts
  <2>3. Among(PairsUnder(file, root), k, v) <=> InList(file[root].items, k, v) BY <1>1, <2>2, UnderItems
  <2> QED BY <1>3, <2>1, <2>3 DEF InTree, InLevels
<1>4. CASE root # NoPage /\ IsParent(file, root)
  <2> DEFINE N == file[root].depth
             s == file[root].items
             td == [d \in 1..N |-> IF d = N THEN s ELSE <<>>]
  <2>1. IsNode(file, root) /\ root \in DOMAIN file BY <1>4 DEF RootOk, IsNode, IsLeaf, IsInner
  <2>2. IsInner(file, root) BY <1>4, <2>1, NodeFacts
  <2>3. N \in Nat /\ N >= 1 BY <1>1, <2>2, ChildFacts
  <2>4. Taken(root) = td BY <1>4 DEF Taken
  <2>5. Among(PairsUnder(file, root), k, v) <=> InItems(file, s, k, v) BY <1>1, <2>2, UnderItems
  <2> HIDE DEF N, s
  <2>6. DOMAIN td = 1..N /\ N \in 1..N /\ td[N] = s /\ \A d \in 1..N : d # N => td[d] = <<>> BY <2>3
  <2> HIDE DEF td
  <2>7. ~InItems(file, <<>>, k, v) BY NothingIn
  <2>8. InLevels(file, td, k, v) <=> InItems(file, s, k, v) BY <2>6, <2>7 DEF InLevels
  <2> QED BY <1>4, <2>4, <2>5, <2>8 DEF InTree
<1> QED BY <1>2, <1>3, <1>4

\* BeginMerge: the lower tree is all that is there.
LEMMA BeginMergeStep ==
    ASSUME SInv, BeginMerge
    PROVE  MergeInv'
<1>1. /\ phase = "idle" /\ upper # NoPage
      /\ promoted' \in ToPromote(file, upper) /\ pairs' = ItemsOf(file, promoted')
      /\ phase' = "merge" /\ todo' = Taken(lower)
      /\ reading' = IF lower # NoPage /\ ~IsParent(file, lower) THEN file[lower].items ELSE <<>>
      /\ UNCHANGED <<file, upper, lower, leaf, chain, hand>>
  BY DEF BeginMerge, segments, writer
<1>2. leaf = <<>> /\ chain = NewChain /\ hand = <<>> BY <1>1 DEF SInv, PhaseOk
<1>3. FileOk(file) /\ RootOk(file, upper) /\ RootOk(file, lower) BY DEF SInv, RootsOk
<1>4. IsNode(file, upper) BY <1>1, <1>3 DEF RootOk
<1>5. promoted' \subseteq Below(file, upper) BY <1>1, <1>3, <1>4, PromoteFacts
<1>6. Moved' = pairs' BY <1>1 DEF Moved
<1>7. ASSUME NEW k, NEW v
      PROVE  Here(k, v)' <=> InTree(file, lower, k, v)
  <2>1. ~Done(k, v)' BY <1>1, <1>2, NothingWritten DEF Done
  <2>2. Left(k, v)' <=> InList(reading', k, v) \/ InLevels(file, Taken(lower), k, v) BY <1>1 DEF Left, Waiting
  <2>3. InTree(file, lower, k, v) <=>
              \/ InLevels(file, Taken(lower), k, v)
              \/ lower # NoPage /\ ~IsParent(file, lower) /\ InList(file[lower].items, k, v)
    BY <1>3, TakenPairs
  <2>4. InList(reading', k, v) <=> lower # NoPage /\ ~IsParent(file, lower) /\ InList(file[lower].items, k, v)
    BY <1>1, NothingIn
  <2> QED BY <2>1, <2>2, <2>3, <2>4 DEF Here
<1>8. MergedSoFar' BY <1>1, <1>6, <1>7 DEF MergedSoFar
<1> QED BY <1>1, <1>5, <1>8 DEF MergeInv

\* BeginSurvivors: the lower tree is written, and the upper one is all that is there.
LEMMA BeginSurvivorsStep ==
    ASSUME SInv, UpperTaken, MergeInv, BeginSurvivors
    PROVE  MergeInv'
<1>1. /\ phase = "merge" /\ IsWritten /\ phase' = "survivors" /\ pending'.lower = Root
      /\ chain' = NewChain /\ todo' = Taken(upper)
      /\ UNCHANGED <<file, upper, lower, pairs, reading, leaf, hand, promoted>>
  <2>1. BeginSurvivors => pending' = [pending EXCEPT !.lower = Root, !.panicked = ~RootIsWritten(Root)]
    BY DEF BeginSurvivors
  <2>2. pending \in [upper : Nat, lower : Nat, panicked : BOOLEAN] BY DEF SInv, RootsOk
  <2>3. pending'.lower = Root BY <2>1, <2>2
  <2> QED BY <2>3 DEF BeginSurvivors, segments
<1>2. leaf = <<>> /\ hand = <<>> /\ reading = <<>> /\ pairs = {} BY <1>1 DEF IsWritten, HasRoot, NothingLeft
<1>3. FileOk(file) /\ RootOk(file, upper) /\ Forest(file) BY DEF SInv, RootsOk, FileOk
<1>4. upper # NoPage /\ IsNode(file, upper) /\ upper \in DOMAIN file /\ promoted \subseteq Below(file, upper)
  BY <1>1, <1>3 DEF MergeInv, RootOk, IsNode, IsLeaf, IsInner
<1>5. MergedSoFar BY <1>1 DEF MergeInv
<1>6. \A k, v : Here(k, v) <=> InTree(file, Root, k, v) BY <1>1, RootHolds
<1>7. Moved' = Moved BY <1>1 DEF Moved
<1>8. LowerIsMerged'
  <2>1. \A k : ~HasKey(pairs, k) BY <1>2 DEF HasKey
  <2> QED BY <1>1, <1>5, <1>6, <1>7, <2>1 DEF LowerIsMerged, MergedSoFar
<1>9. \A k, v : ~Done(k, v)' BY <1>1, <1>2, NothingWritten DEF Done
<1>10. \A k, v : Left(k, v)' <=> InLevels(file, Taken(upper), k, v)
  BY <1>1, <1>2, NothingIn DEF Left, Waiting
<1>11. ASSUME NEW k, NEW v, ~HasKey(Moved, k)
       PROVE  Here(k, v)' <=> InTree(file, upper, k, v)
  <2>1. InTree(file, upper, k, v) <=>
              \/ InLevels(file, Taken(upper), k, v)
              \/ upper # NoPage /\ ~IsParent(file, upper) /\ InList(file[upper].items, k, v)
    BY <1>3, TakenPairs
  <2>2. ASSUME ~IsParent(file, upper), InList(file[upper].items, k, v)
        PROVE  FALSE
    <3>1. upper \in promoted BY <1>1, <1>4, <2>2, NodeFacts DEF UpperTaken
    <3> QED BY <1>11, <2>2, <3>1 DEF Moved, ItemsOf, HasKey, InList
  <2> QED BY <1>9, <1>10, <2>1, <2>2 DEF Here
<1>12. \A d \in DOMAIN todo' : \A i \in DOMAIN todo'[d] : AwayFrom(file, promoted, todo'[d][i].page)
  <2>1. CASE ~IsParent(file, upper)
    <3>1. todo' = <<>> BY <1>1, <2>1 DEF Taken
    <3> QED BY <3>1
  <2>2. CASE IsParent(file, upper)
    <3>1. IsInner(file, upper) BY <1>4, <2>2, NodeFacts
    <3>2. todo' = [d \in 1..file[upper].depth |-> IF d = file[upper].depth THEN file[upper].items ELSE <<>>]
      BY <1>1, <1>4, <2>2 DEF Taken
    <3>3. AwayFrom(file, promoted, upper) BY <1>4 DEF AwayFrom
    <3>4. \A p \in promoted : IsLeaf(file, p) BY DEF SInv, CleanOk
    <3>5. \A i \in DOMAIN file[upper].items : AwayFrom(file, promoted, file[upper].items[i].page)
      BY <1>3, <3>1, <3>3, <3>4, AwayDown DEF Children
    <3>6. \A d \in DOMAIN todo' : todo'[d] = file[upper].items \/ todo'[d] = <<>> BY <3>2
    <3> QED BY <3>5, <3>6
  <2> QED BY <2>1, <2>2
<1>13. LeftSoFar'
  <2>1. \A k, v : /\ HasKey(Moved', k) => ~Done(k, v)'
                  /\ ~HasKey(Moved', k) => (Here(k, v)' <=> InTree(file', upper', k, v))
    BY <1>1, <1>7, <1>9, <1>11
  <2> QED BY <1>1, <1>12, <2>1 DEF LeftSoFar
<1> QED BY <1>1, <1>4, <1>8, <1>13 DEF MergeInv

\* EndMerge: both trees are written.
LEMMA EndMergeStep ==
    ASSUME SInv, MergeInv, EndMerge
    PROVE  MergeInv'
<1>1. /\ phase = "survivors" /\ IsWritten /\ phase' = "prepared"
      /\ pending'.upper = Root /\ pending'.lower = pending.lower
      /\ UNCHANGED <<file, upper, lower, promoted>>
  <2>1. pending \in [upper : Nat, lower : Nat, panicked : BOOLEAN] BY DEF SInv, RootsOk
  <2> QED BY <2>1 DEF EndMerge, segments
<1>2. \A k, v : Here(k, v) <=> InTree(file, Root, k, v) BY <1>1, RootHolds
<1>3. \A k, v : ~Left(k, v)
  BY <1>1 DEF Left, Waiting, InList, InLevels, InItems, AllEmpty, IsWritten, NothingLeft
<1>4. LeftSoFar /\ LowerIsMerged /\ upper # NoPage /\ promoted \subseteq Below(file, upper)
  BY <1>1 DEF MergeInv
<1>5. Moved' = Moved BY <1>1 DEF Moved
<1>6. UpperIsLeft' BY <1>1, <1>2, <1>3, <1>4, <1>5 DEF UpperIsLeft, LeftSoFar, Here
<1>7. LowerIsMerged' BY <1>1, <1>4, <1>5 DEF LowerIsMerged
<1> QED BY <1>1, <1>4, <1>6, <1>7 DEF MergeInv

-----------------------------------------------------------------------------
(* The theorems.                                                           *)

\* While nothing is merged there is nothing to say, and a merge that is committed is
\* over.
LEMMA OtherSteps ==
    ASSUME MergeInv, SInv, Write \/ EndWrite \/ CommitMerge
    PROVE  MergeInv'
<1>1. phase' \in {"write", "idle"} BY DEF Write, EndWrite, CommitMerge
<1> QED BY <1>1 DEF MergeInv

\* MergeInv holds at every step.
THEOREM MergesAreRight == Spec => []MergeInv
<1>1. Init => MergeInv BY DEF Init, MergeInv
<1>2. IInv /\ MergeInv /\ [Next]_vars => MergeInv'
  <2> SUFFICES ASSUME IInv, MergeInv, [Next]_vars
               PROVE  MergeInv'
    OBVIOUS
  <2>1. SInv /\ UpperTaken BY DEF IInv, OInv
  <2>2. CASE UNCHANGED vars
    <3>1. UNCHANGED <<file, upper, lower, phase, pairs, reading, todo, leaf, chain, hand, promoted, pending>>
      BY <2>2 DEF vars, segments, sources, writer, merge
    <3>2. Moved' = Moved BY <3>1 DEF Moved
    <3>3. \A k, v : (Done(k, v)' <=> Done(k, v)) /\ (Here(k, v)' <=> Here(k, v)) BY <3>1 DEF Here, Done, Left
    <3>4. MergedSoFar => MergedSoFar' BY <3>1, <3>2, <3>3 DEF MergedSoFar
    <3>5. LowerIsMerged => LowerIsMerged' BY <3>1, <3>2 DEF LowerIsMerged
    <3>6. LeftSoFar => LeftSoFar' BY <3>1, <3>2, <3>3 DEF LeftSoFar
    <3>7. UpperIsLeft => UpperIsLeft' BY <3>1, <3>2 DEF UpperIsLeft
    <3> QED BY <3>1, <3>4, <3>5, <3>6, <3>7 DEF MergeInv
  <2>3. CASE Write \/ EndWrite \/ CommitMerge BY <2>1, <2>3, OtherSteps
  <2>4. CASE BeginMerge BY <2>1, <2>4, BeginMergeStep
  <2>5. CASE BeginSurvivors BY <2>1, <2>5, BeginSurvivorsStep
  <2>6. CASE EndMerge BY <2>1, <2>6, EndMergeStep
  <2>7. CASE TakeRest \/ TakeBetween \/ Replace BY <2>1, <2>7, TakeSteps
  <2>8. CASE KeepPair BY <2>1, <2>8, KeepPairStep
  <2>9. CASE RecycleChildren BY <2>1, <2>9, RecycleStep
  <2>10. CASE KeepChild BY <2>1, <2>10, KeepChildStep
  <2>11. CASE RewriteChild BY <2>1, <2>11, RewriteChildStep
  <2>12. CASE SkipLeaf BY <2>1, <2>12, SkipLeafStep
  <2>13. CASE AddChild \/ FlushPage \/ FlushLeaf BY <2>1, <2>13, WriterSteps
  <2> QED BY <2>2, <2>3, <2>4, <2>5, <2>6, <2>7, <2>8, <2>9, <2>10, <2>11, <2>12, <2>13 DEF Next, RewriteLeaf
<1> QED BY <1>1, <1>2, TreesInvariant, PTL DEF Spec

\* EndWrite: the segment that was written is the new first one.
LEMMA EndWriteImplements ==
    ASSUME SInv, HeldIsContents, EndWrite
    PROVE  Abstract!Write
<1>1. /\ upper = NoPage /\ HasRoot /\ held' = [held EXCEPT !.upper = Contents(file, Root)]
  BY DEF EndWrite, IsWritten, SInv, PhaseOk
<1>2. held.upper = NoPairs
  <2>1. Contents(file, NoPage) = NoPairs BY DEF Contents, Nodes, ItemsOf, NoPairs
  <2> QED BY <1>1, <2>1 DEF HeldIsContents
<1>3. Contents(file, Root) \in PairSet BY <1>1, RootFacts, ContentsAre DEF SInv
<1>4. held'.upper = Contents(file, Root) /\ held'.lower = held.lower BY <1>1 DEF HeldIsContents
<1> QED BY <1>2, <1>3, <1>4 DEF Abstract!Write, Abstract!NoPairs, NoPairs, Abstract!PairSet, PairSet,
                                Abstract!Entry, Entry

\* CommitMerge: every key was promoted or stays as it is.
LEMMA CommitImplements ==
    ASSUME SInv, MergeInv, HeldIsContents, CommitMerge
    PROVE  Abstract!Promote
<1>1. /\ phase = "prepared"
      /\ held' = [upper |-> Contents(file, pending.upper), lower |-> Contents(file, pending.lower)]
  BY DEF CommitMerge
<1> DEFINE Has(root) == Contents(file, root)
<1>2. \A root \in {upper, lower, pending.upper, pending.lower} :
         /\ Has(root) \in PairSet
         /\ \A k \in Keys, v \in Stored : InTree(file, root, k, v) <=> Has(root)[k] = v
  BY ContentsAre DEF SInv, RootsOk
<1>3. /\ held.upper = Has(upper) /\ held.lower = Has(lower)
      /\ held'.upper = Has(pending.upper) /\ held'.lower = Has(pending.lower)
  BY <1>1 DEF HeldIsContents
<1>4. /\ \A p, q \in Moved : p.key = q.key => p = q
      /\ \A p \in Moved : p.key \in Keys /\ p.value \in Stored
      /\ \A k, v : Among(Moved, k, v) => InTree(file, upper, k, v)
  BY <1>1, MovedFacts
<1>5. UpperIsLeft /\ LowerIsMerged BY <1>1 DEF MergeInv
<1> HIDE DEF Has
<1>6. ASSUME NEW k \in Keys
      PROVE  Abstract!Stays(k) \/ Abstract!Moves(k)
  <2>1. \A root \in {upper, lower, pending.upper, pending.lower} : Has(root)[k] \in Stored \cup {Absent}
    BY <1>2 DEF PairSet, Entry, Stored
  <2>2. Absent \notin Stored BY PairsAssumption DEF Stored
  <2>3. CASE HasKey(Moved, k)
    <3>1. PICK p \in Moved : p.key = k BY <2>3 DEF HasKey
    <3>2. p.value \in Stored /\ Among(Moved, k, p.value) /\ Has(upper)[k] = p.value
      BY <1>2, <1>4, <3>1 DEF Among
    <3>3. \A v : Among(Moved, k, v) => v = p.value BY <1>4, <3>1 DEF Among
    <3>4. Has(pending.upper)[k] = Absent BY <1>2, <1>5, <2>1, <2>3 DEF UpperIsLeft
    <3>5. Has(pending.lower)[k] \in Stored => Has(pending.lower)[k] = p.value
      BY <1>2, <1>5, <2>3, <3>3 DEF LowerIsMerged
    <3>6. p.value # Tombstone => Has(pending.lower)[k] = p.value
      BY <1>2, <1>5, <2>3, <3>2 DEF LowerIsMerged
    <3> QED BY <1>3, <2>1, <2>2, <3>2, <3>4, <3>5, <3>6 DEF Abstract!Moves
  <2>4. CASE ~HasKey(Moved, k)
    <3>1. \A v \in Stored : Has(pending.upper)[k] = v <=> Has(upper)[k] = v
      BY <1>2, <1>5, <2>4 DEF UpperIsLeft
    <3>2. \A v \in Stored : Has(pending.lower)[k] = v <=> Has(lower)[k] = v
      BY <1>2, <1>5, <2>4 DEF LowerIsMerged
    <3>3. Has(pending.upper)[k] = Has(upper)[k] BY <2>1, <3>1
    <3>4. Has(pending.lower)[k] = Has(lower)[k] BY <2>1, <3>2
    <3> QED BY <1>3, <3>3, <3>4 DEF Abstract!Stays
  <2> QED BY <2>3, <2>4
<1> QED BY <1>6 DEF Abstract!Promote

\* Trees implements Segments: when a segment is written, and when a merge is committed
\* after any number of steps that wrote, kept and freed pages, the pairs of the two
\* trees are what Segments says, and at every other step they are the same.
THEOREM TreesImplementSegments == Spec => ImplementsSegments
<1>1. Init => Abstract!Init BY DEF Init, Abstract!Init, Abstract!NoPairs, NoPairs
<1>2. IInv /\ MergeInv /\ HeldIsContents /\ [Next]_vars => [Abstract!Next]_<<held.upper, held.lower>>
  <2> SUFFICES ASSUME IInv, MergeInv, HeldIsContents, [Next]_vars
               PROVE  Abstract!Next \/ UNCHANGED <<held.upper, held.lower>>
    OBVIOUS
  <2>1. SInv BY DEF IInv
  <2>2. CASE EndWrite BY <2>1, <2>2, EndWriteImplements DEF Abstract!Next
  <2>3. CASE CommitMerge BY <2>1, <2>3, CommitImplements DEF Abstract!Next
  <2>4. CASE UNCHANGED vars BY <2>4 DEF vars, segments
  <2>5. CASE Next /\ ~EndWrite /\ ~CommitMerge
    <3>1. UNCHANGED held
      BY <2>5 DEF Next, Write, BeginMerge, BeginSurvivors, EndMerge, TakeRest, RewriteLeaf, TakeBetween, Replace, KeepPair,
                  RecycleChildren, KeepChild, RewriteChild, SkipLeaf, AddChild, FlushLeaf, FlushPage, segments
    <3> QED BY <3>1
  <2> QED BY <2>2, <2>3, <2>4, <2>5
<1> QED BY <1>1, <1>2, TreesInvariant, MergesAreRight, HeldIsAlwaysContents, PTL
        DEF Spec, ImplementsSegments, Abstract!Spec

-----------------------------------------------------------------------------
(* Cursors on a tree.                                                      *)

\* What the keys under a node are.
LEMMA NodeKeys ==
    ASSUME FileOk(file), NEW n, IsNode(file, n), NEW s, s = file[n].items
    PROVE  /\ n \in Nat /\ n # NoPage /\ file[n].depth \in Nat
           /\ Len(s) \in Nat /\ Len(s) >= 1 /\ DOMAIN s = 1..Len(s)
           /\ file[n].depth = 0 <=> IsLeaf(file, n)
           /\ file[n].depth > 0 <=> IsInner(file, n)
           /\ \A k \in KeysUnder(file, n) : k \in Int /\ k \in Keys
           /\ IsLeaf(file, n) => KeysUnder(file, n) = ListKeys(s)
           /\ IsLeaf(file, n) => \A i, j \in DOMAIN s : i < j => s[i].key < s[j].key
<1>1. Forest(file) /\ n \in DOMAIN file BY DEF FileOk, IsNode, IsLeaf, IsInner
<1>2. n \in Nat /\ n # NoPage BY <1>1 DEF Forest
<1>3. /\ file[n].depth \in Int
      /\ IsInner(file, n) <=> file[n].depth > 0
      /\ IsLeaf(file, n) <=> file[n].depth = 0
      /\ IsLeaf(file, n) => file[n].items \in Seq(PairRec)
      /\ IsInner(file, n) => file[n].items \in Seq(ItemRec) /\ file[n].depth \in Nat
  BY <1>1, NodeFacts
<1>4. file[n].depth \in Nat BY <1>3 DEF IsNode
<1>5. Len(s) \in Nat /\ Len(s) >= 1 /\ DOMAIN s = 1..Len(s)
  <2>1. Len(file[n].items) \in Nat /\ Len(file[n].items) >= 1 BY KeyFacts
  <2>2. DOMAIN s = 1..Len(s)
    <3>1. CASE IsLeaf(file, n) BY <1>3, <3>1
    <3>2. CASE IsInner(file, n) BY <1>3, <3>2
    <3> QED BY <3>1, <3>2 DEF IsNode
  <2> QED BY <2>1, <2>2
<1>6. \A k \in KeysUnder(file, n) : k \in Int /\ k \in Keys BY KeyFacts
<1>7. IsLeaf(file, n) => KeysUnder(file, n) = ListKeys(s) BY <1>1, PairsUnderFacts DEF ListKeys
<1>8. IsLeaf(file, n) => \A i, j \in DOMAIN s : i < j => s[i].key < s[j].key
  BY <1>1 DEF FileOk, PageOk, LeafOk, PairsOk, Ascending
<1> QED BY <1>2, <1>3, <1>4, <1>5, <1>6, <1>7, <1>8

\* Those of a parent are those of its children, one child after the other.
LEMMA ParentKeys ==
    ASSUME FileOk(file), NEW n, IsInner(file, n), NEW s, s = file[n].items
    PROVE  /\ \A i \in DOMAIN s :
                /\ IsNode(file, s[i].page) /\ file[s[i].page].depth = file[n].depth - 1
                /\ s[i].page \in Nat /\ s[i].key \in Int
                /\ KeysUnder(file, s[i].page) \subseteq KeysUnder(file, n)
                /\ s[i].key \in KeysUnder(file, s[i].page)
                /\ \A k \in KeysUnder(file, s[i].page) : k <= s[i].key
           /\ \A k \in KeysUnder(file, n) : \E i \in DOMAIN s : k \in KeysUnder(file, s[i].page)
           /\ \A i, j \in DOMAIN s : i < j =>
                \A k \in KeysUnder(file, s[i].page), m \in KeysUnder(file, s[j].page) : k < m
<1>1. Forest(file) /\ n \in DOMAIN file BY DEF FileOk, IsInner
<1>2. KeysUnder(file, n) = UNION {KeysUnder(file, c) : c \in Children(file, n)} BY <1>1, PairsUnderFacts
<1>3. ItemsOk(file, file[n].depth, s) BY <1>1 DEF FileOk, PageOk
<1>4. \A i \in DOMAIN s : ItemOk(file, file[n].depth, s[i]) BY <1>3 DEF ItemsOk
<1>5. \A i \in DOMAIN s : s[i].page \in Children(file, n) BY DEF Children
<1>6. \A i \in DOMAIN s :
        /\ s[i].key \in Int /\ s[i].key \in KeysUnder(file, s[i].page)
        /\ \A k \in KeysUnder(file, s[i].page) : k \in Int /\ k <= s[i].key
  BY <1>4, ItemKeys
<1>7. \A c \in Children(file, n) : IsNode(file, c) /\ file[c].depth = file[n].depth - 1 /\ c \in DOMAIN file
  BY <1>1, ChildFacts
<1>8. \A i \in DOMAIN s :
        /\ IsNode(file, s[i].page) /\ file[s[i].page].depth = file[n].depth - 1
        /\ s[i].page \in Nat /\ KeysUnder(file, s[i].page) \subseteq KeysUnder(file, n)
  BY <1>1, <1>2, <1>5, <1>7 DEF Forest
<1>9. ASSUME NEW k \in KeysUnder(file, n)
      PROVE  \E i \in DOMAIN s : k \in KeysUnder(file, s[i].page)
  BY <1>2 DEF Children
<1>10. ASSUME NEW i \in DOMAIN s, NEW j \in DOMAIN s, i < j, NEW k \in KeysUnder(file, s[i].page),
              NEW m \in KeysUnder(file, s[j].page)
       PROVE  k < m
  <2>1. s[i].key < m BY <1>3, <1>10 DEF ItemsOk, Before
  <2>2. k \in Int /\ k <= s[i].key /\ m \in Int /\ s[i].key \in Int BY <1>6
  <2> QED BY <2>1, <2>2
<1> QED BY <1>6, <1>8, <1>9, <1>10

\* What a cursor that stands on nodes of a tree has at each depth.
LEMMA StandingFacts ==
    ASSUME Opened, NEW c, Standing(c), NEW d \in 0..Height
    PROVE  /\ Height \in Nat /\ d \in Nat /\ c[d].page \in Nat /\ c[d].cur \in Nat
           /\ IsNode(file, c[d].page) /\ file[c[d].page].depth = d /\ Items(c, d) = file[c[d].page].items
           /\ Len(Items(c, d)) \in Nat /\ Len(Items(c, d)) >= 1 /\ DOMAIN Items(c, d) = 1..Len(Items(c, d))
           /\ d = 0 <=> IsLeaf(file, c[d].page)
           /\ d > 0 <=> IsInner(file, c[d].page)
           /\ DOMAIN c = 0..Height
<1>1. FileOk(file) /\ IsNode(file, lower) BY DEF Opened
<1>2. Height \in Nat BY <1>1, NodeKeys DEF Height
<1>3. c[d] \in [page : Nat, cur : Nat] /\ DOMAIN c = 0..Height BY DEF Standing, Places
<1>4. IsNode(file, c[d].page) /\ file[c[d].page].depth = d BY DEF Standing
<1>5. Items(c, d) = file[c[d].page].items BY DEF Items
<1> DEFINE n == c[d].page
           s == Items(c, d)
<1>6. FileOk(file) /\ IsNode(file, n) /\ s = file[n].items BY <1>1, <1>4, <1>5
<1> HIDE DEF n, s
<1>7. /\ file[n].depth \in Nat
      /\ Len(s) \in Nat /\ Len(s) >= 1 /\ DOMAIN s = 1..Len(s)
      /\ file[n].depth = 0 <=> IsLeaf(file, n)
      /\ file[n].depth > 0 <=> IsInner(file, n)
  BY <1>6, NodeKeys
<1> QED BY <1>2, <1>3, <1>4, <1>5, <1>7 DEF n, s

\* Induction up to a number, and down from one.
LEMMA CountUp ==
    ASSUME NEW N \in Nat, NEW P, 0 \in P, \A e \in 1..N : e - 1 \in P => e \in P
    PROVE  \A e \in 0..N : e \in P
<1> DEFINE Bad == {e \in 0..N : e \notin P}
<1>1. ASSUME Bad # {}
      PROVE  FALSE
  <2>1. PICK e \in Bad : \A k \in 0..e - 1 : k \notin Bad
    <3>1. Bad \subseteq 0..N /\ 0 \in Int /\ N \in Int OBVIOUS
    <3> HIDE DEF Bad
    <3> QED BY <1>1, <3>1, LeastNumber
  <2>2. e \in 0..N /\ e \notin P /\ e # 0 OBVIOUS
  <2>3. e \in 1..N /\ e - 1 \in 0..N /\ e - 1 \in 0..e - 1 BY <2>2
  <2>4. e - 1 \in P BY <2>1, <2>3
  <2> QED BY <2>2, <2>3, <2>4
<1> QED BY <1>1

LEMMA CountDown ==
    ASSUME NEW N \in Nat, NEW P, N \in P, \A e \in 0..N - 1 : e + 1 \in P => e \in P
    PROVE  \A e \in 0..N : e \in P
<1> DEFINE Q == {e \in 0..N : N - e \in P}
<1>1. 0 \in Q OBVIOUS
<1>2. ASSUME NEW e \in 1..N, e - 1 \in Q
      PROVE  e \in Q
  <2>1. N - e \in 0..N - 1 /\ N - (e - 1) = N - e + 1 /\ e \in 0..N OBVIOUS
  <2>2. N - e + 1 \in P BY <1>2, <2>1
  <2> QED BY <2>1, <2>2
<1>3. \A e \in 0..N : e \in Q
  <2> HIDE DEF Q
  <2> QED BY <1>1, <1>2, CountUp
<1>4. ASSUME NEW e \in 0..N
      PROVE  e \in P
  <2>1. N - e \in 0..N /\ N - (N - e) = e OBVIOUS
  <2>2. N - e \in Q BY <1>3, <2>1
  <2> QED BY <2>1, <2>2
<1> QED BY <1>4

\* A loop that goes up from 0, or down to it, whose step e leads to S[e], exists.
LEMMA LoopUp ==
    ASSUME NEW N \in Nat, NEW a, NEW S, NEW g, a \in S[0],
           \A e \in 1..N : \A x \in S[e - 1] : g[<<e, x>>] \in S[e]
    PROVE  \E f : /\ LoopsUp(f, a, N, g)
                  /\ \A e \in 0..N : f[e] \in S[e]
<1> DEFINE X == UNION {S[e] : e \in 0..N}
           h == [p \in Int \X X |-> IF g[p] \in X THEN g[p] ELSE a]
<1>1. a \in X /\ \A e \in 0..N : \A x \in S[e] : x \in X OBVIOUS
<1> HIDE DEF X
<1>2. AreSteps(h, X) BY <1>1 DEF AreSteps
<1>3. \A e \in 1..N : \A x \in S[e - 1] : h[<<e, x>>] = g[<<e, x>>]
  <2> TAKE e \in 1..N
  <2> TAKE x \in S[e - 1]
  <2>1. e - 1 \in 0..N /\ e \in 0..N /\ e \in Int OBVIOUS
  <2>2. x \in X /\ g[<<e, x>>] \in X BY <1>1, <2>1
  <2>3. <<e, x>> \in Int \X X BY <2>1, <2>2
  <2> QED BY <2>2, <2>3
<1> HIDE DEF h
<1>4. PICK f : IsLoopOf(f, X, a, 0, N, h)
  <2>1. 0 \in Int /\ N \in Int /\ 0 <= N OBVIOUS
  <2> QED BY <1>1, <1>2, <2>1, LoopExists
<1>5. f \in [0..N -> X] /\ f[0] = a /\ \A e \in 1..N : f[e] = h[<<e, f[e - 1]>>] BY <1>4 DEF IsLoopOf
<1>6. \A e \in 0..N : f[e] \in S[e]
  <2> DEFINE P == {e \in 0..N : f[e] \in S[e]}
  <2>1. 0 \in P BY <1>5
  <2>2. \A e \in 1..N : e - 1 \in P => e \in P
    <3> SUFFICES ASSUME NEW e \in 1..N, e - 1 \in P
                 PROVE  e \in P
      OBVIOUS
    <3>1. f[e - 1] \in S[e - 1] /\ e \in 0..N OBVIOUS
    <3>2. f[e] = g[<<e, f[e - 1]>>] BY <1>3, <1>5, <3>1
    <3> QED BY <3>1, <3>2
  <2>3. \A e \in 0..N : e \in P
    <3> HIDE DEF P
    <3> QED BY <2>1, <2>2, CountUp
  <2> QED BY <2>3
<1>7. \A e \in 1..N : f[e] = g[<<e, f[e - 1]>>]
  <2> TAKE e \in 1..N
  <2>1. e - 1 \in 0..N OBVIOUS
  <2> QED BY <1>3, <1>5, <1>6, <2>1
<1>8. f = [e \in 0..N |-> IF e = 0 THEN a ELSE g[<<e, f[e - 1]>>]]
  <2>1. \A e \in 0..N : f[e] = IF e = 0 THEN a ELSE g[<<e, f[e - 1]>>]
    <3> TAKE e \in 0..N
    <3>1. e # 0 => e \in 1..N OBVIOUS
    <3> QED BY <1>5, <1>7, <3>1
  <2> QED BY <1>5, <2>1
<1> QED BY <1>6, <1>8 DEF LoopsUp

LEMMA LoopDown ==
    ASSUME NEW N \in Nat, NEW a, NEW S, NEW g, a \in S[N],
           \A e \in 0..N - 1 : \A x \in S[e + 1] : g[<<e, x>>] \in S[e]
    PROVE  \E f : /\ LoopsDown(f, a, N, g)
                  /\ \A e \in 0..N : f[e] \in S[e]
<1> DEFINE X == UNION {S[e] : e \in 0..N}
           T == [n \in 0..N |-> S[N - n]]
           h == [p \in (0..N) \X X |-> g[<<N - p[1], p[2]>>]]
<1>1. a \in T[0] /\ \A n \in 0..N : T[n] = S[N - n] OBVIOUS
<1>2. \A n \in 0..N : \A x \in T[n] : x \in X
  <2> TAKE n \in 0..N
  <2>1. N - n \in 0..N OBVIOUS
  <2> QED BY <2>1
<1> HIDE DEF X
<1>3. \A n \in 0..N, x \in X : h[<<n, x>>] = g[<<N - n, x>>] OBVIOUS
<1> HIDE DEF h, T
<1>4. \A n \in 1..N : \A x \in T[n - 1] : h[<<n, x>>] \in T[n]
  <2> SUFFICES ASSUME NEW n \in 1..N, NEW x \in T[n - 1]
               PROVE  h[<<n, x>>] \in T[n]
    OBVIOUS
  <2>1. n - 1 \in 0..N /\ n \in 0..N /\ N - (n - 1) = N - n + 1 /\ N - n \in 0..N - 1 OBVIOUS
  <2>2. x \in X /\ x \in S[N - n + 1] BY <1>1, <1>2, <2>1
  <2>3. g[<<N - n, x>>] \in S[N - n] BY <2>1, <2>2
  <2> QED BY <1>1, <1>3, <2>1, <2>2, <2>3
<1>5. PICK f : LoopsUp(f, a, N, h) /\ \A n \in 0..N : f[n] \in T[n] BY <1>1, <1>4, LoopUp
<1>10. \A n \in 0..N : f[n] = IF n = 0 THEN a ELSE h[<<n, f[n - 1]>>] BY <1>5 DEF LoopsUp
<1> DEFINE r == [e \in 0..N |-> f[N - e]]
<1>6. \A e \in 0..N : r[e] = IF e = N THEN a ELSE g[<<e, r[e + 1]>>]
  <2> TAKE e \in 0..N
  <2>1. N - e \in 0..N /\ (e # N => N - e # 0 /\ e + 1 \in 0..N /\ N - (e + 1) = N - e - 1) /\ N - (N - e) = e OBVIOUS
  <2>2. CASE e = N
    <3>1. N - e = 0 /\ 0 \in 0..N BY <2>2
    <3>2. f[0] = a BY <1>10, <3>1
    <3>3. r[e] = f[N - e] OBVIOUS
    <3>4. r[e] = a BY <3>1, <3>2, <3>3
    <3> QED BY <2>2, <3>4
  <2>3. CASE e # N
    <3>1. f[N - e] = h[<<N - e, f[N - e - 1]>>] BY <1>10, <2>1, <2>3
    <3>2. f[N - e - 1] \in X /\ r[e + 1] = f[N - e - 1]
      <4>1. N - e - 1 \in 0..N BY <2>1, <2>3
      <4> QED BY <1>2, <1>5, <2>1, <2>3, <4>1
    <3>3. h[<<N - e, f[N - e - 1]>>] = g[<<N - (N - e), f[N - e - 1]>>] BY <1>3, <2>1, <3>2
    <3> QED BY <2>1, <2>3, <3>1, <3>2, <3>3
  <2> QED BY <2>2, <2>3
<1>7. \A e \in 0..N : r[e] \in S[e]
  <2> TAKE e \in 0..N
  <2>1. N - e \in 0..N /\ N - (N - e) = e OBVIOUS
  <2> QED BY <1>1, <1>5, <2>1
<1>8. DOMAIN r = 0..N /\ r = [e \in 0..N |-> r[e]] OBVIOUS
<1> HIDE DEF r
<1>9. r = [e \in 0..N |-> IF e = N THEN a ELSE g[<<e, r[e + 1]>>]] BY <1>6, <1>8
<1> QED BY <1>7, <1>9 DEF LoopsDown

-----------------------------------------------------------------------------
(* Moving a cursor to a page.                                              *)

\* The children of a node that is not a leaf are one level below it.
LEMMA ChildAt ==
    ASSUME FileOk(file), NEW n, IsNode(file, n), NEW d \in Nat, d > 0, file[n].depth = d,
           NEW i \in 1..Len(file[n].items)
    PROVE  /\ IsNode(file, file[n].items[i].page) /\ file[file[n].items[i].page].depth = d - 1
           /\ file[n].items[i].page \in Nat
<1> DEFINE s == file[n].items
<1>1. IsInner(file, n) /\ i \in DOMAIN s BY NodeKeys
<1>2. \A j \in DOMAIN s : /\ IsNode(file, s[j].page) /\ file[s[j].page].depth = file[n].depth - 1
                          /\ s[j].page \in Nat
  BY <1>1, ParentKeys
<1> QED BY <1>1, <1>2

\* The first children, down from a node.
LEMMA PagesFacts ==
    ASSUME Opened, NEW d \in 0..Height, NEW pg, IsNode(file, pg), file[pg].depth = d,
           NEW page, PagesDown(d, pg, page)
    PROVE  /\ page[d] = pg
           /\ \A e \in 0..d : IsNode(file, page[e]) /\ file[page[e]].depth = e /\ page[e] \in Nat
           /\ \A e \in 1..d : page[e - 1] = file[page[e]].items[1].page
<1>1. FileOk(file) /\ Height \in Nat BY NodeKeys DEF Opened, Height
<1>2. d \in Nat /\ d \in 0..d BY <1>1
<1>3. \A e \in 0..d : page[e] = IF e = d THEN pg ELSE file[page[e + 1]].items[1].page BY DEF PagesDown
<1>4. page[d] = pg BY <1>2, <1>3
<1>5. \A e \in 1..d : page[e - 1] = file[page[e]].items[1].page
  <2> TAKE e \in 1..d
  <2>1. e - 1 \in 0..d /\ e - 1 # d /\ e - 1 + 1 = e BY <1>2
  <2> QED BY <1>3, <2>1
<1> DEFINE P == {e \in 0..d : IsNode(file, page[e]) /\ file[page[e]].depth = e /\ page[e] \in Nat}
<1>6. d \in P BY <1>1, <1>2, <1>4, NodeKeys
<1>7. ASSUME NEW e \in 0..d - 1, e + 1 \in P
      PROVE  e \in P
  <2>1. e \in 0..d /\ e + 1 \in 1..d /\ e + 1 \in Nat /\ e + 1 > 0 /\ (e + 1) - 1 = e BY <1>2
  <2>2. IsNode(file, page[e + 1]) /\ file[page[e + 1]].depth = e + 1 BY <1>7
  <2>3. page[e] = file[page[e + 1]].items[1].page BY <1>5, <2>1
  <2> DEFINE n == page[e + 1]
             D == e + 1
  <2>4. 1 \in 1..Len(file[n].items) BY <1>1, <2>2, NodeKeys
  <2>5. IsNode(file, n) /\ D \in Nat /\ D > 0 /\ file[n].depth = D BY <2>1, <2>2
  <2> HIDE DEF n, D, P
  <2>6. /\ IsNode(file, file[n].items[1].page) /\ file[file[n].items[1].page].depth = D - 1
        /\ file[n].items[1].page \in Nat
    BY <1>1, <2>4, <2>5, ChildAt
  <2> QED BY <2>1, <2>3, <2>6 DEF n, D, P
<1>8. \A e \in 0..d : e \in P
  <2> HIDE DEF P
  <2> QED BY <1>2, <1>6, <1>7, CountDown
<1> QED BY <1>4, <1>5, <1>8

LEMMA PagesExist ==
    ASSUME Opened, NEW d \in 0..Height, NEW pg, IsNode(file, pg), file[pg].depth = d
    PROVE  \E page : PagesDown(d, pg, page)
<1>1. FileOk(file) /\ Height \in Nat BY NodeKeys DEF Opened, Height
<1>2. d \in Nat /\ d \in 0..d BY <1>1
<1> DEFINE S == [e \in 0..d |-> {n \in Nat : IsNode(file, n) /\ file[n].depth = e}]
           g == [p \in (0..d) \X Nat |-> file[p[2]].items[1].page]
<1>3. pg \in S[d] BY <1>1, <1>2, NodeKeys
<1>4. \A e \in 0..d, x \in Nat : g[<<e, x>>] = file[x].items[1].page OBVIOUS
<1>5. \A e \in 0..d : \A x : x \in S[e] <=> x \in Nat /\ IsNode(file, x) /\ file[x].depth = e OBVIOUS
<1> HIDE DEF S, g
<1>6. ASSUME NEW e \in 0..d - 1, NEW x \in S[e + 1]
      PROVE  g[<<e, x>>] \in S[e]
  <2>1. e \in 0..d /\ e + 1 \in 0..d /\ e + 1 \in Nat /\ e + 1 > 0 /\ (e + 1) - 1 = e BY <1>2
  <2>2. x \in Nat /\ IsNode(file, x) /\ file[x].depth = e + 1 BY <1>5, <1>6, <2>1
  <2>3. 1 \in 1..Len(file[x].items) BY <1>1, <2>2, NodeKeys
  <2>4. /\ IsNode(file, file[x].items[1].page) /\ file[file[x].items[1].page].depth = (e + 1) - 1
        /\ file[x].items[1].page \in Nat
    BY <1>1, <2>1, <2>2, <2>3, ChildAt
  <2> QED BY <1>4, <1>5, <2>1, <2>2, <2>4
<1>7. PICK f : LoopsDown(f, pg, d, g) /\ \A e \in 0..d : f[e] \in S[e] BY <1>2, <1>3, <1>6, LoopDown
<1>8. f = [e \in 0..d |-> IF e = d THEN pg ELSE g[<<e, f[e + 1]>>]] BY <1>7 DEF LoopsDown
<1>9. \A e \in 0..d : e # d => g[<<e, f[e + 1]>>] = file[f[e + 1]].items[1].page
  <2> TAKE e \in 0..d
  <2> HAVE e # d
  <2>1. e + 1 \in 0..d BY <1>2
  <2>2. f[e + 1] \in Nat BY <1>5, <1>7, <2>1
  <2> QED BY <1>4, <2>2
<1>10. PagesDown(d, pg, f) BY <1>8, <1>9 DEF PagesDown
<1> QED BY <1>10

\* The index of a cursor at one depth.
LEMMA SetCur ==
    ASSUME NEW c \in Places, NEW d \in 0..Height, NEW i \in Nat
    PROVE  CurIs(c, WithCur(c, d, i), d, i)
<1> DEFINE v == WithCur(c, d, i)
<1>1. DOMAIN c = 0..Height /\ \A e \in 0..Height : c[e] \in [page : Nat, cur : Nat] BY DEF Places
<1>2. v[d] = [c[d] EXCEPT !.cur = i] /\ \A e \in 0..Height : e # d => v[e] = c[e] BY <1>1 DEF WithCur
<1>3. v[d].page = c[d].page /\ v[d].cur = i /\ v[d] \in [page : Nat, cur : Nat] BY <1>1, <1>2
<1>4. v \in Places
  <2>1. v = [e \in 0..Height |-> v[e]] BY <1>1 DEF WithCur
  <2>2. \A e \in 0..Height : v[e] \in [page : Nat, cur : Nat] BY <1>1, <1>2, <1>3
  <2> QED BY <2>1, <2>2 DEF Places
<1> QED BY <1>2, <1>3, <1>4 DEF CurIs

\* It is in the first child, and so on down, and has the index in the leaf that it had.
LEMMA MoveGoes ==
    ASSUME Opened, NEW c \in Places, NEW d \in 0..Height, NEW pg, IsNode(file, pg), file[pg].depth = d,
           NEW v, v = MoveToPage(c, d, pg)
    PROVE  /\ v \in Places /\ v[d].page = pg
           /\ \A e \in 0..Height : e > d => v[e] = c[e]
           /\ \A e \in 0..d : IsNode(file, v[e].page) /\ file[v[e].page].depth = e
           /\ \A e \in 1..d : v[e].cur = 1 /\ v[e - 1].page = Child(v, e)
           /\ v[0].cur = c[0].cur
<1> DEFINE r == CHOOSE x : PagesDown(d, pg, x)
<1>1. v = [e \in DOMAIN c |->
              IF e > d THEN c[e] ELSE [page |-> r[e], cur |-> IF e = 0 THEN c[e].cur ELSE 1]]
  BY DEF MoveToPage, PagesDown
<1>2. PagesDown(d, pg, r) BY PagesExist
<1> HIDE DEF r
<1>3. /\ r[d] = pg
      /\ \A e \in 0..d : IsNode(file, r[e]) /\ file[r[e]].depth = e /\ r[e] \in Nat
      /\ \A e \in 1..d : r[e - 1] = file[r[e]].items[1].page
  BY <1>2, PagesFacts
<1>4. Height \in Nat /\ d \in Nat BY NodeKeys DEF Opened, Height
<1>5. DOMAIN c = 0..Height /\ \A e \in 0..Height : c[e] \in [page : Nat, cur : Nat] BY DEF Places
<1>6. \A e \in 0..Height : e > d => v[e] = c[e] BY <1>1, <1>5
<1>7. \A e \in 0..d : v[e] = [page |-> r[e], cur |-> IF e = 0 THEN c[e].cur ELSE 1]
  <2> TAKE e \in 0..d
  <2>1. e \in 0..Height /\ ~(e > d) BY <1>4
  <2> QED BY <1>1, <1>5, <2>1
<1>8. \A e \in 0..d : /\ v[e].page = r[e] /\ (e # 0 => v[e].cur = 1) /\ (e = 0 => v[e].cur = c[0].cur)
                      /\ v[e] \in [page : Nat, cur : Nat]
  <2> TAKE e \in 0..d
  <2>1. e \in 0..Height BY <1>4
  <2>2. c[e].cur \in Nat /\ r[e] \in Nat BY <1>3, <1>5, <2>1
  <2>3. v[e] = [page |-> r[e], cur |-> IF e = 0 THEN c[e].cur ELSE 1] BY <1>7
  <2>4. CASE e = 0 BY <2>2, <2>3, <2>4
  <2>5. CASE e # 0 BY <2>2, <2>3, <2>5
  <2> QED BY <2>4, <2>5
<1>9. v \in Places
  <2>1. v = [e \in 0..Height |-> v[e]] BY <1>1, <1>5
  <2>2. ASSUME NEW e \in 0..Height
        PROVE  v[e] \in [page : Nat, cur : Nat]
    <3>1. e > d \/ e \in 0..d BY <1>4
    <3> QED BY <1>5, <1>6, <1>8, <3>1
  <2> QED BY <2>1, <2>2 DEF Places
<1>10. \A e \in 1..d : v[e].cur = 1 /\ v[e - 1].page = Child(v, e)
  <2> TAKE e \in 1..d
  <2>1. e \in 0..d /\ e - 1 \in 0..d /\ e # 0 BY <1>4
  <2>2. v[e].cur = 1 /\ v[e].page = r[e] /\ v[e - 1].page = r[e - 1] BY <1>8, <2>1
  <2>3. r[e - 1] = file[r[e]].items[1].page BY <1>3
  <2> QED BY <2>2, <2>3 DEF Child, Items
<1>11. 0 \in 0..d /\ d \in 0..d BY <1>4
<1> QED BY <1>3, <1>6, <1>8, <1>9, <1>10, <1>11

\* To its i'th child.
LEMMA SetChildGoes ==
    ASSUME Opened, NEW c, Standing(c), NEW d \in 1..Height, NEW i \in 1..Len(Items(c, d)),
           NEW v, v = SetChild(c, d, i)
    PROVE  /\ Standing(v) /\ SameAbove(c, v, d) /\ v[d].cur = i /\ v[0].cur = c[0].cur
           /\ v[d - 1].page = Items(c, d)[i].page
           /\ Items(v, d) = Items(c, d)
<1>1. Height \in Nat /\ d \in 0..Height /\ d - 1 \in 0..Height /\ d \in Nat /\ d > 0 /\ i \in Nat /\ i # None
  BY NodeKeys DEF Opened, Height, None
<1>2. /\ IsNode(file, c[d].page) /\ file[c[d].page].depth = d /\ Items(c, d) = file[c[d].page].items
      /\ DOMAIN Items(c, d) = 1..Len(Items(c, d))
  BY <1>1, StandingFacts
<1>3. c \in Places BY DEF Standing
<1>4. CASE c[d].cur = i
  <2>1. v = c BY <1>4 DEF SetChild
  <2>2. c[d - 1].page = Child(c, d) BY <1>1, <1>4 DEF Standing
  <2> QED BY <1>4, <2>1, <2>2 DEF SameAbove, Child
<1>5. CASE c[d].cur # i
  <2> DEFINE moved == WithCur(c, d, i)
  <2>1. /\ moved \in Places /\ moved[d].page = c[d].page /\ moved[d].cur = i
        /\ \A e \in 0..Height : e # d => moved[e] = c[e]
    <3>1. CurIs(c, moved, d, i) BY <1>1, <1>3, SetCur
    <3> HIDE DEF moved
    <3> QED BY <3>1 DEF CurIs
  <2>2. v = MoveToPage(moved, d - 1, Child(moved, d)) BY <1>5 DEF SetChild, WithCur
  <2> HIDE DEF moved
  <2>3. Items(moved, d) = Items(c, d) /\ Child(moved, d) = Items(c, d)[i].page BY <2>1 DEF Items, Child
  <2> DEFINE pg == Child(moved, d)
             D == d - 1
  <2>4. IsNode(file, pg) /\ file[pg].depth = D /\ D \in 0..Height
    BY <1>1, <1>2, <2>3, ChildAt DEF Opened
  <2>5. v = MoveToPage(moved, D, pg) BY <2>2
  <2> HIDE DEF pg, D
  <2>6. /\ v \in Places /\ v[D].page = pg
        /\ \A e \in 0..Height : e > D => v[e] = moved[e]
        /\ \A e \in 0..D : IsNode(file, v[e].page) /\ file[v[e].page].depth = e
        /\ \A e \in 1..D : v[e].cur = 1 /\ v[e - 1].page = Child(v, e)
        /\ v[0].cur = moved[0].cur
    BY <2>1, <2>4, <2>5, MoveGoes
  <2>7. /\ v[d] = moved[d] /\ \A e \in 0..Height : e > d => v[e] = c[e]
        /\ v[0].cur = c[0].cur
    <3>1. d > D /\ \A e \in 0..Height : e > d => e > D /\ e # d BY <1>1 DEF D
    <3>2. 0 \in 0..Height /\ 0 # d BY <1>1
    <3> QED BY <1>1, <2>1, <2>6, <3>1, <3>2
  <2>8. v[Height].page = lower
    <3>1. c[Height].page = lower BY DEF Standing
    <3>2. Height = d \/ Height > d BY <1>1
    <3>3. v[d].page = c[d].page BY <2>1, <2>7
    <3>4. Height \in 0..Height BY <1>1
    <3> QED BY <2>7, <3>1, <3>2, <3>3, <3>4
  <2>9. ASSUME NEW e \in 0..Height
        PROVE  IsNode(file, v[e].page) /\ file[v[e].page].depth = e
    <3>1. e \in 0..D \/ e = d \/ e > d BY <1>1 DEF D
    <3>2. CASE e \in 0..D BY <2>6, <3>2
    <3>3. CASE e = d BY <1>2, <2>1, <2>7, <3>3
    <3>4. CASE e > d
      <4>1. v[e] = c[e] BY <2>7, <3>4
      <4> QED BY <4>1 DEF Standing
    <3> QED BY <3>1, <3>2, <3>3, <3>4
  <2>10. ASSUME NEW e \in 1..Height, v[e].cur # None
         PROVE  v[e].cur \in DOMAIN Items(v, e) /\ v[e - 1].page = Child(v, e)
    <3>1. e \in 1..D \/ e = d \/ e > d BY <1>1 DEF D
    <3>2. CASE e \in 1..D
      <4>1. e \in 0..Height /\ e \in Nat BY <1>1
      <4>2. IsNode(file, v[e].page) BY <2>9, <4>1
      <4>3. 1 \in DOMAIN file[v[e].page].items BY <4>2, NodeKeys DEF Opened
      <4> QED BY <2>6, <3>2, <4>3 DEF Items
    <3>3. CASE e = d
      <4>1. v[e].cur = i /\ Items(v, e) = Items(c, d) BY <2>1, <2>3, <2>7, <3>3 DEF Items
      <4>2. v[e - 1].page = pg BY <2>6, <3>3 DEF D
      <4> QED BY <1>2, <2>3, <4>1, <4>2 DEF Child, pg
    <3>4. CASE e > d
      <4>1. e \in 0..Height /\ v[e] = c[e] BY <1>1, <2>7, <3>4
      <4>2. e - 1 = d \/ e - 1 > d BY <1>1, <3>4
      <4>3. e - 1 \in 0..Height BY <1>1
      <4>4. v[e - 1].page = c[e - 1].page BY <2>1, <2>7, <4>2, <4>3
      <4>5. c[e].cur \in DOMAIN Items(c, e) /\ c[e - 1].page = Child(c, e) BY <2>10, <4>1 DEF Standing
      <4> QED BY <4>1, <4>4, <4>5 DEF Child, Items
    <3> QED BY <3>1, <3>2, <3>3, <3>4
  <2>11. Standing(v) BY <2>6, <2>8, <2>9, <2>10 DEF Standing
  <2>12. v[d].page = c[d].page /\ v[d].cur = i BY <2>1, <2>7
  <2>13. SameAbove(c, v, d) BY <2>7, <2>12 DEF SameAbove
  <2>14. Items(v, d) = Items(c, d) BY <2>12 DEF Items
  <2>15. v[d - 1].page = Items(c, d)[i].page BY <2>3, <2>6 DEF D, pg
  <2> QED BY <2>7, <2>11, <2>12, <2>13, <2>14, <2>15
<1> QED BY <1>4, <1>5

-----------------------------------------------------------------------------
(* first and last.                                                         *)

\* The index in the leaf may be any.
LEMMA LeafCur ==
    ASSUME Opened, NEW c, Standing(c), NEW i \in Nat, NEW v, v = WithCur(c, 0, i)
    PROVE  LeafMoved(c, v, i)
<1>1. Height \in Nat /\ 0 \in 0..Height BY NodeKeys DEF Opened, Height
<1> DEFINE z == 0
<1>2. c \in Places /\ z \in 0..Height /\ v = WithCur(c, z, i) BY <1>1 DEF Standing
<1> HIDE DEF z
<1>10. CurIs(c, v, z, i) BY <1>2, SetCur
<1>9. /\ v \in Places /\ v[z].page = c[z].page /\ v[z].cur = i
      /\ \A e \in 0..Height : e # z => v[e] = c[e]
      /\ \A e \in 0..Height : v[e].page = c[e].page
  BY <1>10 DEF CurIs
<1>3. /\ v \in Places /\ v[0].page = c[0].page /\ v[0].cur = i
      /\ \A e \in 0..Height : e # 0 => v[e] = c[e]
      /\ \A e \in 0..Height : v[e].page = c[e].page
  BY <1>9 DEF z
<1>4. Height \in 0..Height /\ \A d \in 1..Height : d \in 0..Height /\ d # 0 /\ d - 1 \in 0..Height BY <1>1
<1>5. Standing(v)
  <2>1. v[Height].page = lower BY <1>3, <1>4 DEF Standing
  <2>2. \A d \in 0..Height : IsNode(file, v[d].page) /\ file[v[d].page].depth = d BY <1>3 DEF Standing
  <2>3. ASSUME NEW d \in 1..Height, v[d].cur # None
        PROVE  v[d].cur \in DOMAIN Items(v, d) /\ v[d - 1].page = Child(v, d)
    <3>1. v[d] = c[d] /\ v[d - 1].page = c[d - 1].page BY <1>3, <1>4
    <3>2. c[d].cur \in DOMAIN Items(c, d) /\ c[d - 1].page = Child(c, d) BY <2>3, <3>1 DEF Standing
    <3> QED BY <3>1, <3>2 DEF Items, Child
  <2> QED BY <1>3, <2>1, <2>2, <2>3 DEF Standing
<1>6. \A d \in 0..Height : SameAbove(c, v, d)
  <2>1. \A d \in 0..Height : \A e \in 0..Height : e > d => e # 0 BY <1>1
  <2> QED BY <1>3, <2>1 DEF SameAbove
<1>7. \A d \in 0..Height : Items(v, d) = Items(c, d) BY <1>3 DEF Items
<1>8. \A d \in 0..Height : d > 0 => v[d] = c[d] BY <1>3
<1> QED BY <1>3, <1>5, <1>6, <1>7, <1>8 DEF LeafMoved

\* The keys under the first child are the first under a node, those under the last the last.
LEMMA FirstChild ==
    ASSUME FileOk(file), NEW n, IsInner(file, n)
    PROVE  FirstUnder(n, file[n].items[1].page)
<1> DEFINE s == file[n].items
<1>1. IsNode(file, n) BY DEF IsNode
<1>2. Len(s) \in Nat /\ Len(s) >= 1 /\ DOMAIN s = 1..Len(s) BY <1>1, NodeKeys
<1>3. /\ \A i \in DOMAIN s : KeysUnder(file, s[i].page) \subseteq KeysUnder(file, n)
      /\ \A k \in KeysUnder(file, n) : \E i \in DOMAIN s : k \in KeysUnder(file, s[i].page)
      /\ \A i, j \in DOMAIN s : i < j =>
           \A k \in KeysUnder(file, s[i].page), m \in KeysUnder(file, s[j].page) : k < m
  BY ParentKeys
<1>4. 1 \in DOMAIN s /\ \A i \in DOMAIN s : i # 1 => 1 < i BY <1>2
<1> HIDE DEF s
<1>5. ASSUME NEW k \in KeysUnder(file, n) \ KeysUnder(file, s[1].page), NEW l \in KeysUnder(file, s[1].page)
      PROVE  l < k
  <2>1. PICK i \in DOMAIN s : k \in KeysUnder(file, s[i].page) BY <1>3
  <2>2. i # 1 BY <2>1
  <2> QED BY <1>3, <1>4, <2>1, <2>2
<1>6. FirstUnder(n, s[1].page) BY <1>3, <1>4, <1>5 DEF FirstUnder
<1> QED BY <1>6 DEF s

LEMMA LastChild ==
    ASSUME FileOk(file), NEW n, IsInner(file, n)
    PROVE  LastUnder(n, file[n].items[Len(file[n].items)].page)
<1> DEFINE s == file[n].items
           N == Len(s)
<1>1. IsNode(file, n) BY DEF IsNode
<1>2. N \in Nat /\ N >= 1 /\ DOMAIN s = 1..N BY <1>1, NodeKeys
<1>3. /\ \A i \in DOMAIN s : KeysUnder(file, s[i].page) \subseteq KeysUnder(file, n)
      /\ \A k \in KeysUnder(file, n) : \E i \in DOMAIN s : k \in KeysUnder(file, s[i].page)
      /\ \A i, j \in DOMAIN s : i < j =>
           \A k \in KeysUnder(file, s[i].page), m \in KeysUnder(file, s[j].page) : k < m
  BY ParentKeys
<1> HIDE DEF N
<1>4. N \in DOMAIN s /\ \A i \in DOMAIN s : i # N => i < N BY <1>2
<1> HIDE DEF s
<1>5. ASSUME NEW k \in KeysUnder(file, n) \ KeysUnder(file, s[N].page), NEW l \in KeysUnder(file, s[N].page)
      PROVE  k < l
  <2>1. PICK i \in DOMAIN s : k \in KeysUnder(file, s[i].page) BY <1>3
  <2>2. i # N BY <2>1
  <2> QED BY <1>3, <1>4, <2>1, <2>2
<1>6. LastUnder(n, s[N].page) BY <1>3, <1>4, <1>5 DEF LastUnder
<1> QED BY <1>6 DEF s, N

LEMMA FirstOfFirst ==
    ASSUME NEW n, NEW m, NEW l, FirstUnder(n, m), FirstUnder(m, l)
    PROVE  FirstUnder(n, l)
<1>1. KeysUnder(file, l) \subseteq KeysUnder(file, n) BY DEF FirstUnder
<1>2. ASSUME NEW k \in KeysUnder(file, n) \ KeysUnder(file, l), NEW j \in KeysUnder(file, l)
      PROVE  j < k
  <2>1. j \in KeysUnder(file, m) BY DEF FirstUnder
  <2>2. CASE k \in KeysUnder(file, m) BY <2>2 DEF FirstUnder
  <2>3. CASE k \notin KeysUnder(file, m) BY <2>1, <2>3 DEF FirstUnder
  <2> QED BY <2>2, <2>3
<1> QED BY <1>1, <1>2 DEF FirstUnder

LEMMA LastOfLast ==
    ASSUME NEW n, NEW m, NEW l, LastUnder(n, m), LastUnder(m, l)
    PROVE  LastUnder(n, l)
<1>1. KeysUnder(file, l) \subseteq KeysUnder(file, n) BY DEF LastUnder
<1>2. ASSUME NEW k \in KeysUnder(file, n) \ KeysUnder(file, l), NEW j \in KeysUnder(file, l)
      PROVE  k < j
  <2>1. j \in KeysUnder(file, m) BY DEF LastUnder
  <2>2. CASE k \in KeysUnder(file, m) BY <2>2 DEF LastUnder
  <2>3. CASE k \notin KeysUnder(file, m) BY <2>1, <2>3 DEF LastUnder
  <2> QED BY <2>2, <2>3
<1> QED BY <1>1, <1>2 DEF LastUnder

\* SameAbove composes.
LEMMA SameTwice ==
    ASSUME NEW c, NEW v, NEW w, NEW d \in 0..Height, NEW e \in 0..Height, e < d, Height \in Nat,
           SameAbove(c, v, d), SameAbove(v, w, e)
    PROVE  SameAbove(c, w, d)
<1>1. \A x \in 0..Height : x > d => x > e OBVIOUS
<1> QED BY <1>1 DEF SameAbove

\* Down the first children.
LEMMA FirstsGo ==
    ASSUME Opened, NEW c, Standing(c), NEW d \in 0..Height, NEW down, FirstsDown(c, d, down)
    PROVE  \A e \in 0..d : /\ Standing(down[e]) /\ SameAbove(c, down[e], d)
                           /\ \A x \in e + 1..d : down[e][x].cur # None
                           /\ FirstUnder(c[d].page, down[e][e].page)
<1>1. FileOk(file) /\ Height \in Nat BY NodeKeys DEF Opened, Height
<1>2. d \in Nat /\ d \in 0..d BY <1>1
<1>3. \A e \in 0..d : down[e] = IF e = d THEN c ELSE SetChild(down[e + 1], e + 1, 1) BY DEF FirstsDown
<1> DEFINE P == {e \in 0..d : /\ Standing(down[e]) /\ SameAbove(c, down[e], d)
                              /\ \A x \in e + 1..d : down[e][x].cur # None
                              /\ FirstUnder(c[d].page, down[e][e].page)}
<1>4. d \in P
  <2>1. down[d] = c BY <1>2, <1>3
  <2>2. \A x \in d + 1..d : FALSE BY <1>2
  <2>3. SameAbove(c, c, d) /\ FirstUnder(c[d].page, c[d].page) BY DEF SameAbove, FirstUnder
  <2> QED BY <1>2, <2>1, <2>2, <2>3
<1>5. ASSUME NEW e \in 0..d - 1, e + 1 \in P
      PROVE  e \in P
  <2> DEFINE D == e + 1
             w == down[e + 1]
             v == down[e]
             n == w[D].page
  <2>1. /\ Standing(w) /\ SameAbove(c, w, d) /\ FirstUnder(c[d].page, n)
        /\ \A x \in D + 1..d : w[x].cur # None
    BY <1>5
  <2>2. /\ e \in 0..d /\ e # d /\ D \in 1..Height /\ D \in 0..Height /\ D <= d /\ D - 1 = e /\ D > 0
        /\ d \in 0..Height /\ e \in Nat
    BY <1>1, <1>2
  <2>3. v = SetChild(w, D, 1) BY <1>3, <2>2
  <2> HIDE DEF D, w, v
  <2>4. /\ IsInner(file, n) /\ Items(w, D) = file[n].items /\ Len(Items(w, D)) >= 1
        /\ Len(Items(w, D)) \in Nat
    BY <2>1, <2>2, StandingFacts
  <2>5. 1 \in 1..Len(Items(w, D)) BY <2>4
  <2>6. /\ Standing(v) /\ SameAbove(w, v, D) /\ v[D].cur = 1 /\ v[D - 1].page = Items(w, D)[1].page
    BY <2>1, <2>2, <2>3, <2>5, SetChildGoes
  <2>7. SameAbove(c, v, d)
    <3>1. d = D \/ D < d BY <1>2, <2>2
    <3>2. CASE d = D BY <2>1, <2>6, <3>2 DEF SameAbove
    <3>3. CASE D < d BY <1>1, <2>1, <2>2, <2>6, <3>3, SameTwice
    <3> QED BY <3>1, <3>2, <3>3
  <2>8. ASSUME NEW x \in e + 1..d
        PROVE  v[x].cur # None
    <3>1. x = D \/ (x \in D + 1..d /\ x > D /\ x \in 0..Height) BY <1>1, <1>2, <2>2
    <3>2. CASE x = D BY <2>6, <3>2 DEF None
    <3>3. CASE x \in D + 1..d /\ x > D /\ x \in 0..Height
      <4>1. v[x] = w[x] BY <2>6, <3>3 DEF SameAbove
      <4> QED BY <2>1, <3>3, <4>1
    <3> QED BY <3>1, <3>2, <3>3
  <2>9. FirstUnder(c[d].page, v[e].page)
    <3>1. v[e].page = file[n].items[1].page BY <2>2, <2>4, <2>6
    <3>2. FirstUnder(n, file[n].items[1].page) BY <1>1, <2>4, FirstChild
    <3> QED BY <2>1, <3>1, <3>2, FirstOfFirst
  <2> QED BY <2>2, <2>6, <2>7, <2>8, <2>9 DEF v
<1>6. \A e \in 0..d : e \in P
  <2> HIDE DEF P
  <2> QED BY <1>2, <1>4, <1>5, CountDown
<1> QED BY <1>6

LEMMA FirstsExist ==
    ASSUME Opened, NEW c, Standing(c), NEW d \in 0..Height
    PROVE  \E down : FirstsDown(c, d, down)
<1> DEFINE X == {v \in Places : Standing(v)}
           S == [e \in 0..d |-> X]
           g == [p \in (0..d) \X X |-> SetChild(p[2], p[1] + 1, 1)]
<1>1. Height \in Nat /\ d \in Nat /\ d \in 0..d BY NodeKeys DEF Opened, Height
<1>2. \A v : v \in X <=> Standing(v) BY DEF Standing
<1>3. c \in S[d] /\ \A e \in 0..d : S[e] = X BY <1>1, <1>2
<1> HIDE DEF X
<1>4. \A e \in 0..d, v \in X : g[<<e, v>>] = SetChild(v, e + 1, 1) OBVIOUS
<1> HIDE DEF S, g
<1>5. ASSUME NEW e \in 0..d - 1, NEW v \in S[e + 1]
      PROVE  g[<<e, v>>] \in S[e]
  <2> DEFINE D == e + 1
  <2>1. e \in 0..d /\ D \in 0..d /\ D \in 1..Height /\ D \in 0..Height BY <1>1
  <2>2. v \in X /\ Standing(v) BY <1>2, <1>3, <2>1
  <2> HIDE DEF D
  <2>3. 1 \in 1..Len(Items(v, D)) BY <2>1, <2>2, StandingFacts
  <2>4. Standing(SetChild(v, D, 1)) BY <2>1, <2>2, <2>3, SetChildGoes
  <2> QED BY <1>2, <1>3, <1>4, <2>1, <2>2, <2>4 DEF D
<1>6. PICK f : LoopsDown(f, c, d, g) /\ \A e \in 0..d : f[e] \in S[e] BY <1>1, <1>3, <1>5, LoopDown
<1>7. f = [e \in 0..d |-> IF e = d THEN c ELSE g[<<e, f[e + 1]>>]] BY <1>6 DEF LoopsDown
<1>8. \A e \in 0..d : e # d => g[<<e, f[e + 1]>>] = SetChild(f[e + 1], e + 1, 1)
  <2> TAKE e \in 0..d
  <2> HAVE e # d
  <2>1. e + 1 \in 0..d BY <1>1
  <2>2. f[e + 1] \in X BY <1>3, <1>6, <2>1
  <2> QED BY <1>4, <2>2
<1>9. FirstsDown(c, d, f) BY <1>7, <1>8 DEF FirstsDown
<1> QED BY <1>9

\* first of the cursor at depth d goes to the first key under its node.
LEMMA FirstGoes ==
    ASSUME Opened, NEW c, Standing(c), NEW d \in 0..Height, NEW v, v = FirstOf(c, d)
    PROVE  /\ Standing(v) /\ SameAbove(c, v, d) /\ IsValid(v, d)
           /\ v[0].cur \in 1..Len(Items(v, 0)) /\ KeyAt(v) \in KeysUnder(file, c[d].page)
           /\ \A k \in KeysUnder(file, c[d].page) : KeyAt(v) <= k
<1> DEFINE down == CHOOSE x : FirstsDown(c, d, x)
           w == down[0]
           i == 1
           m == w[0].page
           s == Items(w, 0)
<1>1. FileOk(file) /\ Height \in Nat /\ d \in Nat /\ d \in 0..Height /\ 0 \in 0..d /\ 0 \in 0..Height
  BY NodeKeys DEF Opened, Height
<1>2. v = WithCur(w, 0, i) BY DEF FirstOf, FirstsDown, WithCur
<1>3. FirstsDown(c, d, down) BY FirstsExist
<1> HIDE DEF down
<1>4. /\ Standing(w) /\ SameAbove(c, w, d) /\ FirstUnder(c[d].page, m)
      /\ \A x \in 1..d : w[x].cur # None
  <2>1. \A e \in 0..d : /\ Standing(down[e]) /\ SameAbove(c, down[e], d)
                        /\ \A x \in e + 1..d : down[e][x].cur # None
                        /\ FirstUnder(c[d].page, down[e][e].page)
    BY <1>3, FirstsGo
  <2>2. \A x \in 1..d : x \in 0 + 1..d OBVIOUS
  <2> QED BY <1>1, <2>1, <2>2
<1> HIDE DEF w
<1>5. /\ IsNode(file, m) /\ s = file[m].items /\ DOMAIN s = 1..Len(s) /\ Len(s) \in Nat /\ Len(s) >= 1
      /\ IsLeaf(file, m)
  BY <1>1, <1>4, StandingFacts
<1>6. i \in Nat /\ i # None /\ i \in DOMAIN s BY <1>5 DEF None
<1>7. \A j \in DOMAIN s : j # i => i < j BY <1>5
<1> HIDE DEF i, m, s
<1>8. /\ Standing(v) /\ v[0].cur = i /\ v[0].page = w[0].page /\ \A e \in 0..Height : e > 0 => v[e] = w[e]
      /\ \A e \in 0..Height : SameAbove(w, v, e)
      /\ Items(v, 0) = s
  <2>1. LeafMoved(w, v, i) BY <1>2, <1>4, <1>6, LeafCur
  <2> QED BY <1>1, <2>1 DEF s, LeafMoved
<1>9. SameAbove(c, v, d)
  <2>1. SameAbove(w, v, d) BY <1>1, <1>8
  <2>2. v[d].page = c[d].page BY <1>4, <2>1 DEF SameAbove
  <2>3. \A e \in 0..Height : e > d => v[e] = c[e] BY <1>4, <2>1 DEF SameAbove
  <2> QED BY <2>2, <2>3 DEF SameAbove
<1>10. IsValid(v, d)
  <2> SUFFICES ASSUME NEW e \in 0..d
               PROVE  v[e].cur # None
    BY DEF IsValid
  <2>1. CASE e = 0 BY <1>6, <1>8, <2>1
  <2>2. CASE e # 0
    <3>1. e \in 0..Height /\ e > 0 /\ e \in 1..d BY <1>1, <2>2
    <3> QED BY <1>4, <1>8, <3>1
  <2> QED BY <2>1, <2>2
<1>11. KeyAt(v) = s[i].key BY <1>8 DEF KeyAt
<1>12. /\ KeysUnder(file, m) = {s[j].key : j \in DOMAIN s}
       /\ \A j, l \in DOMAIN s : j < l => s[j].key < s[l].key
       /\ \A k \in KeysUnder(file, m) : k \in Int
  <2>1. IsNode(file, m) /\ s = file[m].items /\ IsLeaf(file, m) /\ FileOk(file) BY <1>1, <1>5
  <2>2. KeysUnder(file, m) = ListKeys(s) BY <2>1, NodeKeys
  <2>3. \A j, l \in DOMAIN s : j < l => s[j].key < s[l].key BY <2>1, NodeKeys
  <2>4. \A k \in KeysUnder(file, m) : k \in Int BY <2>1, NodeKeys
  <2> QED BY <2>2, <2>3, <2>4 DEF ListKeys
<1>13. KeyAt(v) \in KeysUnder(file, m) /\ KeyAt(v) \in KeysUnder(file, c[d].page)
  BY <1>4, <1>6, <1>11, <1>12 DEF FirstUnder
<1>14. \A j \in DOMAIN s : s[i].key <= s[j].key
  <2> TAKE j \in DOMAIN s
  <2>1. s[i].key \in Int /\ s[j].key \in Int BY <1>6, <1>12
  <2>2. CASE j = i BY <2>1, <2>2
  <2>3. CASE j # i
    <3>1. s[i].key < s[j].key BY <1>6, <1>7, <1>12, <2>3
    <3> QED BY <2>1, <3>1
  <2> QED BY <2>2, <2>3
<1>15. ASSUME NEW k \in KeysUnder(file, c[d].page)
       PROVE  KeyAt(v) <= k
  <2>1. CASE k \in KeysUnder(file, m) BY <1>11, <1>12, <1>14, <2>1
  <2>2. CASE k \notin KeysUnder(file, m)
    <3>1. KeyAt(v) < k BY <1>4, <1>13, <2>2 DEF FirstUnder
    <3>2. IsNode(file, c[d].page) BY <1>1, StandingFacts
    <3>3. k \in Int /\ KeyAt(v) \in Int BY <1>1, <1>12, <1>13, <3>2, NodeKeys
    <3> QED BY <3>1, <3>3
  <2> QED BY <2>1, <2>2
<1>16. v[0].cur \in 1..Len(Items(v, 0)) BY <1>5, <1>6, <1>8
<1> QED BY <1>8, <1>9, <1>10, <1>13, <1>15, <1>16

\* Down the last children.
LEMMA LastsGo ==
    ASSUME Opened, NEW c, Standing(c), NEW d \in 0..Height, NEW down, LastsDown(c, d, down)
    PROVE  \A e \in 0..d : /\ Standing(down[e]) /\ SameAbove(c, down[e], d)
                           /\ \A x \in e + 1..d : down[e][x].cur # None
                           /\ LastUnder(c[d].page, down[e][e].page)
<1>1. FileOk(file) /\ Height \in Nat BY NodeKeys DEF Opened, Height
<1>2. d \in Nat /\ d \in 0..d BY <1>1
<1>3. \A e \in 0..d : down[e] = IF e = d THEN c ELSE SetChild(down[e + 1], e + 1, Len(Items(down[e + 1], e + 1))) BY DEF LastsDown
<1> DEFINE P == {e \in 0..d : /\ Standing(down[e]) /\ SameAbove(c, down[e], d)
                              /\ \A x \in e + 1..d : down[e][x].cur # None
                              /\ LastUnder(c[d].page, down[e][e].page)}
<1>4. d \in P
  <2>1. down[d] = c BY <1>2, <1>3
  <2>2. \A x \in d + 1..d : FALSE BY <1>2
  <2>3. SameAbove(c, c, d) /\ LastUnder(c[d].page, c[d].page) BY DEF SameAbove, LastUnder
  <2> QED BY <1>2, <2>1, <2>2, <2>3
<1>5. ASSUME NEW e \in 0..d - 1, e + 1 \in P
      PROVE  e \in P
  <2> DEFINE D == e + 1
             w == down[e + 1]
             v == down[e]
             n == w[D].page
  <2>1. /\ Standing(w) /\ SameAbove(c, w, d) /\ LastUnder(c[d].page, n)
        /\ \A x \in D + 1..d : w[x].cur # None
    BY <1>5
  <2>2. /\ e \in 0..d /\ e # d /\ D \in 1..Height /\ D \in 0..Height /\ D <= d /\ D - 1 = e /\ D > 0
        /\ d \in 0..Height /\ e \in Nat
    BY <1>1, <1>2
  <2>3. v = SetChild(w, D, Len(Items(w, D))) BY <1>3, <2>2
  <2> HIDE DEF D, w, v
  <2>4. /\ IsInner(file, n) /\ Items(w, D) = file[n].items /\ Len(Items(w, D)) >= 1
        /\ Len(Items(w, D)) \in Nat
    BY <2>1, <2>2, StandingFacts
  <2>5. Len(Items(w, D)) \in 1..Len(Items(w, D)) /\ Len(Items(w, D)) # None BY <2>4 DEF None
  <2>6. /\ Standing(v) /\ SameAbove(w, v, D) /\ v[D].cur # None /\ v[D - 1].page = Items(w, D)[Len(Items(w, D))].page
    BY <2>1, <2>2, <2>3, <2>5, SetChildGoes
  <2>7. SameAbove(c, v, d)
    <3>1. d = D \/ D < d BY <1>2, <2>2
    <3>2. CASE d = D BY <2>1, <2>6, <3>2 DEF SameAbove
    <3>3. CASE D < d BY <1>1, <2>1, <2>2, <2>6, <3>3, SameTwice
    <3> QED BY <3>1, <3>2, <3>3
  <2>8. ASSUME NEW x \in e + 1..d
        PROVE  v[x].cur # None
    <3>1. x = D \/ (x \in D + 1..d /\ x > D /\ x \in 0..Height) BY <1>1, <1>2, <2>2
    <3>2. CASE x = D BY <2>6, <3>2
    <3>3. CASE x \in D + 1..d /\ x > D /\ x \in 0..Height
      <4>1. v[x] = w[x] BY <2>6, <3>3 DEF SameAbove
      <4> QED BY <2>1, <3>3, <4>1
    <3> QED BY <3>1, <3>2, <3>3
  <2>9. LastUnder(c[d].page, v[e].page)
    <3>1. v[e].page = file[n].items[Len(file[n].items)].page BY <2>2, <2>4, <2>6
    <3>2. LastUnder(n, file[n].items[Len(file[n].items)].page) BY <1>1, <2>4, LastChild
    <3> QED BY <2>1, <3>1, <3>2, LastOfLast
  <2> QED BY <2>2, <2>6, <2>7, <2>8, <2>9 DEF v
<1>6. \A e \in 0..d : e \in P
  <2> HIDE DEF P
  <2> QED BY <1>2, <1>4, <1>5, CountDown
<1> QED BY <1>6

LEMMA LastsExist ==
    ASSUME Opened, NEW c, Standing(c), NEW d \in 0..Height
    PROVE  \E down : LastsDown(c, d, down)
<1> DEFINE X == {v \in Places : Standing(v)}
           S == [e \in 0..d |-> X]
           g == [p \in (0..d) \X X |-> SetChild(p[2], p[1] + 1, Len(Items(p[2], p[1] + 1)))]
<1>1. Height \in Nat /\ d \in Nat /\ d \in 0..d BY NodeKeys DEF Opened, Height
<1>2. \A v : v \in X <=> Standing(v) BY DEF Standing
<1>3. c \in S[d] /\ \A e \in 0..d : S[e] = X BY <1>1, <1>2
<1> HIDE DEF X
<1>4. \A e \in 0..d, v \in X : g[<<e, v>>] = SetChild(v, e + 1, Len(Items(v, e + 1))) OBVIOUS
<1> HIDE DEF S, g
<1>5. ASSUME NEW e \in 0..d - 1, NEW v \in S[e + 1]
      PROVE  g[<<e, v>>] \in S[e]
  <2> DEFINE D == e + 1
  <2>1. e \in 0..d /\ D \in 0..d /\ D \in 1..Height /\ D \in 0..Height BY <1>1
  <2>2. v \in X /\ Standing(v) BY <1>2, <1>3, <2>1
  <2> HIDE DEF D
  <2>3. Len(Items(v, D)) \in 1..Len(Items(v, D)) BY <2>1, <2>2, StandingFacts
  <2>4. Standing(SetChild(v, D, Len(Items(v, D)))) BY <2>1, <2>2, <2>3, SetChildGoes
  <2> QED BY <1>2, <1>3, <1>4, <2>1, <2>2, <2>4 DEF D
<1>6. PICK f : LoopsDown(f, c, d, g) /\ \A e \in 0..d : f[e] \in S[e] BY <1>1, <1>3, <1>5, LoopDown
<1>7. f = [e \in 0..d |-> IF e = d THEN c ELSE g[<<e, f[e + 1]>>]] BY <1>6 DEF LoopsDown
<1>8. \A e \in 0..d : e # d => g[<<e, f[e + 1]>>] = SetChild(f[e + 1], e + 1, Len(Items(f[e + 1], e + 1)))
  <2> TAKE e \in 0..d
  <2> HAVE e # d
  <2>1. e + 1 \in 0..d BY <1>1
  <2>2. f[e + 1] \in X BY <1>3, <1>6, <2>1
  <2> QED BY <1>4, <2>2
<1>9. LastsDown(c, d, f) BY <1>7, <1>8 DEF LastsDown
<1> QED BY <1>9

\* last of the cursor at depth d goes to the last key under its node.
LEMMA LastGoes ==
    ASSUME Opened, NEW c, Standing(c), NEW d \in 0..Height, NEW v, v = LastOf(c, d)
    PROVE  /\ Standing(v) /\ SameAbove(c, v, d) /\ IsValid(v, d)
           /\ v[0].cur \in 1..Len(Items(v, 0)) /\ KeyAt(v) \in KeysUnder(file, c[d].page)
           /\ \A k \in KeysUnder(file, c[d].page) : k <= KeyAt(v)
<1> DEFINE down == CHOOSE x : LastsDown(c, d, x)
           w == down[0]
           i == Len(Items(w, 0))
           m == w[0].page
           s == Items(w, 0)
<1>1. FileOk(file) /\ Height \in Nat /\ d \in Nat /\ d \in 0..Height /\ 0 \in 0..d /\ 0 \in 0..Height
  BY NodeKeys DEF Opened, Height
<1>2. v = WithCur(w, 0, i) BY DEF LastOf, LastsDown, WithCur
<1>3. LastsDown(c, d, down) BY LastsExist
<1> HIDE DEF down
<1>4. /\ Standing(w) /\ SameAbove(c, w, d) /\ LastUnder(c[d].page, m)
      /\ \A x \in 1..d : w[x].cur # None
  <2>1. \A e \in 0..d : /\ Standing(down[e]) /\ SameAbove(c, down[e], d)
                        /\ \A x \in e + 1..d : down[e][x].cur # None
                        /\ LastUnder(c[d].page, down[e][e].page)
    BY <1>3, LastsGo
  <2>2. \A x \in 1..d : x \in 0 + 1..d OBVIOUS
  <2> QED BY <1>1, <2>1, <2>2
<1> HIDE DEF w
<1>5. /\ IsNode(file, m) /\ s = file[m].items /\ DOMAIN s = 1..Len(s) /\ Len(s) \in Nat /\ Len(s) >= 1
      /\ IsLeaf(file, m)
  BY <1>1, <1>4, StandingFacts
<1>6. i \in Nat /\ i # None /\ i \in DOMAIN s BY <1>5 DEF None
<1>7. \A j \in DOMAIN s : j # i => j < i BY <1>5
<1> HIDE DEF i, m, s
<1>8. /\ Standing(v) /\ v[0].cur = i /\ v[0].page = w[0].page /\ \A e \in 0..Height : e > 0 => v[e] = w[e]
      /\ \A e \in 0..Height : SameAbove(w, v, e)
      /\ Items(v, 0) = s
  <2>1. LeafMoved(w, v, i) BY <1>2, <1>4, <1>6, LeafCur
  <2> QED BY <1>1, <2>1 DEF s, LeafMoved
<1>9. SameAbove(c, v, d)
  <2>1. SameAbove(w, v, d) BY <1>1, <1>8
  <2>2. v[d].page = c[d].page BY <1>4, <2>1 DEF SameAbove
  <2>3. \A e \in 0..Height : e > d => v[e] = c[e] BY <1>4, <2>1 DEF SameAbove
  <2> QED BY <2>2, <2>3 DEF SameAbove
<1>10. IsValid(v, d)
  <2> SUFFICES ASSUME NEW e \in 0..d
               PROVE  v[e].cur # None
    BY DEF IsValid
  <2>1. CASE e = 0 BY <1>6, <1>8, <2>1
  <2>2. CASE e # 0
    <3>1. e \in 0..Height /\ e > 0 /\ e \in 1..d BY <1>1, <2>2
    <3> QED BY <1>4, <1>8, <3>1
  <2> QED BY <2>1, <2>2
<1>11. KeyAt(v) = s[i].key BY <1>8 DEF KeyAt
<1>12. /\ KeysUnder(file, m) = {s[j].key : j \in DOMAIN s}
       /\ \A j, l \in DOMAIN s : j < l => s[j].key < s[l].key
       /\ \A k \in KeysUnder(file, m) : k \in Int
  <2>1. IsNode(file, m) /\ s = file[m].items /\ IsLeaf(file, m) /\ FileOk(file) BY <1>1, <1>5
  <2>2. KeysUnder(file, m) = ListKeys(s) BY <2>1, NodeKeys
  <2>3. \A j, l \in DOMAIN s : j < l => s[j].key < s[l].key BY <2>1, NodeKeys
  <2>4. \A k \in KeysUnder(file, m) : k \in Int BY <2>1, NodeKeys
  <2> QED BY <2>2, <2>3, <2>4 DEF ListKeys
<1>13. KeyAt(v) \in KeysUnder(file, m) /\ KeyAt(v) \in KeysUnder(file, c[d].page)
  BY <1>4, <1>6, <1>11, <1>12 DEF LastUnder
<1>14. \A j \in DOMAIN s : s[j].key <= s[i].key
  <2> TAKE j \in DOMAIN s
  <2>1. s[i].key \in Int /\ s[j].key \in Int BY <1>6, <1>12
  <2>2. CASE j = i BY <2>1, <2>2
  <2>3. CASE j # i
    <3>1. s[j].key < s[i].key BY <1>6, <1>7, <1>12, <2>3
    <3> QED BY <2>1, <3>1
  <2> QED BY <2>2, <2>3
<1>15. ASSUME NEW k \in KeysUnder(file, c[d].page)
       PROVE  k <= KeyAt(v)
  <2>1. CASE k \in KeysUnder(file, m) BY <1>11, <1>12, <1>14, <2>1
  <2>2. CASE k \notin KeysUnder(file, m)
    <3>1. k < KeyAt(v) BY <1>4, <1>13, <2>2 DEF LastUnder
    <3>2. IsNode(file, c[d].page) BY <1>1, StandingFacts
    <3>3. k \in Int /\ KeyAt(v) \in Int BY <1>1, <1>12, <1>13, <3>2, NodeKeys
    <3> QED BY <3>1, <3>3
  <2> QED BY <2>1, <2>2
<1>16. v[0].cur \in 1..Len(Items(v, 0)) BY <1>5, <1>6, <1>8
<1> QED BY <1>8, <1>9, <1>10, <1>13, <1>15, <1>16

-----------------------------------------------------------------------------
(* next and prev.                                                          *)

\* A valid cursor stands on a key under each of its nodes.
LEMMA KeyUnder ==
    ASSUME Opened, NEW c, Steady(c), NEW d \in 0..Height, IsValid(c, d)
    PROVE  KeyAt(c) \in KeysUnder(file, c[d].page) /\ c[0].cur \in 1..Len(Items(c, 0))
<1>1. FileOk(file) /\ Height \in Nat /\ d \in Nat /\ 0 \in 0..Height /\ 0 \in 0..d
  BY NodeKeys DEF Opened, Height
<1>2. Standing(c) /\ c[0].cur \in 0..Len(Items(c, 0)) BY DEF Steady
<1> DEFINE s == Items(c, 0)
           m == c[0].page
<1>3. /\ IsNode(file, m) /\ s = file[m].items /\ DOMAIN s = 1..Len(s) /\ Len(s) \in Nat
      /\ IsLeaf(file, m)
  BY <1>1, <1>2, StandingFacts
<1>4. c[0].cur \in DOMAIN s /\ c[0].cur \in 1..Len(s) BY <1>1, <1>2, <1>3 DEF IsValid, None
<1>5. KeyAt(c) \in KeysUnder(file, m)
  <2>1. KeyAt(c) = s[c[0].cur].key BY DEF KeyAt
  <2> HIDE DEF s, m
  <2>2. KeysUnder(file, m) = ListKeys(s) BY <1>1, <1>3, NodeKeys
  <2> QED BY <1>4, <2>1, <2>2 DEF ListKeys
<1> DEFINE P == {e \in 0..d : KeyAt(c) \in KeysUnder(file, c[e].page)}
<1>6. 0 \in P BY <1>1, <1>5
<1>7. ASSUME NEW e \in 1..d, e - 1 \in P
      PROVE  e \in P
  <2>1. e \in 1..Height /\ e \in 0..Height /\ e > 0 /\ e \in 0..d BY <1>1
  <2>2. c[e].cur \in DOMAIN Items(c, e) /\ c[e - 1].page = Child(c, e)
    BY <1>2, <2>1 DEF Standing, IsValid
  <2>3. IsInner(file, c[e].page) /\ Items(c, e) = file[c[e].page].items BY <1>2, <2>1, StandingFacts
  <2>4. KeysUnder(file, Child(c, e)) \subseteq KeysUnder(file, c[e].page)
    <3> DEFINE n == c[e].page
               t == Items(c, e)
    <3>1. IsInner(file, n) /\ t = file[n].items BY <2>3
    <3> HIDE DEF n, t
    <3>2. \A i \in DOMAIN t : KeysUnder(file, t[i].page) \subseteq KeysUnder(file, n)
      BY <1>1, <3>1, ParentKeys
    <3> QED BY <2>2, <3>2 DEF Child, n, t
  <2>5. KeyAt(c) \in KeysUnder(file, c[e - 1].page) BY <1>7
  <2> QED BY <2>1, <2>2, <2>4, <2>5
<1>8. \A e \in 0..d : e \in P
  <2> HIDE DEF P
  <2> QED BY <1>1, <1>6, <1>7, CountUp
<1>9. d \in 0..d BY <1>1
<1> QED BY <1>4, <1>8, <1>9

\* How the keys under a parent lie around one under its i'th child.
LEMMA Around ==
    ASSUME FileOk(file), NEW n, IsInner(file, n), NEW s, s = file[n].items,
           NEW i \in DOMAIN s, NEW a \in KeysUnder(file, s[i].page)
    PROVE  LiesAmong(n, s, i, a)
<1>1. /\ \A k \in KeysUnder(file, n) : \E j \in DOMAIN s : k \in KeysUnder(file, s[j].page)
      /\ \A j, l \in DOMAIN s : j < l =>
           \A k \in KeysUnder(file, s[j].page), m \in KeysUnder(file, s[l].page) : k < m
  BY ParentKeys
<1> QED BY <1>1 DEF LiesAmong

\* At one more depth, after the step in the depths below.
LEMMA NextStep ==
    ASSUME Opened, NEW c, Steady(c), IsValid(c, Height), NEW e \in 1..Height,
           NEW v, NextUnder(c, v, e - 1), NEW u, u = NextTurn(v, e)
    PROVE  NextUnder(c, u, e)
<1> DEFINE n == c[e].page
           s == Items(c, e)
           i == c[e].cur
           a == KeyAt(c)
           D == e - 1
           M == s[i].page
<1>1. /\ FileOk(file) /\ Height \in Nat /\ e \in Nat /\ D \in 0..Height /\ e \in 0..Height /\ e > D
      /\ e > 0 /\ D < e /\ 0 \in 0..Height /\ D \in 0..e /\ e \in 0..e
      /\ \A x \in 0..e : x = e \/ x \in 0..D
      /\ \A x \in 0..D : x \in 0..e /\ x \in 0..Height
  BY NodeKeys DEF Opened, Height
<1>2. Standing(c) /\ Standing(v) /\ SameAbove(c, v, D) /\ Steady(v) BY DEF Steady, NextUnder
<1>3. /\ IsNode(file, n) /\ IsInner(file, n) /\ s = file[n].items /\ DOMAIN s = 1..Len(s)
      /\ Len(s) \in Nat
  BY <1>1, <1>2, StandingFacts
<1>4. i # None /\ i \in DOMAIN s /\ c[D].page = M /\ IsValid(c, D)
  <2>1. i # None BY <1>1 DEF IsValid
  <2>2. IsValid(c, D) BY <1>1 DEF IsValid
  <2> QED BY <1>2, <2>1, <2>2 DEF Standing, Child
<1>5. v[e] = c[e] /\ v[e].page = n /\ v[e].cur = i /\ Items(v, e) = s
  BY <1>1, <1>2 DEF SameAbove, Items
<1>6. a \in KeysUnder(file, M)
  <2>1. a \in KeysUnder(file, c[D].page) BY <1>1, <1>4, KeyUnder
  <2> QED BY <1>4, <2>1
<1>7. \A k \in KeysUnder(file, n) : k \in Int BY <1>1, <1>3, NodeKeys
<1>8. /\ \A j \in DOMAIN s : KeysUnder(file, s[j].page) \subseteq KeysUnder(file, n)
      /\ \A j, l \in DOMAIN s : j < l =>
           \A k \in KeysUnder(file, s[j].page), m \in KeysUnder(file, s[l].page) : k < m
  BY <1>1, <1>3, ParentKeys
<1>9. a \in Int BY <1>4, <1>6, <1>7, <1>8
<1>10. SameAbove(c, v, e) BY <1>1, <1>2, <1>5 DEF SameAbove
<1>11. /\ IsValid(v, D) =>
           KeyAt(v) \in KeysUnder(file, M) /\ a < KeyAt(v) /\ \A k \in KeysUnder(file, M) : a < k => KeyAt(v) <= k
       /\ ~IsValid(v, D) => \A k \in KeysUnder(file, M) : k <= a
  BY <1>4 DEF NextUnder
<1>12. u = IF IsValid(v, D) \/ i = Len(s) THEN v ELSE FirstOf(SetChild(v, e, i + 1), D)
  BY <1>5 DEF NextTurn
<1>13. \A k \in KeysUnder(file, n) : \E j \in DOMAIN s :
         k \in KeysUnder(file, s[j].page) /\ (j < i => k < a) /\ (i < j => a < k)
  <2>1. IsInner(file, n) /\ s = file[n].items /\ i \in DOMAIN s /\ a \in KeysUnder(file, s[i].page)
    BY <1>3, <1>4, <1>6
  <2> HIDE DEF n, s, a, i
  <2>2. LiesAmong(n, s, i, a) BY <1>1, <2>1, Around
  <2> QED BY <2>2 DEF LiesAmong
<1> HIDE DEF n, s, i, a, D, M
<1>14. CASE IsValid(v, D)
  <2> DEFINE b == KeyAt(v)
  <2>1. u = v BY <1>12, <1>14
  <2>2. IsValid(v, e)
    <3>1. \A x \in 0..e : v[x].cur # None BY <1>1, <1>4, <1>5, <1>14 DEF IsValid
    <3> QED BY <3>1 DEF IsValid
  <2>3. b \in KeysUnder(file, M) /\ a < b /\ \A k \in KeysUnder(file, M) : a < k => b <= k BY <1>11, <1>14
  <2> HIDE DEF b
  <2>4. b \in KeysUnder(file, n) /\ b \in Int BY <1>4, <1>7, <1>8, <2>3 DEF M
  <2>5. ASSUME NEW k \in KeysUnder(file, n), a < k
        PROVE  b <= k
    <3>1. PICK j \in DOMAIN s : k \in KeysUnder(file, s[j].page) /\ (j < i => k < a) BY <1>13
    <3>2. j \in Int /\ i \in Int /\ k \in Int BY <1>3, <1>4, <1>7
    <3>3. ~(j < i) BY <1>9, <2>5, <3>1, <3>2
    <3>4. CASE j = i BY <2>3, <2>5, <3>1, <3>4 DEF M
    <3>5. CASE i < j
      <4>1. b < k BY <1>4, <1>8, <2>3, <3>1, <3>5 DEF M
      <4> QED BY <2>4, <3>2, <4>1
    <3> QED BY <3>2, <3>3, <3>4, <3>5
  <2> QED BY <1>2, <1>10, <2>1, <2>2, <2>3, <2>4, <2>5 DEF NextUnder, a, b, n
<1>15. CASE ~IsValid(v, D) /\ i = Len(s)
  <2>1. u = v BY <1>12, <1>15
  <2>2. ~IsValid(v, e) BY <1>1, <1>15 DEF IsValid
  <2>3. ASSUME NEW k \in KeysUnder(file, n)
        PROVE  k <= a
    <3>1. PICK j \in DOMAIN s : k \in KeysUnder(file, s[j].page) /\ (j < i => k < a) BY <1>13
    <3>2. j \in Int /\ i \in Int /\ k \in Int /\ (j = i \/ j < i) BY <1>3, <1>4, <1>7, <1>15
    <3>3. CASE j = i BY <1>11, <1>15, <3>1, <3>3 DEF M
    <3>4. CASE j < i BY <1>9, <3>1, <3>2, <3>4
    <3> QED BY <3>2, <3>3, <3>4
  <2> QED BY <1>2, <1>10, <2>1, <2>2, <2>3 DEF NextUnder, a, n
<1>16. CASE ~IsValid(v, D) /\ i # Len(s)
  <2> DEFINE h == i + 1
             w == SetChild(v, e, h)
  <2>1. h \in DOMAIN s /\ h \in Nat /\ i < h /\ h # None /\ \A j \in DOMAIN s : i < j => j = h \/ h < j
    BY <1>3, <1>4, <1>16 DEF None
  <2>2. h \in 1..Len(Items(v, e)) BY <1>3, <1>5, <2>1
  <2>3. u = FirstOf(w, D) BY <1>12, <1>16
  <2> HIDE DEF h
  <2>4. /\ Standing(w) /\ SameAbove(v, w, e) /\ w[e].cur = h
        /\ w[e - 1].page = Items(v, e)[h].page
    BY <1>2, <2>2, SetChildGoes
  <2>5. w[D].page = s[h].page BY <1>5, <2>4 DEF D
  <2> HIDE DEF w
  <2>6. /\ Standing(u) /\ SameAbove(w, u, D) /\ IsValid(u, D)
        /\ u[0].cur \in 1..Len(Items(u, 0)) /\ KeyAt(u) \in KeysUnder(file, w[D].page)
        /\ \A k \in KeysUnder(file, w[D].page) : KeyAt(u) <= k
    BY <1>1, <2>3, <2>4, FirstGoes
  <2> DEFINE b == KeyAt(u)
  <2>7. b \in KeysUnder(file, s[h].page) /\ \A k \in KeysUnder(file, s[h].page) : b <= k BY <2>5, <2>6
  <2>8. Steady(u)
    <3>1. u[0].cur \in 0..Len(Items(u, 0)) BY <2>6
    <3> QED BY <2>6, <3>1 DEF Steady
  <2>9. u[e] = w[e] /\ \A x \in 0..Height : x > e => u[x] = c[x]
    <3>1. u[e] = w[e] BY <1>1, <2>6 DEF SameAbove
    <3>2. ASSUME NEW x \in 0..Height, x > e
          PROVE  u[x] = c[x]
      <4>1. x > D BY <1>1, <3>2 DEF D
      <4>2. u[x] = w[x] /\ w[x] = v[x] /\ v[x] = c[x] BY <1>2, <2>4, <2>6, <3>2, <4>1 DEF SameAbove
      <4> QED BY <4>2
    <3> QED BY <3>1, <3>2
  <2>10. SameAbove(c, u, e)
    <3>1. w[e].page = v[e].page BY <2>4 DEF SameAbove
    <3> QED BY <1>5, <2>9, <3>1 DEF SameAbove
  <2>11. IsValid(u, e)
    <3>1. \A x \in 0..e : u[x].cur # None BY <1>1, <2>1, <2>4, <2>6, <2>9 DEF IsValid
    <3> QED BY <3>1 DEF IsValid
  <2> HIDE DEF b
  <2>12. b \in KeysUnder(file, n) /\ b \in Int BY <1>7, <1>8, <2>1, <2>7
  <2>13. a < b BY <1>4, <1>6, <1>8, <2>1, <2>7 DEF M
  <2>14. ASSUME NEW k \in KeysUnder(file, n), a < k
         PROVE  b <= k
    <3>1. PICK j \in DOMAIN s : k \in KeysUnder(file, s[j].page) /\ (j < i => k < a) BY <1>13
    <3>2. j \in Int /\ i \in Int /\ k \in Int BY <1>3, <1>4, <1>7
    <3>3. ~(j < i) BY <1>9, <2>14, <3>1, <3>2
    <3>4. j # i
      <4>1. ASSUME j = i
            PROVE  FALSE
        <5>1. k <= a BY <1>11, <1>16, <3>1, <4>1 DEF M
        <5> QED BY <1>9, <2>14, <3>2, <5>1
      <4> QED BY <4>1
    <3>5. j = h \/ h < j BY <2>1, <3>2, <3>3, <3>4
    <3>6. CASE j = h BY <2>7, <3>1, <3>6
    <3>7. CASE h < j
      <4>1. b < k BY <1>8, <2>1, <2>7, <3>1, <3>7
      <4> QED BY <2>12, <3>2, <4>1
    <3> QED BY <3>5, <3>6, <3>7
  <2> QED BY <2>8, <2>10, <2>11, <2>12, <2>13, <2>14 DEF NextUnder, a, b, n
<1> QED BY <1>14, <1>15, <1>16

\* In the leaf.
LEMMA NextLeaf ==
    ASSUME Opened, NEW c, Steady(c), IsValid(c, Height), NEW v, v = NextInLeaf(c)
    PROVE  NextUnder(c, v, 0)
<1> DEFINE s == Items(c, 0)
           m == c[0].page
           i == c[0].cur
           a == KeyAt(c)
           h == IF i = Len(s) THEN None ELSE i + 1
<1>1. FileOk(file) /\ Height \in Nat /\ 0 \in 0..Height /\ Standing(c)
  BY NodeKeys DEF Opened, Height, Steady
<1>2. /\ IsNode(file, m) /\ s = file[m].items /\ DOMAIN s = 1..Len(s) /\ Len(s) \in Nat
      /\ IsLeaf(file, m)
  BY <1>1, StandingFacts
<1>3. i \in 1..Len(s) BY <1>1, KeyUnder
<1>4. a = s[i].key BY DEF KeyAt
<1>5. h \in Nat /\ h \in 0..Len(s) /\ v = WithCur(c, 0, h) BY <1>2, <1>3 DEF None, NextInLeaf
<1>6. (h = None <=> i = Len(s)) /\ (h # None => h = i + 1 /\ h \in DOMAIN s) BY <1>2, <1>3 DEF None
<1> HIDE DEF h, s, m, i, a
<1>7. LeafMoved(c, v, h) BY <1>1, <1>5, LeafCur
<1>8. /\ Standing(v) /\ v[0].cur = h /\ SameAbove(c, v, 0) /\ Items(v, 0) = s
  BY <1>1, <1>7 DEF LeafMoved, s
<1>9. Steady(v) BY <1>5, <1>8 DEF Steady
<1>10. IsValid(v, 0) <=> h # None
  <2>1. \A x : x \in 0..0 <=> x = 0 OBVIOUS
  <2> QED BY <1>8, <2>1 DEF IsValid
<1>11. /\ KeysUnder(file, m) = ListKeys(s)
       /\ \A k \in KeysUnder(file, m) : k \in Int
  BY <1>1, <1>2, NodeKeys
<1>12. \A j, l \in DOMAIN s : j < l => s[j].key < s[l].key BY <1>1, <1>2, NodeKeys
<1>13. \A k \in KeysUnder(file, m) : \E j \in DOMAIN s : k = s[j].key BY <1>11 DEF ListKeys
<1>14. \A j \in DOMAIN s : s[j].key \in KeysUnder(file, m) /\ s[j].key \in Int BY <1>11 DEF ListKeys
<1>15. ASSUME h # None
       PROVE  /\ KeyAt(v) \in KeysUnder(file, m) /\ a < KeyAt(v)
              /\ \A k \in KeysUnder(file, m) : a < k => KeyAt(v) <= k
  <2>1. KeyAt(v) = s[h].key BY <1>8 DEF KeyAt
  <2>2. h \in DOMAIN s /\ i \in DOMAIN s /\ i < h /\ \A j \in DOMAIN s : j < i \/ j = i \/ j = h \/ h < j
    BY <1>2, <1>3, <1>6, <1>15
  <2>3. ASSUME NEW k \in KeysUnder(file, m), a < k
        PROVE  s[h].key <= k
    <3>1. PICK j \in DOMAIN s : k = s[j].key BY <1>13
    <3>2. CASE j < i \/ j = i
      <4>1. k < a \/ k = a BY <1>4, <1>12, <2>2, <3>1, <3>2
      <4>2. k \in Int /\ a \in Int BY <1>4, <1>14, <2>2, <3>1
      <4> QED BY <2>3, <4>1, <4>2
    <3>3. CASE j = h \/ h < j
      <4>1. s[h].key < k \/ k = s[h].key BY <1>12, <2>2, <3>1, <3>3
      <4>2. k \in Int /\ s[h].key \in Int BY <1>14, <2>2, <3>1
      <4> QED BY <4>1, <4>2
    <3> QED BY <2>2, <3>2, <3>3
  <2> QED BY <1>4, <1>12, <1>14, <2>1, <2>2, <2>3
<1>16. ASSUME h = None, NEW k \in KeysUnder(file, m)
       PROVE  k <= a
  <2>1. PICK j \in DOMAIN s : k = s[j].key BY <1>13
  <2>2. i \in DOMAIN s /\ (j = i \/ j < i) BY <1>2, <1>3, <1>6, <1>16
  <2>3. k = a \/ k < a BY <1>4, <1>12, <2>1, <2>2
  <2>4. k \in Int /\ a \in Int BY <1>4, <1>14, <2>1, <2>2
  <2> QED BY <2>3, <2>4
<1> QED BY <1>8, <1>9, <1>10, <1>15, <1>16 DEF NextUnder, a, m

\* next goes to the next key of the tree.
LEMMA NextsExist ==
    ASSUME Opened, NEW c, Steady(c), IsValid(c, Height)
    PROVE  \E up : NextsUp(c, up)
<1> DEFINE X == {v \in Places : Steady(v)}
           S == [e \in 0..Height |-> {v \in X : NextUnder(c, v, e)}]
           g == [p \in (0..Height) \X X |-> NextTurn(p[2], p[1])]
           leaf0 == NextInLeaf(c)
<1>1. Height \in Nat /\ 0 \in 0..Height BY NodeKeys DEF Opened, Height
<1>2. \A v : Steady(v) => v \in X BY DEF Steady, Standing
<1>3. \A e \in 0..Height, v \in X : g[<<e, v>>] = NextTurn(v, e) OBVIOUS
<1> HIDE DEF X
<1>4. \A e \in 0..Height : \A v : v \in S[e] <=> v \in X /\ NextUnder(c, v, e) OBVIOUS
<1>5. leaf0 \in S[0]
  <2>1. NextUnder(c, leaf0, 0) BY NextLeaf
  <2> QED BY <1>1, <1>2, <1>4, <2>1 DEF NextUnder
<1> HIDE DEF S, g, leaf0
<1>6. ASSUME NEW e \in 1..Height, NEW v \in S[e - 1]
      PROVE  g[<<e, v>>] \in S[e]
  <2>1. e \in 0..Height /\ e - 1 \in 0..Height BY <1>1
  <2>2. v \in X /\ NextUnder(c, v, e - 1) BY <1>4, <2>1
  <2>3. NextUnder(c, NextTurn(v, e), e) BY <2>2, NextStep
  <2>4. NextTurn(v, e) \in X BY <1>2, <2>3 DEF NextUnder
  <2> QED BY <1>3, <1>4, <2>1, <2>2, <2>3, <2>4
<1>7. PICK f : LoopsUp(f, leaf0, Height, g) /\ \A e \in 0..Height : f[e] \in S[e]
  BY <1>1, <1>5, <1>6, LoopUp
<1>8. f = [e \in 0..Height |-> IF e = 0 THEN leaf0 ELSE g[<<e, f[e - 1]>>]] BY <1>7 DEF LoopsUp
<1>9. \A e \in 0..Height : e # 0 => g[<<e, f[e - 1]>>] = NextTurn(f[e - 1], e)
  <2> TAKE e \in 0..Height
  <2> HAVE e # 0
  <2>1. e - 1 \in 0..Height BY <1>1
  <2>2. f[e - 1] \in X BY <1>4, <1>7, <2>1
  <2> QED BY <1>3, <2>2
<1>10. NextsUp(c, f) BY <1>8, <1>9 DEF NextsUp, leaf0
<1> QED BY <1>10

LEMMA NextGoes ==
    ASSUME Opened, NEW c, Steady(c), IsValid(c, Height), NEW v, v = NextOf(c)
    PROVE  NextUnder(c, v, Height)
<1> DEFINE up == CHOOSE x : NextsUp(c, x)
<1>1. Height \in Nat /\ 0 \in 0..Height /\ Height \in 0..Height BY NodeKeys DEF Opened, Height
<1>2. v = up[Height] BY DEF NextOf, NextsUp, NextInLeaf, NextTurn, WithCur
<1>3. NextsUp(c, up) BY NextsExist
<1> HIDE DEF up
<1>4. \A e \in 0..Height : up[e] = IF e = 0 THEN NextInLeaf(c) ELSE NextTurn(up[e - 1], e)
  BY <1>3 DEF NextsUp
<1> DEFINE P == {e \in 0..Height : NextUnder(c, up[e], e)}
<1>5. 0 \in P
  <2>1. up[0] = NextInLeaf(c) BY <1>1, <1>4
  <2>2. NextUnder(c, up[0], 0) BY <2>1, NextLeaf
  <2> QED BY <1>1, <2>2
<1>6. ASSUME NEW e \in 1..Height, e - 1 \in P
      PROVE  e \in P
  <2>1. e \in 0..Height /\ e # 0 BY <1>1
  <2>2. NextUnder(c, up[e - 1], e - 1) BY <1>6
  <2>3. up[e] = NextTurn(up[e - 1], e) BY <1>4, <2>1
  <2> DEFINE w == up[e - 1]
             u == up[e]
  <2>4. NextUnder(c, w, e - 1) /\ u = NextTurn(w, e) BY <2>2, <2>3
  <2> HIDE DEF w, u, P
  <2>5. NextUnder(c, u, e) BY <2>4, NextStep
  <2> QED BY <2>1, <2>5 DEF u, P
<1>7. \A e \in 0..Height : e \in P
  <2> HIDE DEF P
  <2> QED BY <1>1, <1>5, <1>6, CountUp
<1> QED BY <1>1, <1>2, <1>7

\* The same of prev.
LEMMA PrevStep ==
    ASSUME Opened, NEW c, Steady(c), IsValid(c, Height), NEW e \in 1..Height,
           NEW v, PrevUnder(c, v, e - 1), NEW u, u = PrevTurn(v, e)
    PROVE  PrevUnder(c, u, e)
<1> DEFINE n == c[e].page
           s == Items(c, e)
           i == c[e].cur
           a == KeyAt(c)
           D == e - 1
           M == s[i].page
<1>1. /\ FileOk(file) /\ Height \in Nat /\ e \in Nat /\ D \in 0..Height /\ e \in 0..Height /\ e > D
      /\ e > 0 /\ D < e /\ 0 \in 0..Height /\ D \in 0..e /\ e \in 0..e
      /\ \A x \in 0..e : x = e \/ x \in 0..D
      /\ \A x \in 0..D : x \in 0..e /\ x \in 0..Height
  BY NodeKeys DEF Opened, Height
<1>2. Standing(c) /\ Standing(v) /\ SameAbove(c, v, D) /\ Steady(v) BY DEF Steady, PrevUnder
<1>3. /\ IsNode(file, n) /\ IsInner(file, n) /\ s = file[n].items /\ DOMAIN s = 1..Len(s)
      /\ Len(s) \in Nat
  BY <1>1, <1>2, StandingFacts
<1>4. i # None /\ i \in DOMAIN s /\ c[D].page = M /\ IsValid(c, D)
  <2>1. i # None BY <1>1 DEF IsValid
  <2>2. IsValid(c, D) BY <1>1 DEF IsValid
  <2> QED BY <1>2, <2>1, <2>2 DEF Standing, Child
<1>5. v[e] = c[e] /\ v[e].page = n /\ v[e].cur = i /\ Items(v, e) = s
  BY <1>1, <1>2 DEF SameAbove, Items
<1>6. a \in KeysUnder(file, M)
  <2>1. a \in KeysUnder(file, c[D].page) BY <1>1, <1>4, KeyUnder
  <2> QED BY <1>4, <2>1
<1>7. \A k \in KeysUnder(file, n) : k \in Int BY <1>1, <1>3, NodeKeys
<1>8. /\ \A j \in DOMAIN s : KeysUnder(file, s[j].page) \subseteq KeysUnder(file, n)
      /\ \A j, l \in DOMAIN s : j < l =>
           \A k \in KeysUnder(file, s[j].page), m \in KeysUnder(file, s[l].page) : k < m
  BY <1>1, <1>3, ParentKeys
<1>9. a \in Int BY <1>4, <1>6, <1>7, <1>8
<1>10. SameAbove(c, v, e) BY <1>1, <1>2, <1>5 DEF SameAbove
<1>11. /\ IsValid(v, D) =>
           KeyAt(v) \in KeysUnder(file, M) /\ KeyAt(v) < a /\ \A k \in KeysUnder(file, M) : k < a => k <= KeyAt(v)
       /\ ~IsValid(v, D) => \A k \in KeysUnder(file, M) : a <= k
  BY <1>4 DEF PrevUnder
<1>12. u = IF IsValid(v, D) \/ i = 1 THEN v ELSE LastOf(SetChild(v, e, i - 1), D)
  BY <1>5 DEF PrevTurn
<1>13. \A k \in KeysUnder(file, n) : \E j \in DOMAIN s :
         k \in KeysUnder(file, s[j].page) /\ (j < i => k < a) /\ (i < j => a < k)
  <2>1. IsInner(file, n) /\ s = file[n].items /\ i \in DOMAIN s /\ a \in KeysUnder(file, s[i].page)
    BY <1>3, <1>4, <1>6
  <2> HIDE DEF n, s, a, i
  <2>2. LiesAmong(n, s, i, a) BY <1>1, <2>1, Around
  <2> QED BY <2>2 DEF LiesAmong
<1> HIDE DEF n, s, i, a, D, M
<1>14. CASE IsValid(v, D)
  <2> DEFINE b == KeyAt(v)
  <2>1. u = v BY <1>12, <1>14
  <2>2. IsValid(v, e)
    <3>1. \A x \in 0..e : v[x].cur # None BY <1>1, <1>4, <1>5, <1>14 DEF IsValid
    <3> QED BY <3>1 DEF IsValid
  <2>3. b \in KeysUnder(file, M) /\ b < a /\ \A k \in KeysUnder(file, M) : k < a => k <= b BY <1>11, <1>14
  <2> HIDE DEF b
  <2>4. b \in KeysUnder(file, n) /\ b \in Int BY <1>4, <1>7, <1>8, <2>3 DEF M
  <2>5. ASSUME NEW k \in KeysUnder(file, n), k < a
        PROVE  k <= b
    <3>1. PICK j \in DOMAIN s : k \in KeysUnder(file, s[j].page) /\ (i < j => a < k) BY <1>13
    <3>2. j \in Int /\ i \in Int /\ k \in Int BY <1>3, <1>4, <1>7
    <3>3. ~(i < j) BY <1>9, <2>5, <3>1, <3>2
    <3>4. CASE j = i BY <2>3, <2>5, <3>1, <3>4 DEF M
    <3>5. CASE j < i
      <4>1. k < b BY <1>4, <1>8, <2>3, <3>1, <3>5 DEF M
      <4> QED BY <2>4, <3>2, <4>1
    <3> QED BY <3>2, <3>3, <3>4, <3>5
  <2> QED BY <1>2, <1>10, <2>1, <2>2, <2>3, <2>4, <2>5 DEF PrevUnder, a, b, n
<1>15. CASE ~IsValid(v, D) /\ i = 1
  <2>1. u = v BY <1>12, <1>15
  <2>2. ~IsValid(v, e) BY <1>1, <1>15 DEF IsValid
  <2>3. ASSUME NEW k \in KeysUnder(file, n)
        PROVE  a <= k
    <3>1. PICK j \in DOMAIN s : k \in KeysUnder(file, s[j].page) /\ (i < j => a < k) BY <1>13
    <3>2. j \in Int /\ i \in Int /\ k \in Int /\ (j = i \/ i < j) BY <1>3, <1>4, <1>7, <1>15
    <3>3. CASE j = i BY <1>11, <1>15, <3>1, <3>3 DEF M
    <3>4. CASE i < j BY <1>9, <3>1, <3>2, <3>4
    <3> QED BY <3>2, <3>3, <3>4
  <2> QED BY <1>2, <1>10, <2>1, <2>2, <2>3 DEF PrevUnder, a, n
<1>16. CASE ~IsValid(v, D) /\ i # 1
  <2> DEFINE h == i - 1
             w == SetChild(v, e, h)
  <2>1. h \in DOMAIN s /\ h \in Nat /\ h < i /\ h # None /\ \A j \in DOMAIN s : j < i => j = h \/ j < h
    BY <1>3, <1>4, <1>16 DEF None
  <2>2. h \in 1..Len(Items(v, e)) BY <1>3, <1>5, <2>1
  <2>3. u = LastOf(w, D) BY <1>12, <1>16
  <2> HIDE DEF h
  <2>4. /\ Standing(w) /\ SameAbove(v, w, e) /\ w[e].cur = h
        /\ w[e - 1].page = Items(v, e)[h].page
    BY <1>2, <2>2, SetChildGoes
  <2>5. w[D].page = s[h].page BY <1>5, <2>4 DEF D
  <2> HIDE DEF w
  <2>6. /\ Standing(u) /\ SameAbove(w, u, D) /\ IsValid(u, D)
        /\ u[0].cur \in 1..Len(Items(u, 0)) /\ KeyAt(u) \in KeysUnder(file, w[D].page)
        /\ \A k \in KeysUnder(file, w[D].page) : k <= KeyAt(u)
    BY <1>1, <2>3, <2>4, LastGoes
  <2> DEFINE b == KeyAt(u)
  <2>7. b \in KeysUnder(file, s[h].page) /\ \A k \in KeysUnder(file, s[h].page) : k <= b BY <2>5, <2>6
  <2>8. Steady(u)
    <3>1. u[0].cur \in 0..Len(Items(u, 0)) BY <2>6
    <3> QED BY <2>6, <3>1 DEF Steady
  <2>9. u[e] = w[e] /\ \A x \in 0..Height : x > e => u[x] = c[x]
    <3>1. u[e] = w[e] BY <1>1, <2>6 DEF SameAbove
    <3>2. ASSUME NEW x \in 0..Height, x > e
          PROVE  u[x] = c[x]
      <4>1. x > D BY <1>1, <3>2 DEF D
      <4>2. u[x] = w[x] /\ w[x] = v[x] /\ v[x] = c[x] BY <1>2, <2>4, <2>6, <3>2, <4>1 DEF SameAbove
      <4> QED BY <4>2
    <3> QED BY <3>1, <3>2
  <2>10. SameAbove(c, u, e)
    <3>1. w[e].page = v[e].page BY <2>4 DEF SameAbove
    <3> QED BY <1>5, <2>9, <3>1 DEF SameAbove
  <2>11. IsValid(u, e)
    <3>1. \A x \in 0..e : u[x].cur # None BY <1>1, <2>1, <2>4, <2>6, <2>9 DEF IsValid
    <3> QED BY <3>1 DEF IsValid
  <2> HIDE DEF b
  <2>12. b \in KeysUnder(file, n) /\ b \in Int BY <1>7, <1>8, <2>1, <2>7
  <2>13. b < a BY <1>4, <1>6, <1>8, <2>1, <2>7 DEF M
  <2>14. ASSUME NEW k \in KeysUnder(file, n), k < a
         PROVE  k <= b
    <3>1. PICK j \in DOMAIN s : k \in KeysUnder(file, s[j].page) /\ (i < j => a < k) BY <1>13
    <3>2. j \in Int /\ i \in Int /\ k \in Int BY <1>3, <1>4, <1>7
    <3>3. ~(i < j) BY <1>9, <2>14, <3>1, <3>2
    <3>4. j # i
      <4>1. ASSUME j = i
            PROVE  FALSE
        <5>1. a <= k BY <1>11, <1>16, <3>1, <4>1 DEF M
        <5> QED BY <1>9, <2>14, <3>2, <5>1
      <4> QED BY <4>1
    <3>5. j = h \/ j < h BY <2>1, <3>2, <3>3, <3>4
    <3>6. CASE j = h BY <2>7, <3>1, <3>6
    <3>7. CASE j < h
      <4>1. k < b BY <1>8, <2>1, <2>7, <3>1, <3>7
      <4> QED BY <2>12, <3>2, <4>1
    <3> QED BY <3>5, <3>6, <3>7
  <2> QED BY <2>8, <2>10, <2>11, <2>12, <2>13, <2>14 DEF PrevUnder, a, b, n
<1> QED BY <1>14, <1>15, <1>16

\* In the leaf.
LEMMA PrevLeaf ==
    ASSUME Opened, NEW c, Steady(c), IsValid(c, Height), NEW v, v = PrevInLeaf(c)
    PROVE  PrevUnder(c, v, 0)
<1> DEFINE s == Items(c, 0)
           m == c[0].page
           i == c[0].cur
           a == KeyAt(c)
           h == i - 1
<1>1. FileOk(file) /\ Height \in Nat /\ 0 \in 0..Height /\ Standing(c)
  BY NodeKeys DEF Opened, Height, Steady
<1>2. /\ IsNode(file, m) /\ s = file[m].items /\ DOMAIN s = 1..Len(s) /\ Len(s) \in Nat
      /\ IsLeaf(file, m)
  BY <1>1, StandingFacts
<1>3. i \in 1..Len(s) BY <1>1, KeyUnder
<1>4. a = s[i].key BY DEF KeyAt
<1>5. h \in Nat /\ h \in 0..Len(s) /\ v = WithCur(c, 0, h) BY <1>2, <1>3 DEF None, PrevInLeaf
<1>6. (h = None <=> i = 1) /\ (h # None => h = i - 1 /\ h \in DOMAIN s) BY <1>2, <1>3 DEF None
<1> HIDE DEF h, s, m, i, a
<1>7. LeafMoved(c, v, h) BY <1>1, <1>5, LeafCur
<1>8. /\ Standing(v) /\ v[0].cur = h /\ SameAbove(c, v, 0) /\ Items(v, 0) = s
  BY <1>1, <1>7 DEF LeafMoved, s
<1>9. Steady(v) BY <1>5, <1>8 DEF Steady
<1>10. IsValid(v, 0) <=> h # None
  <2>1. \A x : x \in 0..0 <=> x = 0 OBVIOUS
  <2> QED BY <1>8, <2>1 DEF IsValid
<1>11. /\ KeysUnder(file, m) = ListKeys(s)
       /\ \A k \in KeysUnder(file, m) : k \in Int
  BY <1>1, <1>2, NodeKeys
<1>12. \A j, l \in DOMAIN s : j < l => s[j].key < s[l].key BY <1>1, <1>2, NodeKeys
<1>13. \A k \in KeysUnder(file, m) : \E j \in DOMAIN s : k = s[j].key BY <1>11 DEF ListKeys
<1>14. \A j \in DOMAIN s : s[j].key \in KeysUnder(file, m) /\ s[j].key \in Int BY <1>11 DEF ListKeys
<1>15. ASSUME h # None
       PROVE  /\ KeyAt(v) \in KeysUnder(file, m) /\ KeyAt(v) < a
              /\ \A k \in KeysUnder(file, m) : k < a => k <= KeyAt(v)
  <2>1. KeyAt(v) = s[h].key BY <1>8 DEF KeyAt
  <2>2. h \in DOMAIN s /\ i \in DOMAIN s /\ h < i /\ \A j \in DOMAIN s : i < j \/ j = i \/ j = h \/ j < h
    BY <1>2, <1>3, <1>6, <1>15
  <2>3. ASSUME NEW k \in KeysUnder(file, m), k < a
        PROVE  k <= s[h].key
    <3>1. PICK j \in DOMAIN s : k = s[j].key BY <1>13
    <3>2. CASE i < j \/ j = i
      <4>1. a < k \/ k = a BY <1>4, <1>12, <2>2, <3>1, <3>2
      <4>2. k \in Int /\ a \in Int BY <1>4, <1>14, <2>2, <3>1
      <4> QED BY <2>3, <4>1, <4>2
    <3>3. CASE j = h \/ j < h
      <4>1. k < s[h].key \/ k = s[h].key BY <1>12, <2>2, <3>1, <3>3
      <4>2. k \in Int /\ s[h].key \in Int BY <1>14, <2>2, <3>1
      <4> QED BY <4>1, <4>2
    <3> QED BY <2>2, <3>2, <3>3
  <2> QED BY <1>4, <1>12, <1>14, <2>1, <2>2, <2>3
<1>16. ASSUME h = None, NEW k \in KeysUnder(file, m)
       PROVE  a <= k
  <2>1. PICK j \in DOMAIN s : k = s[j].key BY <1>13
  <2>2. i \in DOMAIN s /\ (j = i \/ i < j) BY <1>2, <1>3, <1>6, <1>16
  <2>3. k = a \/ a < k BY <1>4, <1>12, <2>1, <2>2
  <2>4. k \in Int /\ a \in Int BY <1>4, <1>14, <2>1, <2>2
  <2> QED BY <2>3, <2>4
<1> QED BY <1>8, <1>9, <1>10, <1>15, <1>16 DEF PrevUnder, a, m

\* prev goes to the key before of the tree.
LEMMA PrevsExist ==
    ASSUME Opened, NEW c, Steady(c), IsValid(c, Height)
    PROVE  \E up : PrevsUp(c, up)
<1> DEFINE X == {v \in Places : Steady(v)}
           S == [e \in 0..Height |-> {v \in X : PrevUnder(c, v, e)}]
           g == [p \in (0..Height) \X X |-> PrevTurn(p[2], p[1])]
           leaf0 == PrevInLeaf(c)
<1>1. Height \in Nat /\ 0 \in 0..Height BY NodeKeys DEF Opened, Height
<1>2. \A v : Steady(v) => v \in X BY DEF Steady, Standing
<1>3. \A e \in 0..Height, v \in X : g[<<e, v>>] = PrevTurn(v, e) OBVIOUS
<1> HIDE DEF X
<1>4. \A e \in 0..Height : \A v : v \in S[e] <=> v \in X /\ PrevUnder(c, v, e) OBVIOUS
<1>5. leaf0 \in S[0]
  <2>1. PrevUnder(c, leaf0, 0) BY PrevLeaf
  <2> QED BY <1>1, <1>2, <1>4, <2>1 DEF PrevUnder
<1> HIDE DEF S, g, leaf0
<1>6. ASSUME NEW e \in 1..Height, NEW v \in S[e - 1]
      PROVE  g[<<e, v>>] \in S[e]
  <2>1. e \in 0..Height /\ e - 1 \in 0..Height BY <1>1
  <2>2. v \in X /\ PrevUnder(c, v, e - 1) BY <1>4, <2>1
  <2>3. PrevUnder(c, PrevTurn(v, e), e) BY <2>2, PrevStep
  <2>4. PrevTurn(v, e) \in X BY <1>2, <2>3 DEF PrevUnder
  <2> QED BY <1>3, <1>4, <2>1, <2>2, <2>3, <2>4
<1>7. PICK f : LoopsUp(f, leaf0, Height, g) /\ \A e \in 0..Height : f[e] \in S[e]
  BY <1>1, <1>5, <1>6, LoopUp
<1>8. f = [e \in 0..Height |-> IF e = 0 THEN leaf0 ELSE g[<<e, f[e - 1]>>]] BY <1>7 DEF LoopsUp
<1>9. \A e \in 0..Height : e # 0 => g[<<e, f[e - 1]>>] = PrevTurn(f[e - 1], e)
  <2> TAKE e \in 0..Height
  <2> HAVE e # 0
  <2>1. e - 1 \in 0..Height BY <1>1
  <2>2. f[e - 1] \in X BY <1>4, <1>7, <2>1
  <2> QED BY <1>3, <2>2
<1>10. PrevsUp(c, f) BY <1>8, <1>9 DEF PrevsUp, leaf0
<1> QED BY <1>10

LEMMA PrevGoes ==
    ASSUME Opened, NEW c, Steady(c), IsValid(c, Height), NEW v, v = PrevOf(c)
    PROVE  PrevUnder(c, v, Height)
<1> DEFINE up == CHOOSE x : PrevsUp(c, x)
<1>1. Height \in Nat /\ 0 \in 0..Height /\ Height \in 0..Height BY NodeKeys DEF Opened, Height
<1>2. v = up[Height] BY DEF PrevOf, PrevsUp, PrevInLeaf, PrevTurn, WithCur
<1>3. PrevsUp(c, up) BY PrevsExist
<1> HIDE DEF up
<1>4. \A e \in 0..Height : up[e] = IF e = 0 THEN PrevInLeaf(c) ELSE PrevTurn(up[e - 1], e)
  BY <1>3 DEF PrevsUp
<1> DEFINE P == {e \in 0..Height : PrevUnder(c, up[e], e)}
<1>5. 0 \in P
  <2>1. up[0] = PrevInLeaf(c) BY <1>1, <1>4
  <2>2. PrevUnder(c, up[0], 0) BY <2>1, PrevLeaf
  <2> QED BY <1>1, <2>2
<1>6. ASSUME NEW e \in 1..Height, e - 1 \in P
      PROVE  e \in P
  <2>1. e \in 0..Height /\ e # 0 BY <1>1
  <2>2. PrevUnder(c, up[e - 1], e - 1) BY <1>6
  <2>3. up[e] = PrevTurn(up[e - 1], e) BY <1>4, <2>1
  <2> DEFINE w == up[e - 1]
             u == up[e]
  <2>4. PrevUnder(c, w, e - 1) /\ u = PrevTurn(w, e) BY <2>2, <2>3
  <2> HIDE DEF w, u, P
  <2>5. PrevUnder(c, u, e) BY <2>4, PrevStep
  <2> QED BY <2>1, <2>5 DEF u, P
<1>7. \A e \in 0..Height : e \in P
  <2> HIDE DEF P
  <2> QED BY <1>1, <1>5, <1>6, CountUp
<1> QED BY <1>1, <1>2, <1>7

-----------------------------------------------------------------------------
(* The search in a leaf.                                                   *)

LEMMA SearchKeeps ==
    ASSUME NEW items, Sorts(items), NEW k \in Int, NEW n \in 1..Len(items), NEW s,
           SearchInv(items, k, s, n - 1)
    PROVE  SearchInv(items, k, SearchRound(s, items, k), n)
<1> DEFINE L == Len(items)
           h == Middle(s)
           u == SearchRound(s, items, k)
<1>1. /\ L \in Nat /\ DOMAIN items = 1..L /\ n \in Int
      /\ \A i \in DOMAIN items : items[i].key \in Int
      /\ \A i, j \in DOMAIN items : i < j => items[i].key < items[j].key
  BY DEF Sorts
<1>2. /\ s \in Searching /\ s.min \in Int /\ s.max \in Int /\ s.le \in Int /\ s.ge \in Int
      /\ 1 <= s.min /\ s.max <= L /\ s.min <= s.max + 1
      /\ s.le = s.min - 1 /\ s.ge = IF s.max = L THEN None ELSE s.max + 1
      /\ \A j \in DOMAIN items : (j < s.min => items[j].key < k) /\ (s.max < j => k < items[j].key)
      /\ s.min <= s.max => items[h].key = k \/ s.max - s.min + 1 <= L - (n - 1)
  BY DEF SearchInv, Searching
<1> HIDE DEF L
<1>3. CASE s.max < s.min
  <2>1. u = s BY <1>3 DEF SearchRound
  <2>2. ~(s.min <= s.max) BY <1>2, <1>3
  <2> QED BY <1>2, <2>1, <2>2 DEF SearchInv, L
<1>4. CASE ~(s.max < s.min) /\ items[h].key = k
  <2>1. u = s BY <1>4 DEF SearchRound
  <2> QED BY <1>2, <1>4, <2>1 DEF SearchInv, L
<1>5. CASE ~(s.max < s.min) /\ items[h].key # k
  <2>1. h \in Int /\ s.min <= h /\ h <= s.max BY <1>2, <1>5 DEF Middle
  <2>2. h \in DOMAIN items /\ s.max - s.min + 1 <= L - (n - 1) BY <1>1, <1>2, <1>5, <2>1
  <2>3. u = IF items[h].key < k THEN [s EXCEPT !.min = h + 1, !.le = h]
            ELSE [s EXCEPT !.max = h - 1, !.ge = h]
    BY <1>5 DEF SearchRound, Narrow
  <2> HIDE DEF h, u
  <2>4. CASE items[h].key < k
    <3>1. u = [s EXCEPT !.min = h + 1, !.le = h] BY <2>3, <2>4
    <3>5. u = [min |-> h + 1, max |-> s.max, le |-> h, ge |-> s.ge] BY <1>2, <3>1 DEF Searching
    <3>6. u.min = h + 1 /\ u.le = h /\ u.max = s.max /\ u.ge = s.ge BY <3>5
    <3>7. u \in Searching BY <1>2, <2>1, <3>5 DEF Searching
    <3>2. u \in Searching /\ u.min = h + 1 /\ u.le = h /\ u.max = s.max /\ u.ge = s.ge BY <3>6, <3>7
    <3>8. 1 <= u.min /\ u.max <= L /\ u.min <= u.max + 1 /\ u.le = u.min - 1
      BY <1>1, <1>2, <2>1, <3>2
    <3>9. u.max - u.min + 1 <= L - n
      <4>1. s.max - (h + 1) + 1 <= s.max - s.min BY <1>2, <2>1
      <4>2. s.max - s.min <= L - n BY <1>1, <1>2, <2>2
      <4> QED BY <1>1, <1>2, <2>1, <3>2, <4>1, <4>2
    <3>3. 1 <= u.min /\ u.max <= L /\ u.min <= u.max + 1 /\ u.le = u.min - 1
          /\ u.max - u.min + 1 <= L - n
      BY <3>8, <3>9
    <3>4. ASSUME NEW j \in DOMAIN items, j < u.min
          PROVE  items[j].key < k
      <4>1. j = h \/ j < h BY <1>1, <2>1, <3>2, <3>4
      <4>2. CASE j = h BY <2>4, <4>2
      <4>3. CASE j < h
        <5>1. items[j].key < items[h].key BY <1>1, <2>2, <4>3
        <5>2. items[j].key \in Int /\ items[h].key \in Int BY <1>1, <2>2
        <5> QED BY <2>4, <5>1, <5>2
      <4> QED BY <4>1, <4>2, <4>3
    <3> QED BY <1>2, <3>2, <3>3, <3>4 DEF SearchInv, L, u
  <2>5. CASE ~(items[h].key < k)
    <3>1. u = [s EXCEPT !.max = h - 1, !.ge = h] BY <2>3, <2>5
    <3>5. u = [min |-> s.min, max |-> h - 1, le |-> s.le, ge |-> h] BY <1>2, <3>1 DEF Searching
    <3>6. u.min = s.min /\ u.le = s.le /\ u.max = h - 1 /\ u.ge = h BY <3>5
    <3>7. u \in Searching BY <1>2, <2>1, <3>5 DEF Searching
    <3>2. u \in Searching /\ u.min = s.min /\ u.le = s.le /\ u.max = h - 1 /\ u.ge = h BY <3>6, <3>7
    <3>3. 1 <= u.min /\ u.max <= L /\ u.min <= u.max + 1 /\ u.max # L /\ u.ge = u.max + 1
          /\ u.max - u.min + 1 <= L - n
      <4>1. 1 <= u.min /\ u.max <= L /\ u.min <= u.max + 1 /\ u.max # L /\ u.ge = u.max + 1
        BY <1>1, <1>2, <2>1, <3>2
      <4>2. u.max - u.min + 1 <= s.max - s.min BY <1>2, <2>1, <3>2
      <4>3. s.max - s.min <= L - n BY <1>1, <1>2, <2>2
      <4>4. u.max - u.min + 1 <= L - n BY <1>1, <1>2, <2>1, <3>2, <4>2, <4>3
      <4> QED BY <4>1, <4>4
    <3>4. ASSUME NEW j \in DOMAIN items, u.max < j
          PROVE  k < items[j].key
      <4>1. j = h \/ h < j BY <1>1, <2>1, <3>2, <3>4
      <4>2. items[j].key \in Int /\ items[h].key \in Int /\ k < items[h].key BY <1>1, <1>5, <2>2, <2>5
      <4>3. CASE j = h BY <4>2, <4>3
      <4>4. CASE h < j
        <5>1. items[h].key < items[j].key BY <1>1, <2>2, <4>4
        <5> QED BY <4>2, <5>1
      <4> QED BY <4>1, <4>3, <4>4
    <3> QED BY <1>2, <3>2, <3>3, <3>4 DEF SearchInv, L, u
  <2> QED BY <2>4, <2>5
<1> QED BY <1>3, <1>4, <1>5

LEMMA SearchRoundsExist ==
    ASSUME NEW items, Sorts(items), NEW k \in Int
    PROVE  \E round : SearchRounds(items, k, round)
<1> DEFINE L == Len(items)
           S == [n \in 0..L |-> {s \in Searching : SearchInv(items, k, s, n)}]
           g == [p \in (0..L) \X Searching |-> SearchRound(p[2], items, k)]
           all == [min |-> 1, max |-> L, le |-> None, ge |-> None]
<1>1. L \in Nat /\ 0 \in 0..L /\ L >= 1 /\ DOMAIN items = 1..L BY DEF Sorts
<1>2. \A n \in 0..L, s \in Searching : g[<<n, s>>] = SearchRound(s, items, k) OBVIOUS
<1>3. \A n \in 0..L : \A s : s \in S[n] <=> s \in Searching /\ SearchInv(items, k, s, n) OBVIOUS
<1>4. all \in S[0]
  <2>1. /\ all \in Searching /\ all.min = 1 /\ all.max = L /\ all.le = 0 /\ all.ge = 0
    BY <1>1 DEF Searching, None
  <2> HIDE DEF all, S, g
  <2>2. SearchInv(items, k, all, 0) BY <1>1, <2>1 DEF SearchInv, None
  <2> QED BY <1>1, <1>3, <2>1, <2>2
<1> HIDE DEF S, g, all, L
<1>5. ASSUME NEW n \in 1..L, NEW s \in S[n - 1]
      PROVE  g[<<n, s>>] \in S[n]
  <2>1. n \in 0..L /\ n - 1 \in 0..L BY <1>1
  <2>2. s \in Searching /\ SearchInv(items, k, s, n - 1) BY <1>3, <2>1
  <2>3. SearchInv(items, k, SearchRound(s, items, k), n) BY <2>2, SearchKeeps DEF L
  <2>4. SearchRound(s, items, k) \in Searching BY <2>3 DEF SearchInv
  <2> QED BY <1>2, <1>3, <2>1, <2>2, <2>3, <2>4
<1>6. PICK f : LoopsUp(f, all, L, g) /\ \A n \in 0..L : f[n] \in S[n] BY <1>1, <1>4, <1>5, LoopUp
<1>7. f = [n \in 0..L |-> IF n = 0 THEN all ELSE g[<<n, f[n - 1]>>]] BY <1>6 DEF LoopsUp
<1>8. \A n \in 0..L : n # 0 => g[<<n, f[n - 1]>>] = SearchRound(f[n - 1], items, k)
  <2> TAKE n \in 0..L
  <2> HAVE n # 0
  <2>1. n - 1 \in 0..L BY <1>1
  <2>2. f[n - 1] \in Searching BY <1>3, <1>6, <2>1
  <2> QED BY <1>2, <2>2
<1>9. SearchRounds(items, k, f) BY <1>7, <1>8 DEF SearchRounds, all, L
<1> QED BY <1>9

\* LeafPage::search: the key itself, or the nearest one on the side that is asked for.
LEMMA SearchGoes ==
    ASSUME NEW items, Sorts(items), NEW k \in Int, NEW op \in {"EQ", "LE", "GE"}
    PROVE  SearchFinds(items, k, op, Search(items, k, op))
<1> DEFINE round == CHOOSE x : SearchRounds(items, k, x)
           L == Len(items)
           end == round[L]
           h == Middle(end)
           i == Search(items, k, op)
<1>1. i = IF ~(end.max < end.min) /\ items[h].key = k THEN h
          ELSE CASE op = "EQ" -> None [] op = "LE" -> end.le [] op = "GE" -> end.ge
  BY DEF Search, SearchRounds, SearchRound
<1>2. SearchRounds(items, k, round) BY SearchRoundsExist
<1> HIDE DEF round
<1>3. L \in Nat /\ 0 \in 0..L /\ L \in 0..L /\ L >= 1 /\ DOMAIN items = 1..L BY DEF Sorts
<1>4. \A n \in 0..L : round[n] = IF n = 0 THEN [min |-> 1, max |-> L, le |-> None, ge |-> None]
                                 ELSE SearchRound(round[n - 1], items, k)
  BY <1>2 DEF SearchRounds
<1> DEFINE P == {n \in 0..L : SearchInv(items, k, round[n], n)}
<1>5. 0 \in P
  <2> DEFINE all == round[0]
  <2>1. all = [min |-> 1, max |-> L, le |-> None, ge |-> None] BY <1>3, <1>4
  <2>2. /\ all \in Searching /\ all.min = 1 /\ all.max = L /\ all.le = 0 /\ all.ge = 0
    BY <1>3, <2>1 DEF Searching, None
  <2> HIDE DEF all
  <2>3. SearchInv(items, k, all, 0) BY <1>3, <2>2 DEF SearchInv, None
  <2> QED BY <1>3, <2>3 DEF all
<1>6. ASSUME NEW n \in 1..L, n - 1 \in P
      PROVE  n \in P
  <2>1. n \in 0..L /\ n # 0 BY <1>3
  <2>2. round[n] = SearchRound(round[n - 1], items, k) BY <1>4, <2>1
  <2> DEFINE s == round[n - 1]
  <2>3. SearchInv(items, k, s, n - 1) /\ round[n] = SearchRound(s, items, k) BY <1>6, <2>2
  <2> HIDE DEF s
  <2>4. SearchInv(items, k, round[n], n) BY <2>3, SearchKeeps
  <2> QED BY <2>1, <2>4
<1>7. \A n \in 0..L : n \in P
  <2> HIDE DEF P
  <2> QED BY <1>3, <1>5, <1>6, CountUp
<1>8. SearchInv(items, k, end, L) BY <1>3, <1>7
<1> HIDE DEF end, P
<1>9. /\ end.min \in Int /\ end.max \in Int /\ end.le \in Int /\ end.ge \in Int
      /\ 1 <= end.min /\ end.max <= L /\ end.min <= end.max + 1
      /\ end.le = end.min - 1 /\ end.ge = IF end.max = L THEN None ELSE end.max + 1
      /\ \A j \in DOMAIN items : (j < end.min => items[j].key < k) /\ (end.max < j => k < items[j].key)
      /\ end.min <= end.max => items[h].key = k \/ end.max - end.min + 1 <= L - L
  BY <1>8 DEF SearchInv, Searching
<1> HIDE DEF i, L
<1>10. \A m : m \in ListKeys(items) <=> \E j \in DOMAIN items : m = items[j].key BY DEF ListKeys
<1>11. \A j \in DOMAIN items : items[j].key \in Int BY DEF Sorts
<1>12. \A j, l \in DOMAIN items : j < l => items[j].key < items[l].key BY DEF Sorts
<1>13. CASE ~(end.max < end.min) /\ items[h].key = k
  <2>1. i = h BY <1>1, <1>13
  <2>2. h \in Int /\ end.min <= h /\ h <= end.max BY <1>9, <1>13 DEF Middle
  <2>3. h \in DOMAIN items /\ h # None /\ h \in 0..L BY <1>3, <1>9, <2>2 DEF None
  <2> HIDE DEF h
  <2>4. k \in ListKeys(items) BY <1>10, <1>13, <2>3
  <2>5. IsTarget(ListKeys(items), k, op, items[h].key)
    <3>1. k <= k OBVIOUS
    <3> QED BY <1>13, <2>4, <3>1 DEF IsTarget
  <2> QED BY <2>1, <2>3, <2>5 DEF SearchFinds, L, i
<1>14. CASE ~(~(end.max < end.min) /\ items[h].key = k)
  <2>1. end.max = end.min - 1 BY <1>3, <1>9, <1>14
  <2>2. \A j \in DOMAIN items : (j < end.min => items[j].key < k) /\ (end.min <= j => k < items[j].key)
    BY <1>3, <1>9, <2>1
  <2>3. k \notin ListKeys(items)
    <3>1. \A j \in DOMAIN items : items[j].key # k BY <1>3, <1>9, <1>11, <2>2
    <3> QED BY <1>10, <3>1
  <2>4. CASE op = "EQ"
    <3>1. i = None BY <1>1, <1>14, <2>4
    <3>2. NoTarget(ListKeys(items), k, op) BY <2>3, <2>4 DEF NoTarget
    <3> QED BY <1>3, <3>1, <3>2 DEF SearchFinds, None, L, i
  <2>5. CASE op = "LE"
    <3>1. i = end.min - 1 /\ i \in Int /\ i \in 0..L BY <1>1, <1>3, <1>9, <1>14, <2>1, <2>5
    <3>2. CASE i = None
      <4>1. \A j \in DOMAIN items : k < items[j].key BY <1>3, <1>9, <2>2, <3>1, <3>2 DEF None
      <4>2. NoTarget(ListKeys(items), k, op) BY <1>10, <2>5, <4>1 DEF NoTarget
      <4> QED BY <3>1, <3>2, <4>2 DEF SearchFinds, L, i
    <3>3. CASE i # None
      <4>1. i \in DOMAIN items /\ i < end.min BY <1>3, <1>9, <3>1, <3>3 DEF None
      <4>2. items[i].key \in ListKeys(items) /\ items[i].key <= k BY <1>10, <1>11, <2>2, <4>1
      <4>3. ASSUME NEW m \in ListKeys(items), m <= k
            PROVE  m <= items[i].key
        <5>1. PICK j \in DOMAIN items : m = items[j].key BY <1>10
        <5>2. ~(end.min <= j) BY <1>11, <2>2, <4>3, <5>1
        <5>3. j = i \/ j < i BY <1>3, <1>9, <3>1, <5>2
        <5> QED BY <1>11, <1>12, <4>1, <5>1, <5>3
      <4>4. IsTarget(ListKeys(items), k, op, items[i].key) BY <2>5, <4>2, <4>3 DEF IsTarget
      <4> QED BY <3>1, <3>3, <4>4 DEF SearchFinds, L, i
    <3> QED BY <3>2, <3>3
  <2>6. CASE op = "GE"
    <3>1. i = (IF end.max = L THEN None ELSE end.max + 1) /\ i \in Int /\ i \in 0..L
      BY <1>1, <1>3, <1>9, <1>14, <2>1, <2>6 DEF None
    <3>2. CASE end.max = L
      <4>1. \A j \in DOMAIN items : items[j].key < k BY <1>3, <1>9, <2>1, <2>2, <3>2
      <4>2. NoTarget(ListKeys(items), k, op) BY <1>10, <2>6, <4>1 DEF NoTarget
      <4>3. i = None BY <3>1, <3>2
      <4> QED BY <3>1, <4>2, <4>3 DEF SearchFinds, L, i
    <3>3. CASE end.max # L
      <4>1. i = end.min /\ i \in DOMAIN items /\ i # None BY <1>3, <1>9, <2>1, <3>1, <3>3 DEF None
      <4>2. items[i].key \in ListKeys(items) /\ k <= items[i].key BY <1>9, <1>10, <1>11, <2>2, <4>1
      <4>3. ASSUME NEW m \in ListKeys(items), k <= m
            PROVE  items[i].key <= m
        <5>1. PICK j \in DOMAIN items : m = items[j].key BY <1>10
        <5>2. ~(j < end.min) BY <1>11, <2>2, <4>3, <5>1
        <5>3. j = i \/ i < j BY <1>3, <1>9, <4>1, <5>2
        <5> QED BY <1>11, <1>12, <4>1, <5>1, <5>3
      <4>4. IsTarget(ListKeys(items), k, op, items[i].key) BY <2>6, <4>2, <4>3 DEF IsTarget
      <4> QED BY <3>1, <4>1, <4>4 DEF SearchFinds, L, i
    <3> QED BY <3>2, <3>3
  <2> QED BY <2>4, <2>5, <2>6
<1> QED BY <1>13, <1>14

-----------------------------------------------------------------------------
(* seek.                                                                   *)

\* The first child whose last key is not before k; when there is none every key is.
LEMMA ReachFacts ==
    ASSUME Opened, NEW v, Standing(v), NEW d \in 1..Height, NEW k \in Int
    PROVE  /\ Reach(v, d, k) = {} => \A m \in KeysUnder(file, v[d].page) : m < k
           /\ Reach(v, d, k) # {} =>
                /\ FirstReach(v, d, k) \in 1..Len(Items(v, d))
                /\ k <= Items(v, d)[FirstReach(v, d, k)].key
                /\ \A j \in DOMAIN Items(v, d) : j < FirstReach(v, d, k) => Items(v, d)[j].key < k
<1> DEFINE n == v[d].page
           s == Items(v, d)
           R == Reach(v, d, k)
<1>1. FileOk(file) /\ Height \in Nat /\ d \in 0..Height /\ d > 0 BY NodeKeys DEF Opened, Height
<1>2. IsNode(file, n) /\ IsInner(file, n) /\ s = file[n].items /\ DOMAIN s = 1..Len(s) /\ Len(s) \in Nat
  BY <1>1, StandingFacts
<1>3. \A i : i \in R <=> i \in DOMAIN s /\ k <= s[i].key BY DEF Reach
<1>4. FirstReach(v, d, k) = CHOOSE i \in R : \A m \in R : i <= m BY DEF FirstReach
<1> HIDE DEF n, s, R
<1>5. \A i \in DOMAIN s : s[i].key \in Int /\ \A m \in KeysUnder(file, s[i].page) : m <= s[i].key
  BY <1>1, <1>2, ParentKeys
<1>6. \A m \in KeysUnder(file, n) : m \in Int BY <1>1, <1>2, NodeKeys
<1>7. \A m \in KeysUnder(file, n) : \E i \in DOMAIN s : m \in KeysUnder(file, s[i].page)
  BY <1>1, <1>2, ParentKeys
<1>8. ASSUME R = {}, NEW m \in KeysUnder(file, n)
      PROVE  m < k
  <2>1. PICK i \in DOMAIN s : m \in KeysUnder(file, s[i].page) BY <1>7
  <2>2. m <= s[i].key /\ ~(k <= s[i].key) BY <1>3, <1>5, <1>8, <2>1
  <2> QED BY <1>5, <1>6, <2>2
<1>9. ASSUME R # {}
      PROVE  \E i \in R : \A m \in R : i <= m
  <2> DEFINE N == Len(s)
  <2>1. R \subseteq 1..N /\ N \in Int /\ 1 \in Int BY <1>2, <1>3
  <2> HIDE DEF N
  <2>2. PICK i \in R : \A m \in 1..i - 1 : m \notin R BY <1>9, <2>1, LeastNumber
  <2>3. \A m \in R : i <= m BY <2>1, <2>2
  <2> QED BY <2>2, <2>3
<1>10. ASSUME R # {}
       PROVE  /\ FirstReach(v, d, k) \in 1..Len(s) /\ k <= s[FirstReach(v, d, k)].key
              /\ \A j \in DOMAIN s : j < FirstReach(v, d, k) => s[j].key < k
  <2> DEFINE i == FirstReach(v, d, k)
  <2>1. i \in R /\ \A m \in R : i <= m BY <1>4, <1>9, <1>10
  <2> HIDE DEF i
  <2>2. i \in DOMAIN s /\ k <= s[i].key BY <1>3, <2>1
  <2>3. ASSUME NEW j \in DOMAIN s, j < i
        PROVE  s[j].key < k
    <3>1. j \in Int /\ i \in Int BY <1>2, <2>2
    <3>2. ~(k <= s[j].key) BY <1>3, <2>1, <2>3, <3>1
    <3> QED BY <1>5, <3>2
  <2> QED BY <1>2, <2>2, <2>3 DEF i
<1> QED BY <1>8, <1>10 DEF n, s, R

\* A cursor may have no current child.
LEMMA NoChild ==
    ASSUME Opened, NEW v, Standing(v), NEW d \in 1..Height, NEW u, u = WithCur(v, d, None)
    PROVE  Standing(u)
<1> DEFINE z == None
<1>1. Height \in Nat /\ d \in 0..Height /\ v \in Places /\ z \in Nat /\ u = WithCur(v, d, z)
  BY NodeKeys DEF Opened, Height, Standing, None
<1> HIDE DEF z
<1>2. /\ u \in Places /\ u[d].page = v[d].page /\ u[d].cur = z
      /\ \A e \in 0..Height : e # d => u[e] = v[e]
      /\ \A e \in 0..Height : u[e].page = v[e].page
  <2>1. CurIs(v, WithCur(v, d, z), d, z) BY <1>1, SetCur
  <2>2. CurIs(v, u, d, z) BY <1>1, <2>1
  <2>3. Height \in Nat BY <1>1
  <2> QED BY <2>2, <2>3 DEF CurIs
<1>3. Height \in 0..Height /\ \A e \in 1..Height : e \in 0..Height /\ e - 1 \in 0..Height BY <1>1
<1>4. u[Height].page = lower BY <1>2, <1>3 DEF Standing
<1>5. \A e \in 0..Height : IsNode(file, u[e].page) /\ file[u[e].page].depth = e BY <1>2 DEF Standing
<1>6. ASSUME NEW e \in 1..Height, u[e].cur # None
      PROVE  u[e].cur \in DOMAIN Items(u, e) /\ u[e - 1].page = Child(u, e)
  <2>1. e # d BY <1>2, <1>6 DEF z
  <2>2. u[e] = v[e] /\ u[e - 1].page = v[e - 1].page BY <1>2, <1>3, <2>1
  <2>3. v[e].cur \in DOMAIN Items(v, e) /\ v[e - 1].page = Child(v, e) BY <1>6, <2>2 DEF Standing
  <2> QED BY <2>2, <2>3 DEF Items, Child
<1> QED BY <1>2, <1>4, <1>5, <1>6 DEF Standing

\* At the end of what there is.
LEMMA SeekBehind ==
    ASSUME Opened, NEW v, Steady(v), NEW d \in 1..Height, NEW k \in Int, NEW op \in {"EQ", "LE", "GE"},
           Reach(v, d, k) = {}, NEW below
    PROVE  SeekUnder(v, SeekUp(v, below, d, k, op), d, k, op)
<1> DEFINE x == SeekUp(v, below, d, k, op)
           n == v[d].page
           K == KeysUnder(file, n)
<1>1. FileOk(file) /\ Height \in Nat /\ d \in 0..Height /\ d > 0 /\ Standing(v) /\ d \in 0..d
      /\ 0 \in 0..Height
  BY NodeKeys DEF Opened, Height, Steady
<1>2. \A m \in K : m < k BY <1>1, ReachFacts
<1>3. \A m \in K : m \in Int
  <2>1. IsNode(file, n) BY <1>1, StandingFacts
  <2> QED BY <1>1, <2>1, NodeKeys
<1> HIDE DEF K
<1>4. CASE op = "LE"
  <2> DEFINE u == LastOf(v, d)
  <2>1. x = Sought(u, "unequal") BY <1>4 DEF SeekUp
  <2>2. /\ Standing(u) /\ SameAbove(v, u, d) /\ IsValid(u, d)
        /\ u[0].cur \in 1..Len(Items(u, 0)) /\ KeyAt(u) \in K
        /\ \A m \in K : m <= KeyAt(u)
    BY <1>1, LastGoes DEF K
  <2> HIDE DEF u, x
  <2>3. x.c = u /\ x.result = "unequal" BY <2>1 DEF Sought
  <2>4. Steady(u)
    <3>1. u[0].cur \in 0..Len(Items(u, 0)) BY <2>2
    <3> QED BY <2>2, <3>1 DEF Steady
  <2>5. KeyAt(u) < k /\ KeyAt(u) \in Int BY <1>2, <1>3, <2>2
  <2>6. KeyAt(u) # k /\ KeyAt(u) <= k BY <2>5
  <2>7. IsTarget(K, k, op, KeyAt(u)) BY <1>4, <2>2, <2>6 DEF IsTarget
  <2> QED BY <2>2, <2>3, <2>4, <2>6, <2>7 DEF SeekUnder, x, K
<1>5. CASE op # "LE"
  <2> DEFINE u == WithCur(v, d, 0)
  <2>1. x = Sought(u, "invalid") BY <1>5 DEF SeekUp, None
  <2>2. v \in Places BY <1>1 DEF Standing
  <2>3. /\ u \in Places /\ u[d].page = v[d].page /\ u[d].cur = 0
        /\ \A e \in 0..Height : e # d => u[e] = v[e]
        /\ \A e \in 0..Height : u[e].page = v[e].page
    <3>1. CurIs(v, u, d, 0) BY <1>1, <2>2, SetCur
    <3> HIDE DEF u
    <3> QED BY <3>1 DEF CurIs
  <2> HIDE DEF u, x
  <2>4. x.c = u /\ x.result = "invalid" BY <2>1 DEF Sought
  <2>5. Standing(u) BY <1>1, NoChild DEF u, None
  <2>6. Steady(u)
    <3>1. 0 # d BY <1>1
    <3>2. u[0] = v[0] BY <1>1, <2>3, <3>1
    <3>3. v[0].cur \in 0..Len(Items(v, 0)) BY DEF Steady
    <3> QED BY <2>5, <3>2, <3>3 DEF Steady, Items
  <2>7. SameAbove(v, u, d)
    <3>1. \A e \in 0..Height : e > d => e # d BY <1>1
    <3> QED BY <2>3, <3>1 DEF SameAbove
  <2>8. ~IsValid(u, d) BY <1>1, <2>3 DEF IsValid, None
  <2>9. NoTarget(K, k, op)
    <3>1. k \notin K BY <1>2
    <3> QED BY <1>2, <1>5, <3>1 DEF NoTarget
  <2> QED BY <2>4, <2>6, <2>7, <2>8, <2>9 DEF SeekUnder, x, K
<1> QED BY <1>4, <1>5

\* In the leaf.
LEMMA SeekLeaf ==
    ASSUME Opened, NEW v, Standing(v), NEW k \in Int, NEW op \in {"EQ", "LE", "GE"}
    PROVE  SeekUnder(v, SeekInLeaf(v, k, op), 0, k, op)
<1> DEFINE s == Items(v, 0)
           m == v[0].page
           i == Search(s, k, op)
           x == SeekInLeaf(v, k, op)
           u == WithCur(v, 0, i)
<1>1. FileOk(file) /\ Height \in Nat /\ 0 \in 0..Height BY NodeKeys DEF Opened, Height
<1>2. /\ IsNode(file, m) /\ s = file[m].items /\ DOMAIN s = 1..Len(s) /\ Len(s) \in Nat /\ Len(s) >= 1
      /\ IsLeaf(file, m)
  BY <1>1, StandingFacts
<1>3. x = Sought(u, IF i = None THEN "invalid" ELSE IF s[i].key = k THEN "equal" ELSE "unequal")
  BY DEF SeekInLeaf, WithCur
<1> HIDE DEF s, m, u, x
<1>4. KeysUnder(file, m) = ListKeys(s) BY <1>1, <1>2, NodeKeys
<1>5. \A j, l \in DOMAIN s : j < l => s[j].key < s[l].key BY <1>1, <1>2, NodeKeys
<1>6. \A j \in DOMAIN s : s[j].key \in Int
  <2>1. \A q \in KeysUnder(file, m) : q \in Int BY <1>1, <1>2, NodeKeys
  <2> QED BY <1>4, <2>1 DEF ListKeys
<1>7. Sorts(s) BY <1>2, <1>5, <1>6 DEF Sorts
<1>8. SearchFinds(s, k, op, i) BY <1>7, SearchGoes
<1> HIDE DEF i
<1>9. i \in 0..Len(s) /\ i \in Nat BY <1>2, <1>8 DEF SearchFinds
<1>10. LeafMoved(v, u, i) BY <1>9, LeafCur DEF u
<1>11. Standing(u) /\ u[0].cur = i /\ SameAbove(v, u, 0) /\ Items(u, 0) = s
  BY <1>1, <1>10 DEF LeafMoved, s
<1>12. Steady(u) BY <1>9, <1>11 DEF Steady
<1>13. IsValid(u, 0) <=> i # None
  <2>1. \A e : e \in 0..0 <=> e = 0 OBVIOUS
  <2> QED BY <1>11, <2>1 DEF IsValid
<1>14. KeyAt(u) = s[i].key BY <1>11 DEF KeyAt
<1>15. x.c = u /\ x.result = IF i = None THEN "invalid" ELSE IF s[i].key = k THEN "equal" ELSE "unequal"
  BY <1>3 DEF Sought
<1>16. CASE i = None
  <2>1. NoTarget(KeysUnder(file, m), k, op) BY <1>4, <1>8, <1>16 DEF SearchFinds
  <2> QED BY <1>11, <1>12, <1>13, <1>15, <1>16, <2>1 DEF SeekUnder, x, m
<1>17. CASE i # None
  <2>1. IsTarget(KeysUnder(file, m), k, op, s[i].key) BY <1>4, <1>8, <1>17 DEF SearchFinds
  <2> QED BY <1>11, <1>12, <1>13, <1>14, <1>15, <1>17, <2>1 DEF SeekUnder, x, m
<1> QED BY <1>16, <1>17

\* At one more depth: below is what was found in the child where k has to be.
LEMMA SeekStep ==
    ASSUME Opened, NEW v, Standing(v), NEW d \in 1..Height, NEW k \in Int, NEW op \in {"EQ", "LE", "GE"},
           Reach(v, d, k) # {}, NEW z, z = SeekDown(v, d, k),
           NEW below, SeekUnder(z, below, d - 1, k, op)
    PROVE  SeekUnder(v, SeekUp(v, below, d, k, op), d, k, op)
<1> DEFINE n == v[d].page
           s == Items(v, d)
           K == KeysUnder(file, n)
           i == FirstReach(v, d, k)
           D == d - 1
           M == KeysUnder(file, s[i].page)
           x == SeekUp(v, below, d, k, op)
           c == below.c
<1>1. /\ FileOk(file) /\ Height \in Nat /\ D \in 0..Height /\ d \in 0..Height /\ d \in Nat /\ d > D
      /\ d > 0 /\ D < d /\ 0 \in 0..Height /\ D \in 0..d /\ d \in 0..d
      /\ \A e \in 0..d : e = d \/ e \in 0..D
      /\ \A e \in 0..D : e \in 0..d /\ e \in 0..Height
  BY NodeKeys DEF Opened, Height
<1>2. /\ IsNode(file, n) /\ IsInner(file, n) /\ s = file[n].items /\ DOMAIN s = 1..Len(s)
      /\ Len(s) \in Nat
  BY <1>1, StandingFacts
<1>3. i \in 1..Len(s) /\ k <= s[i].key /\ \A j \in DOMAIN s : j < i => s[j].key < k
  BY ReachFacts
<1>4. z = SetChild(v, d, i) BY DEF SeekDown
<1>5. x = SeekFrom(below, d, op) BY DEF SeekUp
<1> HIDE DEF i, x
<1>6. /\ Standing(z) /\ SameAbove(v, z, d) /\ z[d].cur = i /\ z[D].page = s[i].page
  BY <1>3, <1>4, SetChildGoes
<1>7. SeekUnder(z, below, D, k, op) OBVIOUS
<1> HIDE DEF D
<1>8. /\ Steady(c) /\ SameAbove(z, c, D)
      /\ IsValid(c, D) => IsTarget(M, k, op, KeyAt(c)) /\ below.result = IF KeyAt(c) = k THEN "equal" ELSE "unequal"
      /\ ~IsValid(c, D) => NoTarget(M, k, op) /\ below.result = "invalid"
  BY <1>6, <1>7 DEF SeekUnder
<1> HIDE DEF c
<1>9. c[d] = z[d] /\ c[d].cur = i /\ c[d].page = n /\ Items(c, d) = s /\ SameAbove(v, c, d)
  <2>1. c[d] = z[d] BY <1>1, <1>8 DEF SameAbove
  <2>2. z[d].page = n BY <1>6 DEF SameAbove
  <2>3. SameAbove(v, c, d)
    <3>1. ASSUME NEW e \in 0..Height, e > d
          PROVE  c[e] = v[e]
      <4>1. e > D BY <1>1, <3>1
      <4>2. c[e] = z[e] /\ z[e] = v[e] BY <1>6, <1>8, <3>1, <4>1 DEF SameAbove
      <4> QED BY <4>2
    <3> QED BY <2>1, <2>2, <3>1 DEF SameAbove
  <2> QED BY <1>6, <2>1, <2>2, <2>3 DEF Items
<1>10. /\ \A j \in DOMAIN s : KeysUnder(file, s[j].page) \subseteq K
       /\ \A m \in K : \E j \in DOMAIN s : m \in KeysUnder(file, s[j].page)
       /\ \A j, l \in DOMAIN s : j < l =>
            \A m \in KeysUnder(file, s[j].page), q \in KeysUnder(file, s[l].page) : m < q
       /\ \A j \in DOMAIN s : s[j].key \in Int /\ s[j].key \in KeysUnder(file, s[j].page)
       /\ \A j \in DOMAIN s : \A m \in KeysUnder(file, s[j].page) : m <= s[j].key
  BY <1>1, <1>2, ParentKeys
<1>11. \A m \in K : m \in Int BY <1>1, <1>2, NodeKeys
<1> HIDE DEF n, s, K
<1>12. i \in DOMAIN s /\ i \in Int /\ i # None /\ \A j \in DOMAIN s : j \in Int BY <1>2, <1>3 DEF None
\* A key of the tree is before k, under that child, or after k and all that is there.
<1>13. \A m \in K : \/ m < k /\ \A q \in M : m < q
                    \/ m \in M
                    \/ k < m /\ \A q \in M : q < m
  <2> TAKE m \in K
  <2>1. PICK j \in DOMAIN s : m \in KeysUnder(file, s[j].page) BY <1>10
  <2>2. j < i \/ j = i \/ i < j BY <1>12
  <2>3. m \in Int BY <1>11
  <2>4. CASE j < i
    <3>1. s[j].key < k /\ m <= s[j].key /\ s[j].key \in Int BY <1>3, <1>10, <2>1, <2>4
    <3>2. m < k BY <2>3, <3>1
    <3> QED BY <1>10, <1>12, <2>1, <2>4, <3>2
  <2>5. CASE j = i BY <2>1, <2>5
  <2>6. CASE i < j
    <3>1. s[i].key \in M /\ s[i].key \in Int BY <1>10, <1>12
    <3>2. \A q \in M : q < m BY <1>10, <1>12, <2>1, <2>6
    <3>3. k < m BY <1>3, <2>3, <3>1, <3>2
    <3> QED BY <3>2, <3>3
  <2> QED BY <2>2, <2>4, <2>5, <2>6
<1>14. M \subseteq K /\ \E q \in M : k <= q BY <1>3, <1>10, <1>12
<1>15. \A m \in M : m \in Int BY <1>11, <1>14
<1>16. CASE i > 1 /\ op = "LE" /\ below.result = "invalid"
  <2> DEFINE h == i - 1
             w == SetChild(c, d, h)
             u == LastOf(w, D)
             H == KeysUnder(file, s[h].page)
  <2>1. x = Sought(u, "unequal") BY <1>5, <1>9, <1>16 DEF SeekFrom, c, D
  <2>2. h \in 1..Len(s) /\ h \in DOMAIN s /\ h < i /\ h # None /\ h \in Int BY <1>2, <1>3, <1>16 DEF None
  <2> HIDE DEF h
  <2>3. Standing(c) /\ h \in 1..Len(Items(c, d)) BY <1>8, <1>9, <2>2 DEF Steady
  <2>4. /\ Standing(w) /\ SameAbove(c, w, d) /\ w[d].cur = h /\ w[d - 1].page = Items(c, d)[h].page
    BY <2>3, SetChildGoes
  <2>5. w[D].page = s[h].page BY <1>9, <2>4 DEF D
  <2> HIDE DEF w
  <2>6. /\ Standing(u) /\ SameAbove(w, u, D) /\ IsValid(u, D)
        /\ u[0].cur \in 1..Len(Items(u, 0)) /\ KeyAt(u) \in KeysUnder(file, w[D].page)
        /\ \A m \in KeysUnder(file, w[D].page) : m <= KeyAt(u)
    BY <1>1, <2>4, LastGoes
  <2> DEFINE t == KeyAt(u)
  <2>7. t \in H /\ \A m \in H : m <= t BY <2>5, <2>6
  <2> HIDE DEF u
  <2>8. x.c = u /\ x.result = "unequal" BY <2>1 DEF Sought
  <2>9. Steady(u)
    <3>1. u[0].cur \in 0..Len(Items(u, 0)) BY <2>6
    <3> QED BY <2>6, <3>1 DEF Steady
  <2>10. u[d] = w[d] BY <1>1, <2>6 DEF SameAbove
  <2>11. SameAbove(v, u, d)
    <3>1. u[d].page = v[d].page BY <1>9, <2>4, <2>10 DEF SameAbove
    <3>2. ASSUME NEW e \in 0..Height, e > d
          PROVE  u[e] = v[e]
      <4>1. e > D BY <1>1, <3>2
      <4>2. u[e] = w[e] /\ w[e] = c[e] /\ c[e] = v[e] BY <1>9, <2>4, <2>6, <3>2, <4>1 DEF SameAbove
      <4> QED BY <4>2
    <3> QED BY <3>1, <3>2 DEF SameAbove
  <2>12. IsValid(u, d)
    <3>1. \A e \in 0..d : u[e].cur # None BY <1>1, <2>2, <2>4, <2>6, <2>10 DEF IsValid
    <3> QED BY <3>1 DEF IsValid
  <2> HIDE DEF t
  <2>13. t \in K /\ t \in Int BY <1>10, <1>11, <2>2, <2>7
  <2>14. t < k
    <3>1. s[h].key < k /\ t <= s[h].key /\ s[h].key \in Int BY <1>3, <1>10, <2>2, <2>7
    <3> QED BY <2>13, <3>1
  <2>15. \A m \in M : k < m
    <3>1. IsValid(c, D) \/ NoTarget(M, k, op) BY <1>8
    <3>2. ~IsValid(c, D) BY <1>8, <1>16
    <3> QED BY <1>16, <3>1, <3>2 DEF NoTarget
  <2>16. ASSUME NEW m \in K, m <= k
         PROVE  m <= t
    <3>1. PICK j \in DOMAIN s : m \in KeysUnder(file, s[j].page) BY <1>10
    <3>2. m \in Int /\ j \in Int BY <1>11, <1>12
    <3>3. j < i
      <4>1. CASE j = i BY <2>15, <2>16, <3>1, <3>2, <4>1
      <4>2. CASE i < j
        <5>1. s[i].key < m /\ s[i].key \in Int BY <1>10, <1>12, <3>1, <4>2
        <5> QED BY <1>3, <2>16, <3>2, <5>1
      <4> QED BY <1>12, <3>2, <4>1, <4>2
    <3>4. j = h \/ j < h BY <1>12, <2>2, <3>2, <3>3 DEF h
    <3>5. CASE j = h BY <2>7, <3>1, <3>5
    <3>6. CASE j < h
      <4>1. m < t BY <1>10, <2>2, <2>7, <3>1, <3>6
      <4> QED BY <2>13, <3>2, <4>1
    <3> QED BY <3>4, <3>5, <3>6
  <2>17. t <= k /\ t # k BY <2>13, <2>14
  <2>18. IsTarget(K, k, op, t) BY <1>16, <2>13, <2>16, <2>17 DEF IsTarget
  <2> QED BY <2>8, <2>9, <2>11, <2>12, <2>17, <2>18 DEF SeekUnder, x, K, n, t
<1>17. CASE ~(i > 1 /\ op = "LE" /\ below.result = "invalid")
  <2>1. x = below BY <1>5, <1>9, <1>17 DEF SeekFrom, c
  <2>2. IsValid(c, d) <=> IsValid(c, D)
    <3>1. c[d].cur # None BY <1>9, <1>12
    <3> QED BY <1>1, <3>1 DEF IsValid
  <2>3. CASE IsValid(c, D)
    <3> DEFINE t == KeyAt(c)
    <3>1. IsTarget(M, k, op, t) /\ below.result = IF t = k THEN "equal" ELSE "unequal" BY <1>8, <2>3
    <3> HIDE DEF t
    <3>2. t \in M /\ t \in K /\ t \in Int BY <1>14, <1>15, <3>1 DEF IsTarget
    <3>3. ASSUME op = "LE", NEW m \in K, m <= k
          PROVE  m <= t
      <4>1. t <= k /\ \A q \in M : q <= k => q <= t BY <3>1, <3>3 DEF IsTarget
      <4>2. m \in Int BY <1>11
      <4>3. CASE m < k /\ \A q \in M : m < q
        <5>1. m < t BY <3>2, <4>3
        <5> QED BY <3>2, <4>2, <5>1
      <4>4. CASE m \in M BY <3>3, <4>1, <4>4
      <4>5. CASE k < m /\ \A q \in M : q < m BY <3>3, <4>2, <4>5
      <4> QED BY <1>13, <4>3, <4>4, <4>5
    <3>4. ASSUME op = "GE", NEW m \in K, k <= m
          PROVE  t <= m
      <4>1. k <= t /\ \A q \in M : k <= q => t <= q BY <3>1, <3>4 DEF IsTarget
      <4>2. m \in Int BY <1>11
      <4>3. CASE m < k /\ \A q \in M : m < q BY <3>4, <4>2, <4>3
      <4>4. CASE m \in M BY <3>4, <4>1, <4>4
      <4>5. CASE k < m /\ \A q \in M : q < m
        <5>1. t < m BY <3>2, <4>5
        <5> QED BY <3>2, <4>2, <5>1
      <4> QED BY <1>13, <4>3, <4>4, <4>5
    <3>5. IsTarget(K, k, op, t) BY <3>1, <3>2, <3>3, <3>4 DEF IsTarget
    <3> QED BY <1>8, <1>9, <2>1, <2>2, <2>3, <3>1, <3>5 DEF SeekUnder, x, K, n, t, c
  <2>4. CASE ~IsValid(c, D)
    <3>1. NoTarget(M, k, op) /\ below.result = "invalid" BY <1>8, <2>4
    <3>2. CASE op = "EQ"
      <4>1. k \notin M BY <3>1, <3>2 DEF NoTarget
      <4>2. k \notin K
        <5>1. ~(k < k) OBVIOUS
        <5> QED BY <1>13, <4>1, <5>1
      <4> QED BY <1>8, <1>9, <2>1, <2>2, <2>4, <3>1, <3>2, <4>2 DEF SeekUnder, NoTarget, x, K, n, c
    <3>3. CASE op = "LE"
      <4>1. i = 1 BY <1>3, <1>12, <1>17, <3>1, <3>3
      <4>2. \A m \in M : k < m BY <3>1, <3>3 DEF NoTarget
      <4>3. ASSUME NEW m \in K
            PROVE  k < m
        <5>1. PICK j \in DOMAIN s : m \in KeysUnder(file, s[j].page) BY <1>10
        <5>2. j = i \/ i < j BY <1>2, <4>1, <5>1
        <5>3. CASE j = i BY <4>2, <5>1, <5>3
        <5>4. CASE i < j
          <6>1. s[i].key < m /\ s[i].key \in Int /\ m \in Int BY <1>10, <1>11, <1>12, <5>1, <5>4
          <6> QED BY <1>3, <6>1
        <5> QED BY <5>2, <5>3, <5>4
      <4>4. NoTarget(K, k, op) BY <3>3, <4>3 DEF NoTarget
      <4> QED BY <1>8, <1>9, <2>1, <2>2, <2>4, <3>1, <4>4 DEF SeekUnder, x, K, n, c
    <3>4. CASE op = "GE"
      <4>1. \A m \in M : m < k BY <3>1, <3>4 DEF NoTarget
      <4>2. PICK q \in M : k <= q BY <1>14
      <4>3. q < k /\ q \in Int BY <1>15, <4>1
      <4> QED BY <4>2, <4>3
    <3> QED BY <3>2, <3>3, <3>4
  <2> QED BY <2>3, <2>4
<1> QED BY <1>16, <1>17

\* The way down.
LEMMA DownStands ==
    ASSUME Opened, NEW v, Standing(v), NEW d \in 1..Height, NEW k \in Int
    PROVE  Standing(SeekDown(v, d, k))
<1>1. CASE Reach(v, d, k) = {} BY <1>1 DEF SeekDown
<1>2. CASE Reach(v, d, k) # {}
  <2> DEFINE i == FirstReach(v, d, k)
             u == SetChild(v, d, i)
  <2>1. i \in 1..Len(Items(v, d)) BY <1>2, ReachFacts
  <2>2. SeekDown(v, d, k) = u BY <1>2 DEF SeekDown
  <2> HIDE DEF i
  <2>3. Standing(u) BY <2>1, SetChildGoes
  <2> QED BY <2>2, <2>3
<1> QED BY <1>1, <1>2

LEMMA SeeksDownExist ==
    ASSUME Opened, NEW c, Standing(c), NEW k \in Int
    PROVE  \E down : SeeksDown(c, k, down)
<1> DEFINE X == {v \in Places : Standing(v)}
           S == [e \in 0..Height |-> X]
           g == [p \in (0..Height) \X X |-> SeekDown(p[2], p[1] + 1, k)]
<1>1. Height \in Nat /\ Height \in 0..Height BY NodeKeys DEF Opened, Height
<1>2. \A v : v \in X <=> Standing(v) BY DEF Standing
<1>3. c \in S[Height] /\ \A e \in 0..Height : S[e] = X BY <1>1, <1>2
<1> HIDE DEF X
<1>4. \A e \in 0..Height, v \in X : g[<<e, v>>] = SeekDown(v, e + 1, k) OBVIOUS
<1> HIDE DEF S, g
<1>5. ASSUME NEW e \in 0..Height - 1, NEW v \in S[e + 1]
      PROVE  g[<<e, v>>] \in S[e]
  <2> DEFINE D == e + 1
  <2>1. e \in 0..Height /\ D \in 1..Height /\ D \in 0..Height BY <1>1
  <2>2. v \in X /\ Standing(v) BY <1>2, <1>3, <2>1
  <2> HIDE DEF D
  <2>3. Standing(SeekDown(v, D, k)) BY <2>1, <2>2, DownStands
  <2> QED BY <1>2, <1>3, <1>4, <2>1, <2>2, <2>3 DEF D
<1>6. PICK f : LoopsDown(f, c, Height, g) /\ \A e \in 0..Height : f[e] \in S[e] BY <1>1, <1>3, <1>5, LoopDown
<1>7. f = [e \in 0..Height |-> IF e = Height THEN c ELSE g[<<e, f[e + 1]>>]] BY <1>6 DEF LoopsDown
<1>8. \A e \in 0..Height : e # Height => g[<<e, f[e + 1]>>] = SeekDown(f[e + 1], e + 1, k)
  <2> TAKE e \in 0..Height
  <2> HAVE e # Height
  <2>1. e + 1 \in 0..Height BY <1>1
  <2>2. f[e + 1] \in X BY <1>3, <1>6, <2>1
  <2> QED BY <1>4, <2>2
<1>9. SeeksDown(c, k, f) BY <1>7, <1>8 DEF SeeksDown
<1> QED BY <1>9

LEMMA SeeksDownGo ==
    ASSUME Opened, NEW c, Standing(c), NEW k \in Int, NEW down, SeeksDown(c, k, down)
    PROVE  /\ down[Height] = c
           /\ \A d \in 0..Height : Standing(down[d])
           /\ \A d \in 1..Height : down[d - 1] = SeekDown(down[d], d, k)
<1>1. Height \in Nat /\ Height \in 0..Height BY NodeKeys DEF Opened, Height
<1>2. \A e \in 0..Height : down[e] = IF e = Height THEN c ELSE SeekDown(down[e + 1], e + 1, k)
  BY DEF SeeksDown
<1>3. down[Height] = c BY <1>1, <1>2
<1>4. \A d \in 1..Height : down[d - 1] = SeekDown(down[d], d, k)
  <2> TAKE d \in 1..Height
  <2>1. d - 1 \in 0..Height /\ d - 1 # Height /\ d - 1 + 1 = d BY <1>1
  <2> QED BY <1>2, <2>1
<1> DEFINE P == {d \in 0..Height : Standing(down[d])}
<1>5. Height \in P BY <1>1, <1>3
<1>6. ASSUME NEW e \in 0..Height - 1, e + 1 \in P
      PROVE  e \in P
  <2> DEFINE D == e + 1
  <2>1. e \in 0..Height /\ D \in 1..Height /\ D - 1 = e BY <1>1
  <2>2. Standing(down[D]) BY <1>6
  <2> HIDE DEF D
  <2>3. down[e] = SeekDown(down[D], D, k) BY <1>4, <2>1
  <2>4. Standing(down[e]) BY <2>1, <2>2, <2>3, DownStands
  <2> QED BY <2>1, <2>4
<1>7. \A e \in 0..Height : e \in P
  <2> HIDE DEF P
  <2> QED BY <1>1, <1>5, <1>6, CountDown
<1> QED BY <1>3, <1>4, <1>7

\* The way up.
LEMMA UpStands ==
    ASSUME Opened, NEW v, Standing(v), NEW d \in 1..Height, NEW k, NEW op,
           NEW below, Standing(below.c), below \in [c : Places, result : Results]
    PROVE  /\ SeekUp(v, below, d, k, op) \in [c : Places, result : Results]
           /\ Standing(SeekUp(v, below, d, k, op).c)
<1> DEFINE x == SeekUp(v, below, d, k, op)
           c == below.c
           D == d - 1
<1>1. /\ Height \in Nat /\ d \in 0..Height /\ D \in 0..Height
  BY NodeKeys DEF Opened, Height
<1>2. ASSUME NEW u, Standing(u), NEW r \in Results, x = Sought(u, r)
      PROVE  x \in [c : Places, result : Results] /\ Standing(x.c)
  <2> HIDE DEF x
  <2>1. u \in Places BY <1>2 DEF Standing
  <2>2. x.c = u BY <1>2 DEF Sought
  <2> QED BY <1>2, <2>1, <2>2 DEF Sought
<1>3. CASE Reach(v, d, k) # {}
  <2>1. x = SeekFrom(below, d, op) BY <1>3 DEF SeekUp
  <2>2. CASE ~(c[d].cur > 1 /\ op = "LE" /\ below.result = "invalid")
    <3>1. x = below BY <2>1, <2>2 DEF SeekFrom
    <3> QED BY <3>1
  <2>3. CASE c[d].cur > 1 /\ op = "LE" /\ below.result = "invalid"
    <3> DEFINE i == c[d].cur - 1
               w == SetChild(c, d, i)
               u == LastOf(w, D)
    <3>1. x = Sought(u, "unequal") BY <2>1, <2>3 DEF SeekFrom
    <3>2. c[d].cur \in Nat /\ c[d].cur # None BY <1>1, <2>3, StandingFacts DEF None
    <3>3. c[d].cur \in DOMAIN Items(c, d) /\ DOMAIN Items(c, d) = 1..Len(Items(c, d)) /\ Len(Items(c, d)) \in Nat
      BY <1>1, <3>2, StandingFacts DEF Standing
    <3>4. i \in 1..Len(Items(c, d)) BY <2>3, <3>2, <3>3
    <3> HIDE DEF i, c
    <3>5. Standing(w) BY <3>4, SetChildGoes DEF c
    <3> HIDE DEF w
    <3>6. Standing(u) BY <1>1, <3>5, LastGoes
    <3> HIDE DEF u, x
    <3>7. x \in [c : Places, result : Results] /\ Standing(x.c) BY <1>2, <3>1, <3>6 DEF Results
    <3> QED BY <3>7 DEF x
  <2> QED BY <2>2, <2>3
<1>4. CASE Reach(v, d, k) = {} /\ op = "LE"
  <2> DEFINE u == LastOf(v, d)
  <2>1. x = Sought(u, "unequal") BY <1>4 DEF SeekUp
  <2>2. Standing(u) BY <1>1, LastGoes
  <2> HIDE DEF u, x
  <2>3. x \in [c : Places, result : Results] /\ Standing(x.c) BY <1>2, <2>1, <2>2 DEF Results
  <2> QED BY <2>3 DEF x
<1>5. CASE Reach(v, d, k) = {} /\ op # "LE"
  <2> DEFINE u == WithCur(v, d, None)
  <2>1. x = Sought(u, "invalid") BY <1>5 DEF SeekUp
  <2>2. Standing(u) BY NoChild
  <2> HIDE DEF u, x
  <2>3. x \in [c : Places, result : Results] /\ Standing(x.c) BY <1>2, <2>1, <2>2 DEF Results
  <2> QED BY <2>3 DEF x
<1> QED BY <1>3, <1>4, <1>5

LEMMA SeeksUpExist ==
    ASSUME Opened, NEW k \in Int, NEW op \in {"EQ", "LE", "GE"}, NEW down, \A d \in 0..Height : Standing(down[d])
    PROVE  \E seek : SeeksUp(down, k, op, seek)
<1> DEFINE X == {x \in [c : Places, result : Results] : Standing(x.c)}
           S == [e \in 0..Height |-> X]
           g == [p \in (0..Height) \X X |-> SeekUp(down[p[1]], p[2], p[1], k, op)]
           leaf0 == SeekInLeaf(down[0], k, op)
<1>1. Height \in Nat /\ 0 \in 0..Height BY NodeKeys DEF Opened, Height
<1>2. \A x : x \in X <=> x \in [c : Places, result : Results] /\ Standing(x.c) OBVIOUS
<1> HIDE DEF X, leaf0
<1>3. \A e \in 0..Height : S[e] = X OBVIOUS
<1>4. \A e \in 0..Height, x \in X : g[<<e, x>>] = SeekUp(down[e], x, e, k, op) OBVIOUS
<1> HIDE DEF S, g
<1>5. leaf0 \in S[0]
  <2> DEFINE v == down[0]
  <2>1. Standing(v) BY <1>1
  <2> HIDE DEF v
  <2>2. SeekUnder(v, leaf0, 0, k, op) BY <2>1, SeekLeaf DEF leaf0, v
  <2>3. Standing(leaf0.c) /\ leaf0.c \in Places BY <2>2 DEF SeekUnder, Steady, Standing
  <2>4. \E u, r : r \in Results /\ leaf0 = Sought(u, r) BY DEF leaf0, SeekInLeaf, Results
  <2>5. leaf0 \in [c : Places, result : Results] BY <2>3, <2>4 DEF Sought
  <2> QED BY <1>1, <1>2, <1>3, <2>3, <2>5
<1>6. ASSUME NEW e \in 1..Height, NEW x \in S[e - 1]
      PROVE  g[<<e, x>>] \in S[e]
  <2>1. e \in 0..Height /\ e - 1 \in 0..Height BY <1>1
  <2>2. x \in X /\ x \in [c : Places, result : Results] /\ Standing(x.c) /\ Standing(down[e]) BY <1>2, <1>3, <2>1
  <2> DEFINE v == down[e]
             u == SeekUp(v, x, e, k, op)
  <2> HIDE DEF v
  <2>3. u \in [c : Places, result : Results] /\ Standing(u.c) BY <2>2, UpStands DEF v
  <2>4. u \in X BY <1>2, <2>3
  <2> QED BY <1>3, <1>4, <2>1, <2>2, <2>4 DEF v
<1>7. PICK f : LoopsUp(f, leaf0, Height, g) /\ \A e \in 0..Height : f[e] \in S[e]
  BY <1>1, <1>5, <1>6, LoopUp
<1>8. f = [e \in 0..Height |-> IF e = 0 THEN leaf0 ELSE g[<<e, f[e - 1]>>]] BY <1>7 DEF LoopsUp
<1>9. \A e \in 0..Height : e # 0 => g[<<e, f[e - 1]>>] = SeekUp(down[e], f[e - 1], e, k, op)
  <2> TAKE e \in 0..Height
  <2> HAVE e # 0
  <2>1. e - 1 \in 0..Height BY <1>1
  <2>2. f[e - 1] \in X BY <1>3, <1>7, <2>1
  <2> QED BY <1>4, <2>2
<1>10. SeeksUp(down, k, op, f) BY <1>8, <1>9 DEF SeeksUp, leaf0
<1> QED BY <1>10

\* seek goes to the key that is asked for, or to none when there is none.
LEMMA SeekGoes ==
    ASSUME Opened, NEW c, Steady(c), NEW k \in Int, NEW op \in {"EQ", "LE", "GE"}
    PROVE  SeekUnder(c, SeekIn(c, k, op), Height, k, op)
<1> DEFINE down == CHOOSE x : SeeksDown(c, k, x)
           seek == CHOOSE x : SeeksUp(down, k, op, x)
<1>1. Height \in Nat /\ 0 \in 0..Height /\ Height \in 0..Height /\ Standing(c)
  BY NodeKeys DEF Opened, Height, Steady
<1>2. SeekIn(c, k, op) = seek[Height] BY DEF SeekIn, SeeksDown, SeeksUp, SeekDown, SeekUp, WithCur
<1>3. SeeksDown(c, k, down) BY <1>1, SeeksDownExist
<1> HIDE DEF down
<1>4. /\ down[Height] = c
      /\ \A d \in 0..Height : Standing(down[d])
      /\ \A d \in 1..Height : down[d - 1] = SeekDown(down[d], d, k)
  BY <1>1, <1>3, SeeksDownGo
<1>5. SeeksUp(down, k, op, seek) BY <1>4, SeeksUpExist
<1> HIDE DEF seek
<1>6. \A d \in 0..Height : seek[d] = IF d = 0 THEN SeekInLeaf(down[0], k, op)
                                     ELSE SeekUp(down[d], seek[d - 1], d, k, op)
  BY <1>5 DEF SeeksUp
<1>7. SeekUnder(down[0], seek[0], 0, k, op)
  <2> DEFINE v == down[0]
  <2>1. Standing(v) /\ seek[0] = SeekInLeaf(v, k, op) BY <1>1, <1>4, <1>6
  <2> HIDE DEF v
  <2>2. SeekUnder(v, SeekInLeaf(v, k, op), 0, k, op) BY <2>1, SeekLeaf
  <2> QED BY <2>1, <2>2 DEF v
<1>8. CASE Height = 0 BY <1>2, <1>4, <1>7, <1>8
<1>9. CASE Height # 0 /\ Reach(c, Height, k) = {}
  <2> DEFINE H == Height
             below == seek[H - 1]
  <2>1. H \in 1..Height /\ seek[H] = SeekUp(c, below, H, k, op) BY <1>1, <1>4, <1>6, <1>9
  <2> HIDE DEF below
  <2>2. SeekUnder(c, SeekUp(c, below, H, k, op), H, k, op)
    <3> HIDE DEF H
    <3>1. Reach(c, H, k) = {} BY <1>9 DEF H
    <3> QED BY <2>1, <3>1, SeekBehind
  <2> QED BY <1>2, <2>1, <2>2
<1>10. CASE Height # 0 /\ Reach(c, Height, k) # {}
  <2> DEFINE Q == {d \in 1..Height : Reach(down[d], d, k) # {}}
             P == {d \in 0..Height : d = 0 \/ d \in Q}
  <2>1. Height \in P BY <1>1, <1>4, <1>10
  <2>2. ASSUME NEW e \in 0..Height - 1, e + 1 \in P
        PROVE  e \in P
    <3> DEFINE D == e + 1
               v == down[D]
               s == Items(v, D)
               i == FirstReach(v, D, k)
               z == down[e]
    <3>1. e \in 0..Height /\ D \in 1..Height /\ D \in 0..Height /\ D - 1 = e /\ D # 0 /\ D > 0 BY <1>1
    <3>2. Reach(v, D, k) # {} /\ Standing(v) /\ z = SeekDown(v, D, k) /\ Standing(z)
      BY <1>4, <2>2, <3>1
    <3> HIDE DEF v, z, D
    <3>3. i \in 1..Len(s) /\ k <= s[i].key BY <3>1, <3>2, ReachFacts
    <3>4. z = SetChild(v, D, i) BY <3>2 DEF SeekDown
    <3> HIDE DEF i
    <3>5. z[D - 1].page = s[i].page BY <3>1, <3>2, <3>3, <3>4, SetChildGoes
    <3>6. IsInner(file, v[D].page) /\ s = file[v[D].page].items /\ DOMAIN s = 1..Len(s) /\ FileOk(file)
      BY <3>1, <3>2, StandingFacts DEF Opened
    <3>7. s[i].key \in KeysUnder(file, z[e].page)
      <4> DEFINE n == v[D].page
      <4>1. IsInner(file, n) /\ s = file[n].items BY <3>6
      <4> HIDE DEF n, s
      <4>2. \A j \in DOMAIN s : s[j].key \in KeysUnder(file, s[j].page) BY <3>6, <4>1, ParentKeys
      <4> QED BY <3>1, <3>3, <3>5, <3>6, <4>2
    <3>8. s[i].key \in Int
      <4>1. IsNode(file, z[e].page) BY <3>1, <3>2, StandingFacts
      <4> QED BY <3>6, <3>7, <4>1, NodeKeys
    <3> HIDE DEF s
    <3>9. CASE e = 0 BY <3>1, <3>9
    <3>10. CASE e # 0
      <4>1. e \in 1..Height BY <3>1, <3>10
      <4>2. Reach(z, e, k) # {}
        <5>1. ASSUME Reach(z, e, k) = {}
              PROVE  FALSE
          <6>1. \A m \in KeysUnder(file, z[e].page) : m < k BY <3>2, <4>1, <5>1, ReachFacts
          <6>2. s[i].key < k BY <3>7, <6>1
          <6> QED BY <3>3, <3>8, <6>2
        <5> QED BY <5>1
      <4> QED BY <3>1, <4>1, <4>2 DEF z
    <3> QED BY <3>9, <3>10
  <2>3. \A e \in 0..Height : e \in P
    <3> HIDE DEF P
    <3> QED BY <1>1, <2>1, <2>2, CountDown
  <2>4. \A d \in 1..Height : Reach(down[d], d, k) # {}
    <3> TAKE d \in 1..Height
    <3>1. d \in 0..Height /\ d # 0 BY <1>1
    <3> QED BY <2>3, <3>1
  <2> DEFINE F == {d \in 0..Height : SeekUnder(down[d], seek[d], d, k, op)}
  <2>5. 0 \in F BY <1>1, <1>7
  <2>6. ASSUME NEW d \in 1..Height, d - 1 \in F
        PROVE  d \in F
    <3>1. d \in 0..Height /\ d # 0 BY <1>1
    <3> DEFINE v == down[d]
               z == down[d - 1]
               below == seek[d - 1]
    <3>2. /\ Standing(v) /\ Reach(v, d, k) # {} /\ z = SeekDown(v, d, k)
          /\ seek[d] = SeekUp(v, below, d, k, op) /\ SeekUnder(z, below, d - 1, k, op)
      BY <1>4, <1>6, <2>4, <2>6, <3>1
    <3> HIDE DEF v, z, below, F
    <3>3. SeekUnder(v, SeekUp(v, below, d, k, op), d, k, op) BY <3>2, SeekStep
    <3> QED BY <3>1, <3>2, <3>3 DEF F, v
  <2>7. \A d \in 0..Height : d \in F
    <3> HIDE DEF F
    <3> QED BY <1>1, <2>5, <2>6, CountUp
  <2>8. SeekUnder(down[Height], seek[Height], Height, k, op) BY <1>1, <2>7
  <2> QED BY <1>2, <1>4, <2>8
<1> QED BY <1>8, <1>9, <1>10

-----------------------------------------------------------------------------
(* The calls.                                                              *)

\* Where a new cursor stands: in the first leaf, on no key.
LEMMA NewGoes ==
    ASSUME Opened, NEW c, c = NewCursor
    PROVE  Steady(c) /\ ~IsValid(c, Height)
<1> DEFINE b == [e \in 0..Height |-> [page |-> NoPage, cur |-> None]]
           H == Height
<1>1. /\ FileOk(file) /\ IsNode(file, lower) /\ H \in Nat /\ H \in 0..H /\ 0 \in 0..H
      /\ \A e \in 1..H : e \in 0..H
  BY NodeKeys DEF Opened, Height
<1>2. b \in Places BY DEF Places, NoPage, None
<1>3. b[0].cur = None BY <1>1
<1>4. c = MoveToPage(b, H, lower) /\ file[lower].depth = H BY DEF NewCursor, Height
<1> HIDE DEF b
<1>5. /\ c \in Places /\ c[H].page = lower
      /\ \A e \in 0..H : IsNode(file, c[e].page) /\ file[c[e].page].depth = e
      /\ \A e \in 1..H : c[e].cur = 1 /\ c[e - 1].page = Child(c, e)
      /\ c[0].cur = b[0].cur
  BY <1>1, <1>2, <1>4, MoveGoes
<1>6. ASSUME NEW e \in 1..H
      PROVE  c[e].cur \in DOMAIN Items(c, e)
  <2> DEFINE n == c[e].page
             s == file[n].items
  <2>1. IsNode(file, n) BY <1>1, <1>5
  <2> HIDE DEF n
  <2>2. 1 \in DOMAIN s BY <1>1, <2>1, NodeKeys
  <2> QED BY <1>5, <2>2 DEF n, Items
<1>7. Standing(c) BY <1>5, <1>6 DEF Standing
<1>8. c[0].cur \in 0..Len(Items(c, 0))
  <2>1. Len(Items(c, 0)) \in Nat BY <1>1, <1>7, StandingFacts
  <2> QED BY <1>3, <1>5, <2>1 DEF None
<1>9. ~IsValid(c, H) BY <1>1, <1>3, <1>5 DEF IsValid
<1> QED BY <1>7, <1>8, <1>9 DEF Steady

\* What a valid cursor stands on is a key of the tree.
LEMMA AtKey ==
    ASSUME Opened, NEW c, Steady(c)
    PROVE  /\ c[Height].page = lower
           /\ IsValid(c, Height) => KeyAt(c) \in KeysUnder(file, lower) /\ KeyAt(c) # Nowhere /\ KeyAt(c) \in Int
<1>1. FileOk(file) /\ IsNode(file, lower) /\ Height \in 0..Height
  BY NodeKeys DEF Opened, Height
<1>2. c[Height].page = lower BY DEF Steady, Standing
<1>3. ASSUME IsValid(c, Height)
      PROVE  KeyAt(c) \in KeysUnder(file, lower) /\ KeyAt(c) # Nowhere /\ KeyAt(c) \in Int
  <2>1. KeyAt(c) \in KeysUnder(file, lower) BY <1>1, <1>2, <1>3, KeyUnder
  <2>2. KeyAt(c) \in Keys /\ KeyAt(c) \in Int BY <1>1, <2>1, NodeKeys
  <2> QED BY <2>1, <2>2, TreeCursorsAssumption
<1> QED BY <1>2, <1>3

\* After a call the cursor is where the call left it.
LEMMA MovesKeep ==
    ASSUME Opened, lower # NoPage, NEW c, Steady(c), NEW what, Moves(c, what)
    PROVE  /\ CursorInv' /\ cursor' # Closed /\ KeysHere' = KeysUnder(file, lower)
           /\ at' = (IF IsValid(c, Height) THEN KeyAt(c) ELSE Nowhere) /\ call' = what
<1>1. /\ cursor' = c /\ at' = (IF IsValid(c, Height) THEN KeyAt(c) ELSE Nowhere) /\ call' = what
      /\ file' = file /\ lower' = lower
  BY DEF Moves, vars, segments
<1>2. c # Closed
  <2>1. DOMAIN c = 0..Height /\ 0 \in 0..Height BY NodeKeys DEF Steady, Standing, Places, Opened, Height
  <2>2. 0 \notin DOMAIN Closed BY DEF Closed
  <2> QED BY <2>1, <2>2
<1>3. Height' = Height BY <1>1 DEF Height
<1>4. \A e : Items(c, e)' = Items(c, e) BY <1>1 DEF Items
<1>5. Standing(c)'
  <2>1. \A e : Child(c, e)' = Child(c, e) BY <1>4 DEF Child
  <2>2. \A n : IsNode(file', n) <=> IsNode(file, n) BY <1>1
  <2> QED BY <1>1, <1>3, <1>4, <2>1, <2>2 DEF Steady, Standing, Places
<1>6. Steady(c)' BY <1>4, <1>5 DEF Steady
<1>7. KeyAt(c)' = KeyAt(c) BY <1>4 DEF KeyAt
<1>8. CursorInv'
  <2>1. Steady(cursor') <=> Steady(c) BY <1>1
  <2> QED BY <1>1, <1>3, <1>6, <1>7 DEF CursorInv
<1>9. KeysHere' = KeysUnder(file, lower) BY <1>1, <1>2 DEF KeysHere
<1> QED BY <1>1, <1>2, <1>8, <1>9

-----------------------------------------------------------------------------
(* What SortedCursor says.                                                 *)

\* The first and the last of some numbers are what they have to be.
LEMMA LeastIs ==
    ASSUME NEW S, \A m \in S : m \in Int, NEW t \in S, \A m \in S : t <= m
    PROVE  Sorted!Least(S) = t
<1>1. \A r \in S : (\A m \in S : r <= m) => r = t
  <2> SUFFICES ASSUME NEW r \in S, \A m \in S : r <= m
               PROVE  r = t
    OBVIOUS
  <2>1. r \in Int /\ t \in Int /\ r <= t /\ t <= r OBVIOUS
  <2> QED BY <2>1
<1>2. (CHOOSE r \in S : \A m \in S : r <= m) = t BY <1>1
<1> QED BY <1>2 DEF Sorted!Least

LEMMA GreatestIs ==
    ASSUME NEW S, \A m \in S : m \in Int, NEW t \in S, \A m \in S : m <= t
    PROVE  Sorted!Greatest(S) = t
<1>1. \A r \in S : (\A m \in S : r >= m) => r = t
  <2> SUFFICES ASSUME NEW r \in S, \A m \in S : r >= m
               PROVE  r = t
    OBVIOUS
  <2>1. r \in Int /\ t \in Int /\ r >= t /\ r <= t OBVIOUS
  <2> QED BY <2>1
<1>2. \A m \in S : t >= m
  <2> TAKE m \in S
  <2>1. m \in Int /\ t \in Int /\ m <= t OBVIOUS
  <2> QED BY <2>1
<1>3. (CHOOSE r \in S : \A m \in S : r >= m) = t BY <1>1, <1>2
<1> QED BY <1>3 DEF Sorted!Greatest

\* Where a seek has to go.
LEMMA TargetIs ==
    ASSUME \A m \in KeysHere : m \in Int, NEW k \in Int, NEW op \in {"EQ", "LE", "GE"},
           NEW t, IsTarget(KeysHere, k, op, t)
    PROVE  Sorted!Target(k, op) = t
<1>1. t \in KeysHere /\ t \in Int BY DEF IsTarget
<1>2. CASE op = "EQ" BY <1>1, <1>2 DEF IsTarget, Sorted!Target
<1>3. CASE op = "LE"
  <2> DEFINE S == {m \in KeysHere : m <= k}
  <2>1. t \in S /\ \A m \in S : m <= t /\ m \in Int BY <1>1, <1>3 DEF IsTarget
  <2>2. Sorted!Target(k, op) = Sorted!Greatest(S) BY <1>3 DEF Sorted!Target
  <2> HIDE DEF S
  <2>3. Sorted!Greatest(S) = t BY <2>1, GreatestIs
  <2> QED BY <2>2, <2>3
<1>4. CASE op = "GE"
  <2> DEFINE S == {m \in KeysHere : m >= k}
  <2>1. \A m \in KeysHere : m >= k <=> k <= m OBVIOUS
  <2>2. t \in S /\ \A m \in S : t <= m /\ m \in Int BY <1>1, <1>4, <2>1 DEF IsTarget
  <2>3. Sorted!Target(k, op) = Sorted!Least(S) BY <1>4 DEF Sorted!Target
  <2> HIDE DEF S
  <2>4. Sorted!Least(S) = t BY <2>2, LeastIs
  <2> QED BY <2>3, <2>4
<1> QED BY <1>2, <1>3, <1>4

LEMMA NoTargetIs ==
    ASSUME \A m \in KeysHere : m \in Int, NEW k \in Int, NEW op \in {"EQ", "LE", "GE"},
           NoTarget(KeysHere, k, op)
    PROVE  Sorted!Target(k, op) = Nowhere
<1>2. CASE op = "EQ" BY <1>2 DEF NoTarget, Sorted!Target
<1>3. CASE op = "LE"
  <2>1. \A m \in KeysHere : ~(m <= k)
    <3> TAKE m \in KeysHere
    <3>1. m \in Int /\ k < m BY <1>3 DEF NoTarget
    <3> QED BY <3>1
  <2>2. {m \in KeysHere : m <= k} = {} BY <2>1
  <2> QED BY <1>3, <2>2 DEF Sorted!Target, Sorted!Greatest
<1>4. CASE op = "GE"
  <2>1. \A m \in KeysHere : ~(m >= k)
    <3> TAKE m \in KeysHere
    <3>1. m \in Int /\ m < k BY <1>4 DEF NoTarget
    <3> QED BY <3>1
  <2>2. {m \in KeysHere : m >= k} = {} BY <2>1
  <2> QED BY <1>4, <2>2 DEF Sorted!Target, Sorted!Least
<1> QED BY <1>2, <1>3, <1>4

\* Whoever has a cursor has a tree, and what is under its root are the keys.
LEMMA CursorOpened ==
    ASSUME IInv, CursorInv, cursor # Closed
    PROVE  /\ Opened /\ lower # NoPage /\ Steady(cursor) /\ KeysHere = KeysUnder(file, lower)
           /\ \A m \in KeysHere : m \in Int
           /\ at = (IF IsValid(cursor, Height) THEN KeyAt(cursor) ELSE Nowhere)
<1>1. FileOk(file) /\ RootOk(file, lower) BY DEF IInv, SInv, RootsOk
<1>2. lower # NoPage /\ Steady(cursor) /\ at = (IF IsValid(cursor, Height) THEN KeyAt(cursor) ELSE Nowhere)
  BY DEF CursorInv
<1>3. IsNode(file, lower) BY <1>1, <1>2 DEF RootOk
<1>4. KeysHere = KeysUnder(file, lower) BY DEF KeysHere
<1>5. \A m \in KeysHere : m \in Int BY <1>1, <1>3, <1>4, NodeKeys
<1> QED BY <1>1, <1>2, <1>3, <1>4, <1>5 DEF Opened

LEMMA OpenSteps ==
    ASSUME IInv, OpenCursor
    PROVE  CursorInv' /\ Sorted!Open
<1> DEFINE c == NewCursor
<1>1. lower # NoPage /\ Moves(c, <<"open">>) BY DEF OpenCursor
<1>2. Opened BY <1>1 DEF IInv, SInv, RootsOk, RootOk, Opened
<1>3. Steady(c) /\ ~IsValid(c, Height) BY <1>2, NewGoes
<1> HIDE DEF c
<1>4. CursorInv' /\ at' = Nowhere /\ call' = <<"open">> BY <1>1, <1>2, <1>3, MovesKeep
<1> QED BY <1>4 DEF Sorted!Open

LEMMA FirstSteps ==
    ASSUME IInv, CursorInv, FirstKey
    PROVE  CursorInv' /\ Sorted!FirstKey
<1> DEFINE c == FirstOf(cursor, Height)
           t == KeyAt(c)
<1>1. cursor # Closed /\ Moves(c, <<"first">>) BY DEF FirstKey
<1>2. /\ Opened /\ lower # NoPage /\ Steady(cursor) /\ KeysHere = KeysUnder(file, lower)
      /\ \A m \in KeysHere : m \in Int
  BY <1>1, CursorOpened
<1>3. Standing(cursor) /\ Height \in 0..Height BY <1>2, NodeKeys DEF Steady, Opened, Height
<1>4. cursor[Height].page = lower BY <1>3 DEF Standing
<1>5. /\ Standing(c) /\ IsValid(c, Height) /\ c[0].cur \in 1..Len(Items(c, 0))
      /\ t \in KeysHere /\ \A k \in KeysHere : t <= k
  BY <1>2, <1>3, <1>4, FirstGoes
<1>6. c[0].cur \in 0..Len(Items(c, 0)) BY <1>5
<1>7. Steady(c) BY <1>5, <1>6 DEF Steady
<1> HIDE DEF c
<1>8. CursorInv' /\ at' = t /\ call' = <<"first">> /\ KeysHere' = KeysHere
  BY <1>1, <1>2, <1>5, <1>7, MovesKeep
<1> HIDE DEF t
<1>9. Sorted!Least(KeysHere) = t BY <1>2, <1>5, LeastIs
<1> QED BY <1>8, <1>9 DEF Sorted!FirstKey

LEMMA LastSteps ==
    ASSUME IInv, CursorInv, LastKey
    PROVE  CursorInv' /\ Sorted!LastKey
<1> DEFINE c == LastOf(cursor, Height)
           t == KeyAt(c)
<1>1. cursor # Closed /\ Moves(c, <<"last">>) BY DEF LastKey
<1>2. /\ Opened /\ lower # NoPage /\ Steady(cursor) /\ KeysHere = KeysUnder(file, lower)
      /\ \A m \in KeysHere : m \in Int
  BY <1>1, CursorOpened
<1>3. Standing(cursor) /\ Height \in 0..Height BY <1>2, NodeKeys DEF Steady, Opened, Height
<1>4. cursor[Height].page = lower BY <1>3 DEF Standing
<1>5. /\ Standing(c) /\ IsValid(c, Height) /\ c[0].cur \in 1..Len(Items(c, 0))
      /\ t \in KeysHere /\ \A k \in KeysHere : k <= t
  BY <1>2, <1>3, <1>4, LastGoes
<1>6. c[0].cur \in 0..Len(Items(c, 0)) BY <1>5
<1>7. Steady(c) BY <1>5, <1>6 DEF Steady
<1> HIDE DEF c
<1>8. CursorInv' /\ at' = t /\ call' = <<"last">> /\ KeysHere' = KeysHere
  BY <1>1, <1>2, <1>5, <1>7, MovesKeep
<1> HIDE DEF t
<1>9. Sorted!Greatest(KeysHere) = t BY <1>2, <1>5, GreatestIs
<1> QED BY <1>8, <1>9 DEF Sorted!LastKey

LEMMA NextSteps ==
    ASSUME IInv, CursorInv, NextKey
    PROVE  CursorInv' /\ Sorted!NextKey
<1> DEFINE c == NextOf(cursor)
           t == KeyAt(c)
           S == {k \in KeysHere : k > at}
<1>1. cursor # Closed /\ IsValid(cursor, Height) /\ Moves(c, <<"next">>) BY DEF NextKey
<1>2. /\ Opened /\ lower # NoPage /\ Steady(cursor) /\ KeysHere = KeysUnder(file, lower)
      /\ \A m \in KeysHere : m \in Int
      /\ at = KeyAt(cursor)
  BY <1>1, CursorOpened
<1>3. cursor[Height].page = lower /\ at # Nowhere /\ at \in Int BY <1>1, <1>2, AtKey
<1>4. NextUnder(cursor, c, Height) BY <1>1, <1>2, NextGoes
<1> HIDE DEF c
<1>5. /\ Steady(c)
      /\ IsValid(c, Height) => t \in KeysHere /\ at < t /\ \A k \in KeysHere : at < k => t <= k
      /\ ~IsValid(c, Height) => \A k \in KeysHere : k <= at
  BY <1>2, <1>3, <1>4 DEF NextUnder
<1>6. /\ CursorInv' /\ at' = (IF IsValid(c, Height) THEN t ELSE Nowhere) /\ call' = <<"next">>
      /\ KeysHere' = KeysHere
  BY <1>1, <1>2, <1>5, MovesKeep
<1> HIDE DEF t
<1>7. Sorted!Least(S) = at'
  <2>1. CASE IsValid(c, Height)
    <3>1. t \in S /\ \A k \in S : t <= k /\ k \in Int BY <1>2, <1>3, <1>5, <2>1
    <3> HIDE DEF S
    <3>2. Sorted!Least(S) = t BY <3>1, LeastIs
    <3> QED BY <1>6, <2>1, <3>2
  <2>2. CASE ~IsValid(c, Height)
    <3>1. S = {} BY <1>2, <1>3, <1>5, <2>2
    <3> QED BY <1>6, <2>2, <3>1 DEF Sorted!Least
  <2> QED BY <2>1, <2>2
<1> QED BY <1>3, <1>6, <1>7 DEF Sorted!NextKey

LEMMA PrevSteps ==
    ASSUME IInv, CursorInv, PrevKey
    PROVE  CursorInv' /\ Sorted!PrevKey
<1> DEFINE c == PrevOf(cursor)
           t == KeyAt(c)
           S == {k \in KeysHere : k < at}
<1>1. cursor # Closed /\ IsValid(cursor, Height) /\ Moves(c, <<"prev">>) BY DEF PrevKey
<1>2. /\ Opened /\ lower # NoPage /\ Steady(cursor) /\ KeysHere = KeysUnder(file, lower)
      /\ \A m \in KeysHere : m \in Int
      /\ at = KeyAt(cursor)
  BY <1>1, CursorOpened
<1>3. cursor[Height].page = lower /\ at # Nowhere /\ at \in Int BY <1>1, <1>2, AtKey
<1>4. PrevUnder(cursor, c, Height) BY <1>1, <1>2, PrevGoes
<1> HIDE DEF c
<1>5. /\ Steady(c)
      /\ IsValid(c, Height) => t \in KeysHere /\ t < at /\ \A k \in KeysHere : k < at => k <= t
      /\ ~IsValid(c, Height) => \A k \in KeysHere : at <= k
  BY <1>2, <1>3, <1>4 DEF PrevUnder
<1>6. /\ CursorInv' /\ at' = (IF IsValid(c, Height) THEN t ELSE Nowhere) /\ call' = <<"prev">>
      /\ KeysHere' = KeysHere
  BY <1>1, <1>2, <1>5, MovesKeep
<1> HIDE DEF t
<1>7. Sorted!Greatest(S) = at'
  <2>1. CASE IsValid(c, Height)
    <3>1. t \in S /\ \A k \in S : k <= t /\ k \in Int BY <1>2, <1>3, <1>5, <2>1
    <3> HIDE DEF S
    <3>2. Sorted!Greatest(S) = t BY <3>1, GreatestIs
    <3> QED BY <1>6, <2>1, <3>2
  <2>2. CASE ~IsValid(c, Height)
    <3>1. S = {} BY <1>2, <1>3, <1>5, <2>2
    <3> QED BY <1>6, <2>2, <3>1 DEF Sorted!Greatest
  <2> QED BY <2>1, <2>2
<1> QED BY <1>3, <1>6, <1>7 DEF Sorted!PrevKey

LEMMA SeekSteps ==
    ASSUME IInv, CursorInv, Seek
    PROVE  CursorInv' /\ Sorted!Seek
<1>1. PICK k \in Keys, op \in {"EQ", "LE", "GE"} :
        cursor # Closed
          /\ Moves(SeekIn(cursor, k, op).c, <<"seek", k, op, SeekIn(cursor, k, op).result>>)
  BY DEF Seek
<1> DEFINE x == SeekIn(cursor, k, op)
           c == x.c
           r == x.result
           t == KeyAt(c)
           T == Sorted!Target(k, op)
           V == IsValid(c, Height)
<1>2. /\ Opened /\ lower # NoPage /\ Steady(cursor) /\ KeysHere = KeysUnder(file, lower)
      /\ \A m \in KeysHere : m \in Int
  BY <1>1, CursorOpened
<1>3. cursor[Height].page = lower BY <1>2, AtKey
<1>4. k \in Int BY PairsAssumption
<1>5. SeekUnder(cursor, x, Height, k, op) BY <1>2, <1>4, SeekGoes
<1>6. Moves(c, <<"seek", k, op, r>>) BY <1>1
<1> HIDE DEF x
<1>7. /\ Steady(c)
      /\ V => IsTarget(KeysHere, k, op, t) /\ r = IF t = k THEN "equal" ELSE "unequal"
      /\ ~V => NoTarget(KeysHere, k, op) /\ r = "invalid"
  BY <1>2, <1>3, <1>5 DEF SeekUnder
<1> HIDE DEF c, r
<1>8. V => t # Nowhere BY <1>2, <1>7, AtKey
<1>9. /\ CursorInv' /\ at' = (IF V THEN t ELSE Nowhere) /\ call' = <<"seek", k, op, r>>
      /\ KeysHere' = KeysHere
  BY <1>2, <1>6, <1>7, MovesKeep
<1> HIDE DEF t
<1>10. V => T = t
  <2>1. ASSUME V
        PROVE  T = t
    <3>1. IsTarget(KeysHere, k, op, t) BY <1>7, <2>1
    <3> QED BY <1>2, <1>4, <3>1, TargetIs
  <2> QED BY <2>1
<1>11. ~V => T = Nowhere
  <2>1. ASSUME ~V
        PROVE  T = Nowhere
    <3>1. NoTarget(KeysHere, k, op) BY <1>7, <2>1
    <3> QED BY <1>2, <1>4, <3>1, NoTargetIs
  <2> QED BY <2>1
<1> HIDE DEF T, V
<1>12. at' = T BY <1>9, <1>10, <1>11
<1>13. r = Sorted!SeekResult(k, T) BY <1>7, <1>8, <1>10, <1>11 DEF Sorted!SeekResult
<1>14. call' = <<"seek", k, op, Sorted!SeekResult(k, T)>> BY <1>9, <1>13
<1>15. Sorted!Seek BY <1>9, <1>12, <1>14 DEF Sorted!Seek, Sorted!SeekOp, T
<1> QED BY <1>9, <1>15

\* Every step.
LEMMA CursorSteps ==
    ASSUME IInv, CursorInv, [CursorNext]_allVars
    PROVE  CursorInv' /\ [Sorted!Next]_<<KeysHere, at, call>>
<1>1. CASE OpenCursor BY <1>1, OpenSteps DEF Sorted!Next
<1>2. CASE FirstKey BY <1>2, FirstSteps DEF Sorted!Next
<1>3. CASE LastKey BY <1>3, LastSteps DEF Sorted!Next
<1>4. CASE NextKey BY <1>4, NextSteps DEF Sorted!Next
<1>5. CASE PrevKey BY <1>5, PrevSteps DEF Sorted!Next
<1>6. CASE Seek BY <1>6, SeekSteps DEF Sorted!Next
<1>7. CASE Next /\ cursor = Closed /\ UNCHANGED <<cursor, at, call>>
  <2>1. cursor' = Closed /\ at' = at /\ call' = call BY <1>7
  <2>2. KeysHere' = KeysHere BY <1>7, <2>1 DEF KeysHere
  <2>3. CursorInv' BY <2>1 DEF CursorInv
  <2> QED BY <2>1, <2>2, <2>3
<1>8. CASE UNCHANGED allVars
  <2>1. UNCHANGED <<file, lower, cursor, at, call>> BY <1>8 DEF allVars, vars, segments
  <2>2. KeysHere' = KeysHere BY <2>1 DEF KeysHere
  <2>3. CursorInv'
    <3>1. Height' = Height BY <2>1 DEF Height
    <3>2. \A e : Items(cursor, e)' = Items(cursor, e) BY <2>1 DEF Items
    <3>3. \A e : Child(cursor, e)' = Child(cursor, e) BY <2>1, <3>2 DEF Child
    <3>4. Standing(cursor)' <=> Standing(cursor) BY <2>1, <3>1, <3>2, <3>3 DEF Standing, Places
    <3>5. Steady(cursor)' <=> Steady(cursor) BY <2>1, <3>2, <3>4 DEF Steady
    <3>6. KeyAt(cursor)' = KeyAt(cursor) BY <2>1, <3>2 DEF KeyAt
    <3> QED BY <2>1, <3>1, <3>5, <3>6 DEF CursorInv
  <2> QED BY <2>1, <2>2, <2>3
<1> QED BY <1>1, <1>2, <1>3, <1>4, <1>5, <1>6, <1>7, <1>8 DEF CursorNext

\* CursorInv holds at every step: between two calls the cursors at all depths stand on
\* nodes of the tree, each in the child that the one above it is in.
THEOREM CursorsAreRight == CursorSpec => []CursorInv
<1>1. CursorInit => CursorInv BY DEF CursorInit, CursorInv
<1>2. IInv /\ CursorInv /\ [CursorNext]_allVars => CursorInv' BY CursorSteps
<1> QED BY <1>1, <1>2, CursorsChangeNothing, TreesInvariant, PTL DEF CursorSpec

\* TreeCursors implements SortedCursor: whatever tree the merges have written, and
\* whatever calls were made on the cursor before, each call moves it to the key, and
\* has the result, that the order of the keys alone says (ParentCursor, LeafCursor).
THEOREM TreeCursorsAreSorted == CursorSpec => ImplementsSortedCursor
<1>1. CursorInit => Sorted!Init BY DEF CursorInit, Sorted!Init, KeysHere
<1>2. IInv /\ CursorInv /\ [CursorNext]_allVars => [Sorted!Next]_<<KeysHere, at, call>> BY CursorSteps
<1> QED BY <1>1, <1>2, CursorsChangeNothing, TreesInvariant, CursorsAreRight, PTL
        DEF CursorSpec, ImplementsSortedCursor, Sorted!Spec

=============================================================================
