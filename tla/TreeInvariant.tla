--------------------------- MODULE TreeInvariant ---------------------------
(***************************************************************************)
(* What holds of Trees between any two steps, however far a merge has got: *)
(* IInv, the inductive invariant of Trees_proofs, and what its proofs need *)
(* to speak of.                                                            *)
(*                                                                         *)
(* SInv says that pages, and the lists of the writer and of what is still  *)
(* to be written, are sound and in order.  OInv says that every page of    *)
(* the file has one holder: a list of the writer, what is left to write, a *)
(* root, a node that refers to it, or the freed or the lost pages.         *)
(***************************************************************************)
EXTENDS Trees

-----------------------------------------------------------------------------
(* Numbers, and what loops compute.                                        *)

LeastOf(S) == CHOOSE k \in S : \A m \in S : k <= m
GreatestOf(S) == CHOOSE k \in S : \A m \in S : m <= k
\* A loop over the numbers from b to N, that starts with a and goes from x to g[<<n, x>>]
\* in round n.
AreSteps(g, X) == g \in [Int \X X -> X]
IsLoopOf(f, X, a, b, N, g) ==
    f \in [b..N -> X] /\ f[b] = a /\ \A n \in b + 1..N : f[n] = g[<<n, f[n - 1]>>]

-----------------------------------------------------------------------------
(* Sums.                                                                   *)

\* s holds the sums of the first numbers of seq.
AreSums(s, seq) ==
    s = [n \in 0..Len(seq) |-> IF n = 0 THEN 0 ELSE s[n - 1] + seq[n]]

-----------------------------------------------------------------------------
(* Files: what is in a page, and the trees of pages.                       *)

PairRec == [key : Keys, value : Values \cup {Tombstone}, keyPage : Nat, valuePage : Nat]
ItemRec == [page : Nat, key : Keys, location : {"inline", "owned", "borrowed"},
            overflow : Nat, leaves : Nat, tombstones : Nat]
LeafNode == [depth : {0}, items : Seq(PairRec)]
ParentNode == [depth : Nat \ {0}, items : Seq(ItemRec)]
\* The page n is a leaf or a parent.
IsLeaf(f, n) == n \in DOMAIN f /\ f[n] \in LeafNode
IsInner(f, n) == n \in DOMAIN f /\ f[n] \in ParentNode
IsNode(f, n) == IsLeaf(f, n) \/ IsInner(f, n)
Children(f, n) == {f[n].items[i].page : i \in DOMAIN f[n].items}
\* The children of a parent are nodes one level below it.
Forest(f) ==
    /\ IsFiniteSet(DOMAIN f) /\ DOMAIN f \subseteq Nat \ {NoPage}
    /\ \A n \in DOMAIN f : IsNode(f, n) \/ f[n] = Overflow
    /\ \A n \in DOMAIN f : IsInner(f, n) =>
         \A c \in Children(f, n) : IsNode(f, c) /\ f[c].depth = f[n].depth - 1

\* What below is in Below.
AreTrees(f, b) ==
    b = [n \in DOMAIN f |->
            IF IsParent(f, n) THEN {n} \cup UNION {b[f[n].items[i].page] : i \in DOMAIN f[n].items}
            ELSE {n}]

\* g has all the pages of f.
Extends(g, f) == DOMAIN f \subseteq DOMAIN g /\ \A n \in DOMAIN f : g[n] = f[n]

-----------------------------------------------------------------------------
(* What is in the pages of a file, and in the lists that refer to them.    *)

Small(k) == KeySize[k] <= MaxInline
Ascending(s) == \A i, j \in DOMAIN s : i < j => s[i].key < s[j].key
\* A pair, with its overflows; tombstones have none for a value.
PairOk(f, p) ==
    /\ p \in PairRec
    /\ p.keyPage # NoPage => IsOverflow(f, p.keyPage)
    /\ p.valuePage # NoPage => IsOverflow(f, p.valuePage) /\ p.value \in LongValues

PairsOk(f, s) == s \in Seq(PairRec) /\ (\A i \in DOMAIN s : PairOk(f, s[i])) /\ Ascending(s)
\* What a leaf can have, and LeafUnderConstruction.
LeafOk(f, s) ==
    /\ PairsOk(f, s)
    /\ \A i \in DOMAIN s : s[i].keyPage = NoPage => Small(s[i].key)
    /\ LeafSize(s) <= LeafRoom

LastItem(f, n) == f[n].items[Len(f[n].items)]
\* An item of a parent of depth d.
ItemOk(f, d, c) ==
    /\ c \in ItemRec /\ IsNode(f, c.page) /\ AgreesWith(f, d, c)
    /\ c.location # "borrowed" =>
          Small(c.key) /\ (d = 1 => LastItem(f, c.page).keyPage = NoPage)
    /\ c.location = "owned" => IsOverflow(f, c.overflow)

\* What is under b comes after the key of a.
Before(f, a, b) == \A k \in KeysUnder(f, b.page) : a.key < k
ItemsOk(f, d, s) ==
    /\ s \in Seq(ItemRec)
    /\ \A i \in DOMAIN s : ItemOk(f, d, s[i])
    /\ \A i, j \in DOMAIN s : i < j => Before(f, s[i], s[j])
\* What a parent can have, and a level of the chain.
LevelOk(f, d, s) ==
    /\ ItemsOk(f, d, s) /\ ParentSize(s) <= ParentRoom
    /\ Len(s) = 1 => s[1].location # "owned"
PageOk(f, n) ==
    /\ IsLeaf(f, n) => f[n].items # <<>> /\ LeafOk(f, f[n].items)
    /\ IsInner(f, n) => /\ f[n].items # <<>> /\ ItemsOk(f, f[n].depth, f[n].items)
                        /\ ParentSize(f[n].items) <= ParentRoom
FileOk(f) == Forest(f) /\ \A n \in DOMAIN f : PageOk(f, n)

-----------------------------------------------------------------------------
(* Writing leaves and parents.                                             *)

ItemPages(s) == {s[i].page : i \in DOMAIN s}

-----------------------------------------------------------------------------
(* The leaf and the chain under construction.                              *)

\* The levels of the chain: what is in a higher one comes before what is in a lower
\* one, and before the pairs of the leaf.
LevelsOk(f, lf, ch) ==
    /\ ch \in Seq(Seq(ItemRec)) /\ Len(ch) >= 2
    /\ \A d \in DOMAIN ch : LevelOk(f, d, ch[d])
    /\ \A d, e \in DOMAIN ch : d < e =>
         \A i \in DOMAIN ch[e], j \in DOMAIN ch[d] : Before(f, ch[e][i], ch[d][j])
    /\ \A d \in DOMAIN ch : \A i \in DOMAIN ch[d], j \in DOMAIN lf : ch[d][i].key < lf[j].key

ShortTop(ch) == Len(ch[Len(ch)]) <= 1
\* The item in hand belongs behind what is at its level and above.
HandOk(f, lf, ch, c, l) ==
    /\ l \in DOMAIN ch /\ ItemOk(f, l, c) /\ c.location # "owned"
    /\ \A d \in DOMAIN ch : \A i \in DOMAIN ch[d] :
         (d >= l => Before(f, ch[d][i], c)) /\ (d < l => Before(f, c, ch[d][i]))
    /\ \A j \in DOMAIN lf : c.key < lf[j].key

WriterOk(f, lf, ch, hd, l) ==
    /\ LeafOk(f, lf) /\ LevelsOk(f, lf, ch) /\ ShortTop(ch)
    /\ hd = <<>> \/ \E c : hd = <<c>> /\ HandOk(f, lf, ch, c, l)
\* Everything that is in the writer comes before the key y.
UpTo(lf, ch, hd, y) ==
    /\ \A i \in DOMAIN lf : lf[i].key < y
    /\ \A d \in DOMAIN ch : \A i \in DOMAIN ch[d] : ch[d][i].key < y
    /\ \A i \in DOMAIN hd : hd[i].key < y

\* A level gets other items.
LevelFits(f, lf, ch, l, it) ==
    /\ LevelOk(f, l, it)
    /\ \A d \in DOMAIN ch : \A i \in DOMAIN ch[d], j \in DOMAIN it :
         (d > l => Before(f, ch[d][i], it[j])) /\ (d < l => Before(f, it[j], ch[d][i]))
    /\ \A i \in DOMAIN it, j \in DOMAIN lf : it[i].key < lf[j].key

\* What add_child_to_current makes of a level, and of the chain.
WithItem(f, s, c) == MakeTwoFit([file |-> f, items |-> Append(s, c)])
ChainWith(ch, l, it) ==
    IF l = Len(ch) /\ ch[l] # <<>> THEN Append([ch EXCEPT ![l] = it], <<>>)
    ELSE [ch EXCEPT ![l] = it]
\* What the level above is told of a page with the items s.
Tells(f, g, d, s, c) ==
    /\ ItemOk(g, d + 1, c) /\ c.location # "owned" /\ c.key = s[Len(s)].key
    /\ KeysUnder(g, c.page) = UNION {KeysUnder(f, s[i].page) : i \in DOMAIN s}
    /\ c.page = NextPage(f) /\ Children(g, c.page) = ItemPages(s)

-----------------------------------------------------------------------------
(* Pairs that are put into the leaf.                                       *)

\* A pair with its overflows, as it is put.
ToPut(f, p) == WithValuePage(WithKeyPage([file |-> f, p |-> p]))

-----------------------------------------------------------------------------
(* What is read and merged.                                                *)

\* The pairs that are written or promoted.
SourceOk(f, ps) ==
    /\ IsFiniteSet(ps) /\ \A p \in ps : PairOk(f, p)
    /\ \A p, q \in ps : p.key = q.key => p = q
\* What is left of the leaf and the parents that are rewritten: what is in a lower
\* level comes first.
TodoOk(f, rd, td) ==
    /\ td \in Seq(Seq(ItemRec)) /\ \A d \in DOMAIN td : ItemsOk(f, d, td[d])
    /\ \A d, e \in DOMAIN td : d < e =>
         \A i \in DOMAIN td[d], j \in DOMAIN td[e] : Before(f, td[d][i], td[e][j])
    /\ \A d \in DOMAIN td : \A i \in DOMAIN td[d], j \in DOMAIN rd : Before(f, rd[j], td[d][i])

SourcesOk(f, ps, rd, td) == SourceOk(f, ps) /\ PairsOk(f, rd) /\ TodoOk(f, rd, td)
\* Everything in the writer comes before what is still to be read.
UpToTodo(f, td, lf, ch, hd) ==
    \A d \in DOMAIN td : \A i \in DOMAIN td[d] : \A k \in KeysUnder(f, td[d][i].page) : UpTo(lf, ch, hd, k)
UpToReading(rd, lf, ch, hd) == \A i \in DOMAIN rd : UpTo(lf, ch, hd, rd[i].key)
UpToPairs(ps, lf, ch, hd) == \A p \in ps : UpTo(lf, ch, hd, p.key)
UpToSources(f, ps, rd, td, lf, ch, hd) ==
    UpToPairs(ps, lf, ch, hd) /\ UpToReading(rd, lf, ch, hd) /\ UpToTodo(f, td, lf, ch, hd)

-----------------------------------------------------------------------------
(* What holds of the whole: the pages, the roots, the writer and what it   *)
(* still has to write are sound, and nothing of what is promoted is kept.  *)

Unmerged == promoted = {} /\ freed = {} /\ dropped = {} /\ pending = NoSegments
PhaseOk ==
    /\ phase \in {"idle", "write", "merge", "survivors", "prepared"}
    /\ phase = "idle" => pairs = {} /\ reading = <<>> /\ todo = <<>> /\ Unmerged
    /\ phase = "write" => reading = <<>> /\ todo = <<>> /\ upper = NoPage /\ Unmerged
    /\ phase = "merge" => upper # NoPage /\ pending = NoSegments
    /\ phase = "survivors" => pairs = {} /\ reading = <<>> /\ pending.upper = NoPage
    /\ phase = "prepared" => pairs = {} /\ reading = <<>> /\ AllEmpty(todo)
    /\ phase \in {"idle", "prepared"} => leaf = <<>> /\ chain = NewChain /\ hand = <<>> /\ keep = 0

KeepOk ==
    /\ keep \in Nat
    /\ keep > 0 =>
         /\ phase \in {"merge", "survivors"} /\ reading = <<>> /\ ~AllEmpty(todo)
         /\ keep <= Len(todo[Depth]) /\ Depth <= Len(chain)
         /\ \A i \in 1..keep : pairs # {} => todo[Depth][i].key < NextPair.key
         /\ phase = "survivors" => keep = 1 /\ ~OnLineage(Item)

RootOk(f, root) == root = NoPage \/ IsNode(f, root)
RootsOk ==
    /\ pending \in [upper : Nat, lower : Nat, panicked : BOOLEAN]
    /\ RootOk(file, upper) /\ RootOk(file, lower)
    /\ RootOk(file, pending.upper) /\ RootOk(file, pending.lower)
\* None of the pages pr is under an item of s, or of a level.
Clean(f, pr, n) == Below(f, n) \cap pr = {}
AllClean(f, pr, s) == \A i \in DOMAIN s : Clean(f, pr, s[i].page)
LevelsClean(f, pr, ch) == \A d \in DOMAIN ch : AllClean(f, pr, ch[d])
RootClean(f, pr, root) == root # NoPage => Clean(f, pr, root)
CleanOk ==
    /\ LevelsClean(file, promoted, chain) /\ AllClean(file, promoted, hand)
    /\ phase = "merge" => LevelsClean(file, promoted, todo)
    /\ RootClean(file, promoted, pending.upper) /\ RootClean(file, promoted, pending.lower)
    /\ \A p \in promoted : IsLeaf(file, p)
    /\ phase = "merge" => promoted \cap freed = {}
    /\ phase \in {"survivors", "prepared"} => promoted \subseteq freed

WritingOk == WriterOk(file, leaf, chain, hand, level)
ReadingOk == SourcesOk(file, pairs, reading, todo)
InOrder == UpToSources(file, pairs, reading, todo, leaf, chain, hand)
SInv == /\ writes \in Nat /\ FileOk(file) /\ PhaseOk /\ KeepOk /\ RootsOk
        /\ WritingOk /\ ReadingOk /\ InOrder /\ CleanOk
\* All keys that are still to come are greater than k.
Follow(f, k, ps, rd, td) ==
    /\ \A p \in ps : k < p.key
    /\ \A i \in DOMAIN rd : k < rd[i].key
    /\ \A d \in DOMAIN td : \A i \in DOMAIN td[d] : \A m \in KeysUnder(f, td[d][i].page) : k < m

-----------------------------------------------------------------------------
(* The steps that take pairs.                                              *)

\* Either the writer takes a pair with the key k, or it does nothing.
Takes(p) ==
    \/ PutPair(p) /\ PairOk(file, p) /\ UpTo(leaf, chain, <<>>, p.key)
    \/ UNCHANGED <<file, leaf, hand, level>>

-----------------------------------------------------------------------------
(* Segments begin and end.                                                 *)

\* The trees of the two segments have no page in common.
Apart(f, a, b) == a # NoPage /\ b # NoPage => Below(f, a) \cap Below(f, b) = {}

-----------------------------------------------------------------------------
(* The pages that are referred to.                                         *)

What == {"child", "key", "value"}
\* The pages that an item of depth d refers to, and those of a list.
Refs(d, c) == {PageOf(d, c, what) : what \in What} \ {NoPage}
PagesOf(d, s) == UNION {Refs(d, s[i]) : i \in DOMAIN s}
NodePages(f, n) == PagesOf(f[n].depth, f[n].items)

-----------------------------------------------------------------------------
(* Who has which page: the lists of the writer, what is still to be        *)
(* written, the roots, the freed and the lost pages, and the nodes that    *)
(* are not promoted or freed.                                              *)

\* No page is twice in an item, or in a list.
Single(d, c) == \A v, w \in What : PageOf(d, c, v) = PageOf(d, c, w) /\ PageOf(d, c, v) # NoPage => v = w
Distinct(d, s) ==
    /\ \A i \in DOMAIN s : Single(d, s[i])
    /\ \A i, j \in DOMAIN s : i # j => Refs(d, s[i]) \cap Refs(d, s[j]) = {}
Once(s) == \A i, j \in DOMAIN s : i # j => s[i].page # s[j].page
PairsPages(ps) == UNION {Refs(0, p) : p \in ps}
PairsDistinct(ps) ==
    /\ \A p \in ps : Single(0, p)
    /\ \A p, q \in ps : p # q => Refs(0, p) \cap Refs(0, q) = {}
NodesDistinct(f, pr, fr) ==
    \A n : IsNode(f, n) /\ n \notin pr \cup fr => Distinct(f[n].depth, f[n].items)
LevelPages(ch, d) == IF d \in DOMAIN ch THEN PagesOf(1, ch[d]) ELSE {}
TodoPages(td, gone, d) == IF d \in DOMAIN td THEN ItemPages(td[d]) \ gone ELSE {}
LivePages(f, pr, fr, n) ==
    IF IsNode(f, n) /\ n \notin pr \cup fr THEN NodePages(f, n) \ (pr \cap fr) ELSE {}
RootPages(hs, gone, i) == {hs[i]} \ ({NoPage} \cup gone)
At(kind, n) == <<kind, n>>
Holders == ({"leaf", "reading", "hand", "pairs", "freed", "lost"} \X {0})
             \cup ({"root"} \X {1, 2}) \cup ({"chain", "todo", "node"} \X Nat)
\* A page that was promoted and is freed is not counted where it is still referred to.
Owned(f, hs, lf, ch, hd, ps, rd, td, pr, fr, lo) ==
    [h \in Holders |->
        CASE h[1] = "leaf" -> PagesOf(0, lf)
          [] h[1] = "reading" -> PagesOf(0, rd)
          [] h[1] = "hand" -> PagesOf(1, hd)
          [] h[1] = "pairs" -> PairsPages(ps)
          [] h[1] = "freed" -> fr
          [] h[1] = "lost" -> lo
          [] h[1] = "root" -> RootPages(hs, pr \cap fr, h[2])
          [] h[1] = "chain" -> LevelPages(ch, h[2])
          [] h[1] = "todo" -> TodoPages(td, pr \cap fr, h[2])
          [] h[1] = "node" -> LivePages(f, pr, fr, h[2])]

\* Every page of D belongs to one holder.
Partition(H, D) ==
    /\ \A h \in Holders : \A q \in H[h] : q \in D
    /\ \A q \in D : \E h \in Holders : q \in H[h]
    /\ \A h, g \in Holders : h # g => H[h] \cap H[g] = {}

Owning(f, hs, lf, ch, hd, ps, rd, td, pr, fr, lo) ==
    /\ Partition(Owned(f, hs, lf, ch, hd, ps, rd, td, pr, fr, lo), DOMAIN f)
    /\ Distinct(0, lf) /\ Distinct(0, rd) /\ Distinct(1, hd) /\ PairsDistinct(ps)
    /\ \A d \in DOMAIN ch : Distinct(1, ch[d])
    /\ \A d \in DOMAIN td : Once(td[d])
    /\ NodesDistinct(f, pr, fr)
    /\ \A q \in lo : IsOverflow(f, q)

\* What the holders have, and what holders there are.
OwnedAre(H, f, hs, lf, ch, hd, ps, rd, td, pr, fr, lo) ==
    /\ H[At("leaf", 0)] = PagesOf(0, lf) /\ H[At("reading", 0)] = PagesOf(0, rd)
    /\ H[At("hand", 0)] = PagesOf(1, hd) /\ H[At("pairs", 0)] = PairsPages(ps)
    /\ H[At("freed", 0)] = fr /\ H[At("lost", 0)] = lo
    /\ H[At("root", 1)] = RootPages(hs, pr \cap fr, 1) /\ H[At("root", 2)] = RootPages(hs, pr \cap fr, 2)
    /\ \A d \in Nat : H[At("chain", d)] = LevelPages(ch, d)
    /\ \A d \in Nat : H[At("todo", d)] = TodoPages(td, pr \cap fr, d)
    /\ \A n \in Nat : H[At("node", n)] = LivePages(f, pr, fr, n)

\* The holders that are not in S have the same.
SameBut(S, H, G) ==
    /\ At("leaf", 0) \notin S => G[At("leaf", 0)] = H[At("leaf", 0)]
    /\ At("reading", 0) \notin S => G[At("reading", 0)] = H[At("reading", 0)]
    /\ At("hand", 0) \notin S => G[At("hand", 0)] = H[At("hand", 0)]
    /\ At("pairs", 0) \notin S => G[At("pairs", 0)] = H[At("pairs", 0)]
    /\ At("freed", 0) \notin S => G[At("freed", 0)] = H[At("freed", 0)]
    /\ At("lost", 0) \notin S => G[At("lost", 0)] = H[At("lost", 0)]
    /\ At("root", 1) \notin S => G[At("root", 1)] = H[At("root", 1)]
    /\ At("root", 2) \notin S => G[At("root", 2)] = H[At("root", 2)]
    /\ \A n \in Nat : At("chain", n) \notin S => G[At("chain", n)] = H[At("chain", n)]
    /\ \A n \in Nat : At("todo", n) \notin S => G[At("todo", n)] = H[At("todo", n)]
    /\ \A n \in Nat : At("node", n) \notin S => G[At("node", n)] = H[At("node", n)]

\* Some holders change: among them they have what they had, and the new pages.
Exchange(S, H, G, D, E) ==
    /\ S \subseteq Holders /\ D \subseteq E
    /\ \A h \in S : \A q \in G[h] : q \in E /\ (q \in D => \E g \in S : q \in H[g])
    /\ \A h \in S : \A q \in H[h] : \E g \in S : q \in G[g]
    /\ \A q \in E \ D : \E g \in S : q \in G[g]
    /\ \A h, g \in S : h # g => G[h] \cap G[g] = {}

\* What a node has when the freed pages become ff, and when other pages are written.
FreedMore(f, pr, fr, x, ff) ==
    /\ pr \cap ff = pr \cap fr
    /\ \A n : n \notin x => LivePages(f, pr, ff, n) = LivePages(f, pr, fr, n)
    /\ \A n : n \in x => LivePages(f, pr, ff, n) = {}
    /\ \A n : IsOverflow(f, n) => LivePages(f, pr, fr, n) = {}
    /\ NodesDistinct(f, pr, fr) => NodesDistinct(f, pr, ff)

\* A node that is written has the pages it refers to.
NodeAdded(f, g, new, node, pr, fr) ==
    /\ Extends(g, f) /\ DOMAIN g = DOMAIN f \cup {new} /\ new \in Nat /\ new \notin DOMAIN f
    /\ LivePages(g, pr, fr, new) = PagesOf(node.depth, node.items)
    /\ LivePages(f, pr, fr, new) = {}
    /\ \A n : n # new => LivePages(g, pr, fr, n) = LivePages(f, pr, fr, n)
    /\ NodesDistinct(f, pr, fr) /\ Distinct(node.depth, node.items) => NodesDistinct(g, pr, fr)
    /\ \A n : IsOverflow(f, n) => IsOverflow(g, n)

-----------------------------------------------------------------------------
(* How pages go from one holder to another.                                *)

\* Roots with a free place, which has n in it.
Between(hs, kk, i, n) == hs[i] = NoPage /\ kk[i] = n /\ \A j \in {1, 2} : j # i => kk[j] = hs[j]
Disjoint(x, y) == x \cap y = {}
Alone(x) == {x}
\* A parent and the overflows it owns.
WithOverflows(f, n) == {n} \cup OwnedOverflows(f[n])
\* The first item of the list s of level d is gone.
Passed(td, d, s, tt) ==
    /\ td \in Seq(Seq(ItemRec)) /\ d \in DOMAIN td /\ s \in Seq(ItemRec) /\ s = td[d] /\ s # <<>>
    /\ DOMAIN tt = DOMAIN td /\ tt[d] = Tail(s) /\ \A e \in DOMAIN td : e # d => tt[e] = td[e]
\* A level takes what is in hand, with the overflows that were needed to make it fit.
LevelGrows(ch, cc, d, hd, f, g) ==
    /\ Extends(g, f) /\ \A n \in DOMAIN g \ DOMAIN f : ~IsNode(g, n)
    /\ DOMAIN ch \subseteq DOMAIN cc /\ \A e \in DOMAIN ch : e # d => cc[e] = ch[e]
    /\ \A e \in DOMAIN cc \ DOMAIN ch : cc[e] = <<>>
    /\ PagesOf(1, cc[d]) = PagesOf(1, ch[d]) \cup PagesOf(1, hd) \cup (DOMAIN g \ DOMAIN f)
    /\ Distinct(1, cc[d])

\* The items s of a parent are next, at a level where nothing is left.
TodoGrows(td, tt, e, s) ==
    /\ e \in DOMAIN tt /\ tt[e] = s /\ \A n \in DOMAIN tt : n # e => Once(tt[n])
    /\ \A z : TodoPages(td, z, e) = {}
    /\ \A n, z : n # e => TodoPages(tt, z, n) = TodoPages(td, z, n)

-----------------------------------------------------------------------------
(* What follows when nothing is being written.                             *)

Live(f, fr, n) == IsNode(f, n) /\ n \notin fr
\* Who has which page when the writer and what it has to write are empty.
Placed(f, hs, pr, fr, lo) ==
    /\ \A n : Live(f, fr, n) => \A q \in NodePages(f, n) \ pr : q \notin fr \cup lo /\ q # hs[1] /\ q # hs[2]
    /\ \A n, m : Live(f, fr, n) /\ Live(f, fr, m) /\ n # m =>
         \A q \in NodePages(f, n) \ pr : q \notin NodePages(f, m)
    /\ \A n : Live(f, fr, n) => Distinct(f[n].depth, f[n].items)
    /\ hs[1] = hs[2] => hs[1] = NoPage
    /\ \A i \in {1, 2} : hs[i] # NoPage => hs[i] \notin fr \cup lo
    /\ \A q \in DOMAIN f : \/ q \in fr \cup lo
                           \/ \E i \in {1, 2} : q = hs[i] /\ q # NoPage
                           \/ \E n : Live(f, fr, n) /\ q \in NodePages(f, n) \ pr
    /\ \A q \in lo : IsOverflow(f, q) /\ q \notin fr

Settled(f, hs, ch, td, pr, fr, lo) ==
    /\ FileOk(f) /\ pr \subseteq fr /\ \A n \in pr : IsLeaf(f, n)
    /\ Owning(f, hs, <<>>, ch, <<>>, {}, <<>>, td, pr, fr, lo)
    /\ \A n \in Nat : LevelPages(ch, n) = {}
    /\ \A z : \A n \in Nat : TodoPages(td, z, n) = {}
    /\ \A i \in {1, 2} : RootOk(f, hs[i]) /\ RootClean(f, pr, hs[i])

-----------------------------------------------------------------------------
(* The pages of what is put and what is told.                              *)

\* Overflows were added: no other page.
Added(g, f) == Extends(g, f) /\ \A n \in DOMAIN g \ DOMAIN f : ~IsNode(g, n)
\* Overflows were added for the keys of s, which are now the items of u.
Swollen(f, d, s, u) ==
    /\ FileOk(u.file) /\ Added(u.file, f) /\ ItemsOk(u.file, d, u.items) /\ u = [file |-> u.file, items |-> u.items]
    /\ DOMAIN u.items = DOMAIN s /\ Distinct(1, u.items)
    /\ PagesOf(1, u.items) = PagesOf(1, s) \cup (DOMAIN u.file \ DOMAIN f)

-----------------------------------------------------------------------------
(* Every page has one owner, whatever step is taken.                       *)

\* The roots of the trees that are not taken apart.
Heads == CASE phase \in {"idle", "write"} -> <<upper, lower>>
           [] phase = "merge" -> <<upper, NoPage>>
           [] phase \in {"survivors", "prepared"} -> <<pending.upper, pending.lower>>
Holding == Owning(file, Heads, leaf, chain, hand, pairs, reading, todo, promoted, freed, lost \cup dropped)
\* A segment of one leaf is promoted as a whole.
UpperTaken == phase = "merge" => IsInner(file, upper) \/ upper \in promoted
\* No two places refer to the same page: OneOwner, without counting them.
Unshared(f, roots) ==
    \A r, s \in References(f, roots) : Target(f, roots, r) = Target(f, roots, s) => r = s
OInv == Holding /\ refreed = {} /\ Unshared(file, Old) /\ UpperTaken
\* What a step keeps.
Kept == Holding' /\ refreed' = {} /\ Extends(file', file) /\ UpperTaken'
\* An item c that the list s of a level d may take.
Fitting(f, d, s, c) ==
    /\ FileOk(f) /\ LevelOk(f, d, s) /\ ItemOk(f, d, c) /\ c.location # "owned"
    /\ \A i \in DOMAIN s : Before(f, s[i], c)
    /\ Len(s) < 2 \/ ParentSize(s) + ParentNeed(c) <= ParentRoom

\* The list that it makes of s, with the overflows that it takes.
Grown(f, s, c, t) ==
    /\ t.items \in Seq(ItemRec) /\ Extends(t.file, f) /\ (\A n \in DOMAIN t.file \ DOMAIN f : ~IsNode(t.file, n))
    /\ Distinct(1, t.items) /\ PagesOf(1, t.items) = PagesOf(1, s) \cup Refs(1, c) \cup (DOMAIN t.file \ DOMAIN f)

-----------------------------------------------------------------------------
(* The owners when pairs are taken.                                        *)

\* The pairs of lf and those of one are all that the list a has.
Split(a, lf, one) ==
    /\ Distinct(0, lf) /\ Distinct(0, one)
    /\ PagesOf(0, a) = PagesOf(0, lf) \cup PagesOf(0, one) /\ PagesOf(0, lf) \cap PagesOf(0, one) = {}

-----------------------------------------------------------------------------
(* The theorems.                                                           *)

IInv == SInv /\ OInv
\* The two trees are what they were.
TreesUnchanged ==
    \A root \in {upper, lower} \ {NoPage} :
        Below(file', root) = Below(file, root) /\ PairsUnder(file', root) = PairsUnder(file, root)
\* The pairs of the segments are those of the trees.
HeldIsContents == held = [upper |-> Contents(file, upper), lower |-> Contents(file, lower)]

=============================================================================
