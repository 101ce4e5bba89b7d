---------------------------- MODULE TreeContents ----------------------------
(***************************************************************************)
(* What becomes of the pairs of two segments while they are merged, at     *)
(* every step of it, and where a cursor on a tree is between any two calls: *)
(* MergeInv and CursorInv, which TreeContents_proofs shows to be invariant, *)
(* and from which it follows that Trees implements Segments, and            *)
(* TreeCursors SortedCursor.                                               *)
(***************************************************************************)
EXTENDS TreeCursors, TreeInvariant

Stored == Values \cup {Tombstone}

\* Some pair of ps has this key.
HasKey(ps, k) == \E p \in ps : p.key = k

\* A pair with the key k and the value v is among some pairs, in a list of them, in a
\* tree, under the items of a list, and under those of some levels.
Among(ps, k, v) == \E p \in ps : p.key = k /\ p.value = v
InList(s, k, v) == \E i \in DOMAIN s : s[i].key = k /\ s[i].value = v
InTree(f, root, k, v) == root # NoPage /\ Among(PairsUnder(f, root), k, v)
InItems(f, s, k, v) == \E i \in DOMAIN s : Among(PairsUnder(f, s[i].page), k, v)
InLevels(f, ch, k, v) == \E d \in DOMAIN ch : InItems(f, ch[d], k, v)

\* It was written, or is in what is left of the trees that are rewritten.
Written(f, lf, ch, hd, k, v) == InList(lf, k, v) \/ InLevels(f, ch, k, v) \/ InItems(f, hd, k, v)
Waiting(f, rd, td, k, v) == InList(rd, k, v) \/ InLevels(f, td, k, v)
Done(k, v) == Written(file, leaf, chain, hand, k, v)
Left(k, v) == Waiting(file, reading, todo, k, v)
Here(k, v) == Done(k, v) \/ Left(k, v)

\* The pairs that are promoted.
Moved == ItemsOf(file, promoted)

\* The lower tree as it is written: what was promoted and has been taken is there,
\* instead of what had the same key, unless a tombstone was dropped; of the other keys
\* there is what the tree has that is rewritten.
MergedSoFar ==
    /\ pairs \subseteq Moved
    /\ \A k \in Keys, v \in Stored :
         /\ HasKey(Moved, k) /\ ~HasKey(pairs, k) =>
              (Here(k, v) => Among(Moved, k, v)) /\ (Among(Moved, k, v) => Here(k, v) \/ v = Tombstone)
         /\ ~HasKey(Moved, k) => (Here(k, v) <=> InTree(file, lower, k, v))

\* And when it is written.
LowerIsMerged ==
    \A k \in Keys, v \in Stored :
        /\ HasKey(Moved, k) =>
             /\ InTree(file, pending.lower, k, v) => Among(Moved, k, v)
             /\ Among(Moved, k, v) => InTree(file, pending.lower, k, v) \/ v = Tombstone
        /\ ~HasKey(Moved, k) => (InTree(file, pending.lower, k, v) <=> InTree(file, lower, k, v))

\* A node either has a promoted leaf under it or no key of it.
AwayFrom(f, pr, n) == \A m \in pr : m \in Below(f, n) \/ KeysUnder(f, m) \cap KeysUnder(f, n) = {}

\* The upper tree as it is written: nothing of what was promoted is there, and
\* everything else that the tree has that is rewritten.
LeftSoFar ==
    /\ \A d \in DOMAIN todo : \A i \in DOMAIN todo[d] : AwayFrom(file, promoted, todo[d][i].page)
    /\ \A k \in Keys, v \in Stored :
         /\ HasKey(Moved, k) => ~Done(k, v)
         /\ ~HasKey(Moved, k) => (Here(k, v) <=> InTree(file, upper, k, v))

UpperIsLeft ==
    \A k \in Keys, v \in Stored :
        /\ HasKey(Moved, k) => ~InTree(file, pending.upper, k, v)
        /\ ~HasKey(Moved, k) => (InTree(file, pending.upper, k, v) <=> InTree(file, upper, k, v))

MergeInv ==
    /\ phase \in {"merge", "survivors", "prepared"} =>
         upper # NoPage /\ promoted \subseteq Below(file, upper)
    /\ phase = "merge" => MergedSoFar
    /\ phase \in {"survivors", "prepared"} => LowerIsMerged
    /\ phase = "survivors" => LeftSoFar
    /\ phase = "prepared" => UpperIsLeft
-----------------------------------------------------------------------------
(* What a step does to the pairs that are written.                         *)

WrittenStays(k, v) == Written(file', leaf', chain', hand', k, v) <=> Written(file, leaf, chain, hand, k, v)
WrittenGains(p, k, v) ==
    Written(file', leaf', chain', hand', k, v)
      <=> Written(file, leaf, chain, hand, k, v) \/ (p.key = k /\ p.value = v)
\* What is there afterwards.
After(k, v) == Written(file', leaf', chain', hand', k, v) \/ Waiting(file', reading', todo', k, v)
Taking(k) == HasKey(pairs, k) /\ ~HasKey(pairs', k)
\* A step of the merge into the lower tree, and of writing the rest of the upper one.
MergeKeeps(k, v) ==
    /\ Taking(k) => (After(k, v) => Among(pairs, k, v)) /\ (Among(pairs, k, v) => After(k, v) \/ v = Tombstone)
    /\ ~HasKey(pairs, k) => (After(k, v) <=> Here(k, v))
SurvivorsKeep(k, v) ==
    /\ HasKey(Moved, k) => (Written(file', leaf', chain', hand', k, v) => Done(k, v))
    /\ ~HasKey(Moved, k) => (After(k, v) <=> Here(k, v))
StillAway == \A d \in DOMAIN todo' : \A i \in DOMAIN todo'[d] :
                 todo'[d][i].page \in DOMAIN file /\ AwayFrom(file, promoted, todo'[d][i].page)
-----------------------------------------------------------------------------
(* Cursors.                                                                *)

\* Whoever opened a cursor has a tree.
Opened == FileOk(file) /\ IsNode(file, lower)
Places == [0..Height -> [page : Nat, cur : Nat]]

\* At every depth there is a node of it, below a parent that has a current child that
\* child.  What the index in the leaf is, is not said.
Standing(c) ==
    /\ c \in Places
    /\ c[Height].page = lower
    /\ \A d \in 0..Height : IsNode(file, c[d].page) /\ file[c[d].page].depth = d
    /\ \A d \in 1..Height : c[d].cur # None =>
         c[d].cur \in DOMAIN Items(c, d) /\ c[d - 1].page = Child(c, d)

Steady(c) == Standing(c) /\ c[0].cur \in 0..Len(Items(c, 0))

CursorInv ==
    cursor # Closed =>
        /\ lower # NoPage /\ Steady(cursor)
        /\ at = IF IsValid(cursor, Height) THEN KeyAt(cursor) ELSE Nowhere

WithCur(c, d, i) == [c EXCEPT ![d].cur = i]

\* The cursor at depth d was moved, not the one above it.
SameAbove(c, v, d) == v[d].page = c[d].page /\ \A e \in 0..Height : e > d => v[e] = c[e]

\* Only the index at the depth d was changed.
CurIs(c, v, d, i) ==
    /\ v \in Places /\ v[d].page = c[d].page /\ v[d].cur = i
    /\ \A e \in 0..Height : e # d => v[e] = c[e]
    /\ \A e \in 0..Height : v[e].page = c[e].page

\* Only the index in the leaf was changed.
LeafMoved(c, v, i) ==
    /\ Standing(v) /\ v[0].cur = i /\ \A d \in 0..Height : v[d].page = c[d].page
    /\ \A d \in 0..Height : d > 0 => v[d] = c[d]
    /\ \A d \in 0..Height : SameAbove(c, v, d)
    /\ \A d \in 0..Height : Items(v, d) = Items(c, d)

\* Under m are some of the keys under n, the first or the last.
FirstUnder(n, m) ==
    /\ KeysUnder(file, m) \subseteq KeysUnder(file, n)
    /\ \A k \in KeysUnder(file, n) \ KeysUnder(file, m) : \A l \in KeysUnder(file, m) : l < k
LastUnder(n, m) ==
    /\ KeysUnder(file, m) \subseteq KeysUnder(file, n)
    /\ \A k \in KeysUnder(file, n) \ KeysUnder(file, m) : \A l \in KeysUnder(file, m) : k < l

\* The keys under n, whose items are s, lie around the key a under the i'th child.
LiesAmong(n, s, i, a) ==
    \A k \in KeysUnder(file, n) : \E j \in DOMAIN s :
        k \in KeysUnder(file, s[j].page) /\ (j < i => k < a) /\ (i < j => a < k)
ListKeys(s) == {s[i].key : i \in DOMAIN s}

\* The loops, as functions of the depth.
LoopsUp(f, a, N, g) == f = [e \in 0..N |-> IF e = 0 THEN a ELSE g[<<e, f[e - 1]>>]]
LoopsDown(f, a, N, g) == f = [e \in 0..N |-> IF e = N THEN a ELSE g[<<e, f[e + 1]>>]]
PagesDown(d, pg, page) ==
    page = [e \in 0..d |-> IF e = d THEN pg ELSE file[page[e + 1]].items[1].page]
FirstsDown(c, d, down) ==
    down = [e \in 0..d |-> IF e = d THEN c ELSE SetChild(down[e + 1], e + 1, 1)]
LastsDown(c, d, down) ==
    down = [e \in 0..d |->
               IF e = d THEN c ELSE SetChild(down[e + 1], e + 1, Len(Items(down[e + 1], e + 1)))]

\* next and prev: in the leaf, and then at each depth.
NextInLeaf(c) ==
    WithCur(c, 0, IF c[0].cur = None \/ c[0].cur = Len(Items(c, 0)) THEN None ELSE c[0].cur + 1)
PrevInLeaf(c) == WithCur(c, 0, IF c[0].cur = None THEN None ELSE c[0].cur - 1)
NextTurn(v, e) ==
    IF IsValid(v, e - 1) \/ v[e].cur = Len(Items(v, e)) THEN v
    ELSE FirstOf(SetChild(v, e, v[e].cur + 1), e - 1)
PrevTurn(v, e) ==
    IF IsValid(v, e - 1) \/ v[e].cur = 1 THEN v
    ELSE LastOf(SetChild(v, e, v[e].cur - 1), e - 1)
NextsUp(c, up) == up = [e \in 0..Height |-> IF e = 0 THEN NextInLeaf(c) ELSE NextTurn(up[e - 1], e)]
PrevsUp(c, up) == up = [e \in 0..Height |-> IF e = 0 THEN PrevInLeaf(c) ELSE PrevTurn(up[e - 1], e)]

\* At the depth e, v stands on the next key after that of c, or is at its end.
NextUnder(c, v, e) ==
    /\ Steady(v) /\ SameAbove(c, v, e)
    /\ IsValid(v, e) =>
         /\ KeyAt(v) \in KeysUnder(file, c[e].page) /\ KeyAt(c) < KeyAt(v)
         /\ \A k \in KeysUnder(file, c[e].page) : KeyAt(c) < k => KeyAt(v) <= k
    /\ ~IsValid(v, e) => \A k \in KeysUnder(file, c[e].page) : k <= KeyAt(c)
PrevUnder(c, v, e) ==
    /\ Steady(v) /\ SameAbove(c, v, e)
    /\ IsValid(v, e) =>
         /\ KeyAt(v) \in KeysUnder(file, c[e].page) /\ KeyAt(v) < KeyAt(c)
         /\ \A k \in KeysUnder(file, c[e].page) : k < KeyAt(c) => k <= KeyAt(v)
    /\ ~IsValid(v, e) => \A k \in KeysUnder(file, c[e].page) : KeyAt(c) <= k

\* The search in a leaf: everything before min is before k, everything after max after it.
Sorts(items) ==
    /\ Len(items) \in Nat /\ Len(items) >= 1 /\ DOMAIN items = 1..Len(items)
    /\ \A i \in DOMAIN items : items[i].key \in Int
    /\ \A i, j \in DOMAIN items : i < j => items[i].key < items[j].key
SearchRound(s, items, k) ==
    IF s.max < s.min \/ (~(s.max < s.min) /\ items[Middle(s)].key = k) THEN s ELSE Narrow(s, items, k)
SearchRounds(items, k, round) ==
    round = [n \in 0..Len(items) |->
                IF n = 0 THEN [min |-> 1, max |-> Len(items), le |-> None, ge |-> None]
                ELSE SearchRound(round[n - 1], items, k)]
Searching == [min : Int, max : Int, le : Int, ge : Int]
SearchInv(items, k, s, n) ==
    /\ s \in Searching /\ 1 <= s.min /\ s.max <= Len(items) /\ s.min <= s.max + 1
    /\ s.le = s.min - 1 /\ s.ge = IF s.max = Len(items) THEN None ELSE s.max + 1
    /\ \A j \in DOMAIN items : (j < s.min => items[j].key < k) /\ (s.max < j => k < items[j].key)
    /\ s.min <= s.max => items[Middle(s)].key = k \/ s.max - s.min + 1 <= Len(items) - n

\* t is where a seek of k has to go among the keys in K; there is no such key.
IsTarget(K, k, op, t) ==
    /\ t \in K
    /\ op = "EQ" => t = k
    /\ op = "LE" => t <= k /\ \A m \in K : m <= k => m <= t
    /\ op = "GE" => k <= t /\ \A m \in K : k <= m => t <= m
NoTarget(K, k, op) ==
    /\ op = "EQ" => k \notin K
    /\ op = "LE" => \A m \in K : k < m
    /\ op = "GE" => \A m \in K : m < k
SearchFinds(items, k, op, i) ==
    /\ i \in 0..Len(items)
    /\ i # None => IsTarget(ListKeys(items), k, op, items[i].key)
    /\ i = None => NoTarget(ListKeys(items), k, op)

\* seek: down to where k has to be, and what each of the cursors finds, from the leaf up.
SeekDown(v, d, k) == IF Reach(v, d, k) = {} THEN v ELSE SetChild(v, d, FirstReach(v, d, k))
SeeksDown(cur, k, down) ==
    down = [d \in 0..Height |-> IF d = Height THEN cur ELSE SeekDown(down[d + 1], d + 1, k)]
SeekUp(v, below, d, k, op) ==
    IF Reach(v, d, k) # {} THEN SeekFrom(below, d, op)
    ELSE IF op = "LE" THEN Sought(LastOf(v, d), "unequal")
    ELSE Sought(WithCur(v, d, None), "invalid")
SeeksUp(down, k, op, seek) ==
    seek = [d \in 0..Height |->
               IF d = 0 THEN SeekInLeaf(down[0], k, op) ELSE SeekUp(down[d], seek[d - 1], d, k, op)]
Results == {"invalid", "equal", "unequal"}
SeekUnder(v, x, d, k, op) ==
    /\ Steady(x.c) /\ SameAbove(v, x.c, d)
    /\ IsValid(x.c, d) =>
         /\ IsTarget(KeysUnder(file, v[d].page), k, op, KeyAt(x.c))
         /\ x.result = IF KeyAt(x.c) = k THEN "equal" ELSE "unequal"
    /\ ~IsValid(x.c, d) => NoTarget(KeysUnder(file, v[d].page), k, op) /\ x.result = "invalid"
Facing(v, d, k) == \E m \in KeysUnder(file, v[d].page) : k <= m
=============================================================================
