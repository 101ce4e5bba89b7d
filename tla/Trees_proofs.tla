---------------------------- MODULE Trees_proofs ----------------------------
(***************************************************************************)
(* What the proof system proves of Trees and TreeCursors: TreeInvariant    *)
(* has the invariant.  A lemma XSound says that step X keeps SInv, XOwns   *)
(* that it keeps OInv; the theorems are at the end.                        *)
(***************************************************************************)
EXTENDS TreeCursors, TreeInvariant, FiniteSetTheorems, WellFoundedInduction, TLAPS

-----------------------------------------------------------------------------
(* Numbers, and what loops compute.                                        *)

\* Among finitely many integers there is a least one.
LEMMA LeastOfFinite ==
    ASSUME NEW S \in SUBSET Int, IsFiniteSet(S), S # {}
    PROVE  LeastOf(S) \in S /\ \A k \in S : LeastOf(S) <= k
<1> DEFINE T == {{l \in S : l <= k} : k \in S}
<1>1. T \subseteq FiniteSubsetsOf(S) /\ T # {}
  <2>1. \A k \in S : {l \in S : l <= k} \in SUBSET S /\ IsFiniteSet({l \in S : l <= k}) BY FS_Subset
  <2> QED BY <2>1 DEF FiniteSubsetsOf
<1>2. PICK X \in T : \A Y \in T : <<Y, X>> \notin StrictSubsetOrdering(S)
  BY <1>1, FS_StrictSubsetOrderingWellFounded, WFMin, Zenon
<1>3. PICK k \in S : X = {l \in S : l <= k} OBVIOUS
<1>4. ASSUME NEW m \in S, m < k
      PROVE  FALSE
  <2>1. k \in X /\ k \notin {l \in S : l <= m} /\ {l \in S : l <= m} \subseteq X
    <3>1. k \in Int /\ m \in Int /\ \A l \in S : l \in Int OBVIOUS
    <3>2. \A l \in S : l <= m => l <= k BY <1>4, <3>1
    <3>3. k <= k /\ ~(k <= m) BY <1>4, <3>1
    <3> QED BY <1>3, <3>2, <3>3
  <2>2. <<{l \in S : l <= m}, X>> \in StrictSubsetOrdering(S) BY <1>3, <2>1 DEF StrictSubsetOrdering
  <2> QED BY <1>2, <2>2
<1>5. \A m \in S : k <= m BY <1>4
<1> QED BY <1>5 DEF LeastOf

\* And a greatest.
LEMMA GreatestOfFinite ==
    ASSUME NEW S \in SUBSET Int, IsFiniteSet(S), S # {}
    PROVE  GreatestOf(S) \in S /\ \A k \in S : k <= GreatestOf(S)
<1> DEFINE T == {{l \in S : l >= k} : k \in S}
<1>1. T \subseteq FiniteSubsetsOf(S) /\ T # {}
  <2>1. \A k \in S : {l \in S : l >= k} \in SUBSET S /\ IsFiniteSet({l \in S : l >= k}) BY FS_Subset
  <2> QED BY <2>1 DEF FiniteSubsetsOf
<1>2. PICK X \in T : \A Y \in T : <<Y, X>> \notin StrictSubsetOrdering(S)
  BY <1>1, FS_StrictSubsetOrderingWellFounded, WFMin, Zenon
<1>3. PICK k \in S : X = {l \in S : l >= k} OBVIOUS
<1>4. ASSUME NEW m \in S, k < m
      PROVE  FALSE
  <2>1. k \in X /\ k \notin {l \in S : l >= m} /\ {l \in S : l >= m} \subseteq X
    <3>1. k \in Int /\ m \in Int /\ \A l \in S : l \in Int OBVIOUS
    <3>2. \A l \in S : l >= m => l >= k BY <1>4, <3>1
    <3>3. k >= k /\ ~(k >= m) BY <1>4, <3>1
    <3> QED BY <1>3, <3>2, <3>3
  <2>2. <<{l \in S : l >= m}, X>> \in StrictSubsetOrdering(S) BY <1>3, <2>1 DEF StrictSubsetOrdering
  <2> QED BY <1>2, <2>2
<1>5. \A m \in S : m <= k
  <2>1. \A m \in S : m \in Int /\ k \in Int OBVIOUS
  <2> QED BY <1>4, <2>1
<1> QED BY <1>5 DEF GreatestOf

\* The least number up to N that is not in S, when not all of them are: what is
\* needed for induction.
LEMMA LeastNumber ==
    ASSUME NEW b \in Int, NEW N \in Int, NEW S, S \subseteq b..N, S # {}
    PROVE  \E n \in S : \A k \in b..n - 1 : k \notin S
<1>1. S \in SUBSET Int /\ IsFiniteSet(S)
  <2> DEFINE I == b..N
  <2>1. IsFiniteSet(I) /\ S \subseteq I /\ I \subseteq Int BY FS_Interval
  <2> HIDE DEF I
  <2> QED BY <2>1, FS_Subset
<1>2. LeastOf(S) \in S /\ \A k \in S : LeastOf(S) <= k BY <1>1, LeastOfFinite
<1> DEFINE n == LeastOf(S)
<1>3. n \in Int /\ n \in S /\ \A k \in S : n <= k BY <1>1, <1>2
<1> HIDE DEF n
<1>4. \A k \in b..n - 1 : k \notin S BY <1>3
<1> QED BY <1>3, <1>4

\* There is one.
LEMMA LoopExists ==
    ASSUME NEW X, NEW a \in X, NEW b \in Int, NEW N \in Int, b <= N, NEW g, AreSteps(g, X)
    PROVE  \E f : IsLoopOf(f, X, a, b, N, g)
<1> DEFINE IsLoop(f, n) ==
               f \in [b..n -> X] /\ f[b] = a /\ \A i \in b + 1..n : f[i] = g[<<i, f[i - 1]>>]
           Without == {n \in b..N : ~ \E f : IsLoop(f, n)}
<1>1. ASSUME Without # {}
      PROVE  FALSE
  <2>2. PICK n \in Without : \A k \in b..n - 1 : k \notin Without
    <3>1. Without \subseteq b..N OBVIOUS
    <3> HIDE DEF Without
    <3> QED BY <1>1, <3>1, LeastNumber
  <2>3. n \in b..N /\ ~ \E f : IsLoop(f, n) OBVIOUS
  <2>4. CASE n = b
    <3>1. IsLoop([i \in b..b |-> a], b) OBVIOUS
    <3> QED BY <2>3, <2>4, <3>1
  <2>5. CASE n # b
    <3>1. n - 1 \in b..N /\ n - 1 \notin Without BY <2>2, <2>3, <2>5
    <3>2. PICK f : IsLoop(f, n - 1) BY <3>1
    <3> DEFINE h == [i \in b..n |-> IF i = n THEN g[<<n, f[n - 1]>>] ELSE f[i]]
    <3>3. f[n - 1] \in X /\ n \in Int BY <2>3, <2>5, <3>2
    <3>4. g[<<n, f[n - 1]>>] \in X BY <3>3 DEF AreSteps
    <3>5. h \in [b..n -> X] BY <2>3, <3>2, <3>4
    <3>6. h[b] = a BY <2>3, <2>5, <3>2
    <3>7. \A i \in b + 1..n : h[i] = g[<<i, h[i - 1]>>]
      <4> TAKE i \in b + 1..n
      <4>1. CASE i = n
        <5>1. h[n] = g[<<n, f[n - 1]>>] /\ h[n - 1] = f[n - 1] BY <2>3, <2>5
        <5> QED BY <4>1, <5>1
      <4>2. CASE i # n
        <5>1. i \in b + 1..n - 1 /\ i \in b..n /\ i - 1 \in b..n /\ i - 1 # n BY <2>3, <4>2
        <5>2. h[i] = f[i] /\ h[i - 1] = f[i - 1] BY <4>2, <5>1
        <5>3. f[i] = g[<<i, f[i - 1]>>] BY <3>2, <5>1
        <5> QED BY <5>2, <5>3
      <4> QED BY <4>1, <4>2
    <3>8. IsLoop(h, n)
      <4> HIDE DEF h
      <4> QED BY <3>5, <3>6, <3>7
    <3> QED BY <2>3, <3>8
  <2> QED BY <2>4, <2>5
<1> QED
  <2>1. N \in b..N /\ N \notin Without BY <1>1
  <2> QED BY <2>1 DEF IsLoopOf

\* What a function takes a finite set to is finite.
LEMMA FiniteImage ==
    ASSUME NEW S, IsFiniteSet(S), NEW g
    PROVE  IsFiniteSet({g[x] : x \in S})
<1> DEFINE T == {g[x] : x \in S}
           h == [x \in S |-> g[x]]
<1>1. h \in Surjection(S, T) BY DEF Surjection
<1> HIDE DEF h, T
<1> QED BY <1>1, FS_Surjection DEF T

-----------------------------------------------------------------------------
(* Sums.                                                                   *)

\* They exist, and are numbers.
LEMMA SumsExist ==
    ASSUME NEW seq \in Seq(Nat)
    PROVE  \E s : AreSums(s, seq) /\ s \in [0..Len(seq) -> Nat] /\ s[0] = 0
                  /\ \A n \in 1..Len(seq) : s[n] = s[n - 1] + seq[n]
<1> DEFINE N == Len(seq)
           g == [p \in Int \X Nat |-> IF p[1] \in 1..N THEN p[2] + seq[p[1]] ELSE p[2]]
<1>1. N \in Nat /\ \A n \in 1..N : seq[n] \in Nat OBVIOUS
<1>2. AreSteps(g, Nat)
  <2>1. \A p \in Int \X Nat : g[p] \in Nat BY <1>1
  <2> QED BY <2>1 DEF AreSteps
<1>3. \A n \in 1..N, x \in Nat : g[<<n, x>>] = x + seq[n] BY <1>1
<1> HIDE DEF g
<1> HIDE DEF N
<1>4. PICK s : IsLoopOf(s, Nat, 0, 0, N, g)
  <2>1. 0 \in Nat /\ 0 \in Int /\ N \in Int /\ 0 <= N BY <1>1
  <2> QED BY <1>2, <2>1, LoopExists
<1>5. s \in [0..N -> Nat] /\ s[0] = 0 /\ \A n \in 0 + 1..N : s[n] = g[<<n, s[n - 1]>>]
  BY <1>4 DEF IsLoopOf
<1>6. \A n \in 1..N : s[n] = s[n - 1] + seq[n]
  <2> TAKE n \in 1..N
  <2>1. n \in 0 + 1..N /\ n - 1 \in 0..N BY <1>1
  <2>2. s[n - 1] \in Nat BY <1>5, <2>1
  <2> QED BY <1>3, <1>5, <2>1, <2>2
<1>7. AreSums(s, seq)
  <2>1. \A n \in 0..N : s[n] = IF n = 0 THEN 0 ELSE s[n - 1] + seq[n] BY <1>1, <1>5, <1>6
  <2> QED BY <1>5, <2>1 DEF AreSums, N
<1> QED BY <1>5, <1>6, <1>7 DEF N

\* There is only one way to add up.
LEMMA SumIs ==
    ASSUME NEW seq \in Seq(Nat), NEW t \in [0..Len(seq) -> Nat], t[0] = 0,
           \A n \in 1..Len(seq) : t[n] = t[n - 1] + seq[n]
    PROVE  Sum(seq) = t[Len(seq)]
<1> DEFINE N == Len(seq)
           s == CHOOSE s : AreSums(s, seq)
<1>1. AreSums(s, seq) BY SumsExist
<1>2. Sum(seq) = s[N] BY DEF Sum, AreSums
<1> HIDE DEF s
<1>3. s = [n \in 0..N |-> IF n = 0 THEN 0 ELSE s[n - 1] + seq[n]] BY <1>1 DEF AreSums
<1>4. N \in Nat OBVIOUS
<1> DEFINE Bad == {n \in 0..N : s[n] # t[n]}
<1>5. ASSUME Bad # {}
      PROVE  FALSE
  <2>1. PICK n \in Bad : \A k \in 0..n - 1 : k \notin Bad
    <3>1. Bad \subseteq 0..N OBVIOUS
    <3>2. 0 \in Int /\ N \in Int BY <1>4
    <3> HIDE DEF Bad, N
    <3> QED BY <1>5, <3>1, <3>2, LeastNumber
  <2>2. n \in 0..N /\ s[n] # t[n] OBVIOUS
  <2>3. CASE n = 0 BY <1>3, <1>4, <2>2, <2>3
  <2>4. CASE n # 0
    <3>1. n - 1 \in 0..n - 1 /\ n - 1 \in 0..N /\ n \in 1..N BY <1>4, <2>2, <2>4
    <3>2. s[n - 1] = t[n - 1] BY <2>1, <3>1
    <3>3. s[n] = s[n - 1] + seq[n] BY <1>3, <2>2, <2>4
    <3> QED BY <2>2, <3>1, <3>2, <3>3
  <2> QED BY <2>3, <2>4
<1> QED BY <1>2, <1>4, <1>5

\* What adding one number to a sequence does to its sum.
LEMMA SumFacts ==
    /\ Sum(<<>>) = 0
    /\ \A seq \in Seq(Nat) : Sum(seq) \in Nat
    /\ \A seq \in Seq(Nat), x \in Nat : Sum(Append(seq, x)) = Sum(seq) + x
<1>1. Sum(<<>>) = 0
  <2> DEFINE t == [n \in 0..0 |-> 0]
  <2>1. <<>> \in Seq(Nat) /\ Len(<<>>) = 0 OBVIOUS
  <2>2. t \in [0..Len(<<>>) -> Nat] /\ t[0] = 0 /\ \A n \in 1..Len(<<>>) : t[n] = t[n - 1] + <<>>[n]
    BY <2>1
  <2> HIDE DEF t
  <2> QED BY <2>1, <2>2, SumIs
<1>2. ASSUME NEW seq \in Seq(Nat), NEW x \in Nat
      PROVE  Sum(seq) \in Nat /\ Sum(Append(seq, x)) = Sum(seq) + x
  <2> DEFINE N == Len(seq)
             more == Append(seq, x)
  <2>1. PICK s : /\ s \in [0..N -> Nat] /\ s[0] = 0
                 /\ \A n \in 1..N : s[n] = s[n - 1] + seq[n]
    BY SumsExist
  <2>2. Sum(seq) = s[N] /\ N \in Nat BY <2>1, SumIs
  <2>3. more \in Seq(Nat) /\ Len(more) = N + 1 /\ more[N + 1] = x /\ \A n \in 1..N : more[n] = seq[n]
    OBVIOUS
  <2> HIDE DEF more
  <2> DEFINE t == [n \in 0..N + 1 |-> IF n = N + 1 THEN s[N] + x ELSE s[n]]
  <2>4. t \in [0..Len(more) -> Nat] /\ t[0] = 0 /\ t[N + 1] = s[N] + x BY <2>1, <2>2, <2>3
  <2>5. \A n \in 1..Len(more) : t[n] = t[n - 1] + more[n]
    <3> TAKE n \in 1..Len(more)
    <3>1. CASE n = N + 1
      <4>1. t[n - 1] = s[N] BY <2>2, <3>1
      <4> QED BY <2>2, <2>3, <2>4, <3>1, <4>1
    <3>2. CASE n # N + 1
      <4>1. n \in 1..N BY <2>2, <2>3, <3>2
      <4>3. n \in 0..N + 1 /\ n - 1 \in 0..N + 1 /\ n - 1 # N + 1 BY <2>2, <4>1
      <4>2. t[n] = s[n] /\ t[n - 1] = s[n - 1] BY <3>2, <4>3
      <4> QED BY <2>1, <2>3, <4>1, <4>2
    <3> QED BY <3>1, <3>2
  <2> HIDE DEF t
  <2>6. Sum(more) = t[N + 1] BY <2>3, <2>4, <2>5, SumIs
  <2> QED BY <2>1, <2>2, <2>4, <2>6 DEF more
<1>3. \A seq \in Seq(Nat) : Sum(seq) \in Nat BY <1>2
<1> QED BY <1>1, <1>2, <1>3

-----------------------------------------------------------------------------
(* Files: what is in a page, and the trees of pages.                       *)

\* The depth tells what a page is.
LEMMA NodeFacts ==
    ASSUME NEW f, NEW n \in DOMAIN f, IsNode(f, n) \/ f[n] = Overflow
    PROVE  /\ f[n].depth \in Int
           /\ IsInner(f, n) <=> f[n].depth > 0
           /\ IsLeaf(f, n) <=> f[n].depth = 0
           /\ IsParent(f, n) <=> IsInner(f, n)
           /\ IsLeaf(f, n) => f[n].items \in Seq(PairRec)
           /\ IsInner(f, n) => f[n].items \in Seq(ItemRec) /\ f[n].depth \in Nat
           /\ ~IsNode(f, n) => f[n].depth = -1
<1>1. CASE IsLeaf(f, n)
  <2>1. f[n] \in LeafNode BY <1>1 DEF IsLeaf
  <2>2. f[n].depth = 0 /\ f[n].items \in Seq(PairRec) BY <2>1 DEF LeafNode
  <2>3. f[n] \notin ParentNode BY <2>2 DEF ParentNode
  <2> QED BY <1>1, <2>2, <2>3 DEF IsInner, IsParent, IsNode
<1>2. CASE IsInner(f, n)
  <2>1. f[n] \in ParentNode BY <1>2 DEF IsInner
  <2>2. f[n].depth \in Nat \ {0} /\ f[n].items \in Seq(ItemRec) BY <2>1 DEF ParentNode
  <2>3. f[n] \notin LeafNode BY <2>2 DEF LeafNode
  <2> QED BY <1>2, <2>2, <2>3 DEF IsLeaf, IsParent, IsNode
<1>3. CASE f[n] = Overflow
  <2>1. f[n].depth = -1 BY <1>3 DEF Overflow
  <2>2. f[n] \notin LeafNode /\ f[n] \notin ParentNode
    <3>1. \A r \in LeafNode : r.depth = 0 BY DEF LeafNode
    <3>2. \A r \in ParentNode : r.depth > 0 BY DEF ParentNode
    <3> QED BY <2>1, <3>1, <3>2
  <2> QED BY <2>1, <2>2 DEF IsLeaf, IsInner, IsNode, IsParent
<1> QED BY <1>1, <1>2, <1>3 DEF IsNode

\* The depths of a file are bounded.
LEMMA DepthBound ==
    ASSUME NEW f, Forest(f)
    PROVE  \E m \in Nat : \A n \in DOMAIN f : f[n].depth <= m
<1> DEFINE D == {f[n].depth : n \in DOMAIN f} \cup {0}
           depth == [n \in DOMAIN f |-> f[n].depth]
<1>1. IsFiniteSet(D)
  <2>1. IsFiniteSet({f[n].depth : n \in DOMAIN f})
    <3>1. IsFiniteSet(DOMAIN f) BY DEF Forest
    <3>2. {f[n].depth : n \in DOMAIN f} = {depth[n] : n \in DOMAIN f} OBVIOUS
    <3> HIDE DEF depth
    <3> QED BY <3>1, <3>2, FiniteImage
  <2>2. IsFiniteSet({0}) BY FS_Singleton
  <2> QED BY <2>1, <2>2, FS_Union
<1>2. D \subseteq Int BY NodeFacts DEF Forest
<1> DEFINE m == GreatestOf(D)
<1>3. m \in D /\ \A k \in D : k <= m
  <2> HIDE DEF D
  <2>1. 0 \in D BY DEF D
  <2> QED BY <1>1, <1>2, <2>1, GreatestOfFinite
<1>4. m \in Int /\ 0 <= m BY <1>2, <1>3
<1> QED BY <1>3, <1>4

\* The function that Below takes exists.
LEMMA TreesExist ==
    ASSUME NEW f, Forest(f)
    PROVE  \E b : AreTrees(f, b)
<1> DEFINE D(m) == {n \in DOMAIN f : f[n].depth <= m}
           Up(n, b) == IF IsParent(f, n)
                       THEN {n} \cup UNION {b[f[n].items[i].page] : i \in DOMAIN f[n].items}
                       ELSE {n}
           IsFor(m, b) == b = [n \in D(m) |-> Up(n, b)]
<1>1. PICK M \in Nat : \A n \in DOMAIN f : f[n].depth <= M BY DepthBound
<1>2. \A n \in DOMAIN f : f[n].depth \in Int /\ (IsParent(f, n) => f[n].depth > 0)
  BY NodeFacts DEF Forest, IsParent
<1>3. \A n \in DOMAIN f : IsParent(f, n) =>
        \A i \in DOMAIN f[n].items :
          f[n].items[i].page \in DOMAIN f /\ f[f[n].items[i].page].depth = f[n].depth - 1
  <2> TAKE n \in DOMAIN f
  <2> HAVE IsParent(f, n)
  <2>1. IsInner(f, n) BY NodeFacts DEF Forest
  <2>2. \A c \in Children(f, n) : c \in DOMAIN f /\ f[c].depth = f[n].depth - 1
    BY <2>1 DEF Forest, IsNode, IsLeaf, IsInner
  <2> QED BY <2>2 DEF Children
<1> DEFINE Without == {m \in 0..M : ~ \E b : IsFor(m, b)}
<1>4. ASSUME Without # {}
      PROVE  FALSE
  <2>1. PICK m \in Without : \A k \in 0..m - 1 : k \notin Without
    <3>1. Without \subseteq 0..M /\ 0 \in Int /\ M \in Int OBVIOUS
    <3> HIDE DEF Without
    <3> QED BY <1>4, <3>1, LeastNumber
  <2>2. m \in 0..M /\ ~ \E b : IsFor(m, b) OBVIOUS
  <2>3. CASE m = 0
    <3> DEFINE b == [n \in D(0) |-> {n}]
    <3>1. \A n \in D(0) : Up(n, b) = {n} BY <1>2
    <3>2. IsFor(0, b) BY <3>1
    <3> QED BY <2>2, <2>3, <3>2
  <2>4. CASE m # 0
    <3>1. m - 1 \in 0..m - 1 /\ m - 1 \in 0..M /\ m \in Int BY <2>2, <2>4
    <3>2. PICK b : IsFor(m - 1, b)
      <4>1. m - 1 \notin Without BY <2>1, <3>1
      <4> HIDE DEF IsFor
      <4> QED BY <3>1, <4>1
    <3> DEFINE h == [n \in D(m) |-> Up(n, b)]
    <3>3. \A n \in D(m - 1) : n \in D(m) /\ h[n] = b[n]
      <4>1. \A n \in D(m - 1) : n \in D(m) BY <1>2, <3>1
      <4>2. \A n \in D(m) : h[n] = Up(n, b) OBVIOUS
      <4>3. \A n \in D(m - 1) : b[n] = Up(n, b)
        <5> HIDE DEF Up, D
        <5>1. b = [n \in D(m - 1) |-> Up(n, b)] BY <3>2, Zenon
        <5> QED BY <5>1
      <4> QED BY <4>1, <4>2, <4>3
    <3> HIDE DEF h
    <3>4. \A n \in D(m) : Up(n, h) = Up(n, b)
      <4> TAKE n \in D(m)
      <4>1. CASE IsParent(f, n)
        <5>1. \A i \in DOMAIN f[n].items : f[n].items[i].page \in D(m - 1) BY <1>2, <1>3, <3>1, <4>1
        <5>2. \A i \in DOMAIN f[n].items : h[f[n].items[i].page] = b[f[n].items[i].page]
          BY <3>3, <5>1
        <5>3. {h[f[n].items[i].page] : i \in DOMAIN f[n].items} = {b[f[n].items[i].page] : i \in DOMAIN f[n].items}
          BY <5>2
        <5> QED BY <5>3
      <4>2. CASE ~IsParent(f, n) BY <4>2
      <4> QED BY <4>1, <4>2
    <3>5. h = [n \in D(m) |-> Up(n, h)]
      <4>1. h = [n \in D(m) |-> Up(n, b)] BY DEF h
      <4> HIDE DEF Up, D
      <4> QED BY <3>4, <4>1
    <3> QED BY <2>2, <3>5
  <2> QED BY <2>3, <2>4
<1>5. PICK b : IsFor(M, b)
  <2>1. M \in 0..M OBVIOUS
  <2> QED BY <1>4, <2>1
<1>6. D(M) = DOMAIN f BY <1>1
<1> QED BY <1>5, <1>6 DEF AreTrees

\* Every node of a tree is its root or below one of the root's children.
LEMMA BelowFacts ==
    ASSUME NEW f, Forest(f), NEW n \in DOMAIN f
    PROVE  /\ IsInner(f, n) => Below(f, n) = {n} \cup UNION {Below(f, c) : c \in Children(f, n)}
           /\ ~IsInner(f, n) => Below(f, n) = {n}
<1> DEFINE b == CHOOSE b : AreTrees(f, b)
<1>1. AreTrees(f, b) BY TreesExist
<1>2. \A m : Below(f, m) = b[m] BY DEF Below, AreTrees
<1> HIDE DEF b
<1> DEFINE Up(m) == IF IsParent(f, m) THEN {m} \cup UNION {b[f[m].items[i].page] : i \in DOMAIN f[m].items}
                    ELSE {m}
<1>3. b[n] = Up(n)
  <2>1. b = [m \in DOMAIN f |-> Up(m)] BY <1>1 DEF AreTrees
  <2> HIDE DEF Up
  <2> QED BY <2>1
<1>4. IsParent(f, n) <=> IsInner(f, n) BY NodeFacts DEF Forest
<1>5. UNION {Below(f, c) : c \in Children(f, n)}
        = UNION {b[f[n].items[i].page] : i \in DOMAIN f[n].items}
  BY <1>2 DEF Children
<1> QED BY <1>2, <1>3, <1>4, <1>5

\* There is a lowest and a highest page in every set of pages: induction over trees.
LEMMA LowestPage ==
    ASSUME NEW f, Forest(f), NEW S, S \subseteq DOMAIN f, S # {}
    PROVE  \E n \in S : \A m \in S : f[n].depth <= f[m].depth
<1> DEFINE depth == [n \in S |-> f[n].depth]
           D == {depth[n] : n \in S}
<1>1. \A n \in S : depth[n] = f[n].depth /\ depth[n] \in Int BY NodeFacts DEF Forest
<1>2. IsFiniteSet(S)
  <2>1. IsFiniteSet(DOMAIN f) BY DEF Forest
  <2> QED BY <2>1, FS_Subset
<1> HIDE DEF depth
<1>3. IsFiniteSet(D) BY <1>2, FiniteImage
<1>4. D \subseteq Int /\ D # {} BY <1>1
<1>5. LeastOf(D) \in D /\ \A k \in D : LeastOf(D) <= k
  <2> HIDE DEF D
  <2> QED BY <1>3, <1>4, LeastOfFinite
<1>6. PICK n \in S : depth[n] = LeastOf(D) BY <1>5
<1>7. \A m \in S : depth[n] <= depth[m] BY <1>5, <1>6
<1> QED BY <1>1, <1>7

\* Among some pages there is one of the greatest depth.
LEMMA HighestPage ==
    ASSUME NEW f, Forest(f), NEW S, S \subseteq DOMAIN f, S # {}
    PROVE  \E n \in S : \A m \in S : f[m].depth <= f[n].depth
<1> DEFINE depth == [n \in S |-> f[n].depth]
           D == {depth[n] : n \in S}
<1>1. \A n \in S : depth[n] = f[n].depth /\ depth[n] \in Int BY NodeFacts DEF Forest
<1>2. IsFiniteSet(S)
  <2>1. IsFiniteSet(DOMAIN f) BY DEF Forest
  <2> QED BY <2>1, FS_Subset
<1> HIDE DEF depth
<1>3. IsFiniteSet(D) BY <1>2, FiniteImage
<1>4. D \subseteq Int /\ D # {} BY <1>1
<1>5. GreatestOf(D) \in D /\ \A k \in D : k <= GreatestOf(D)
  <2> HIDE DEF D
  <2> QED BY <1>3, <1>4, GreatestOfFinite
<1>6. PICK n \in S : depth[n] = GreatestOf(D) BY <1>5
<1>7. \A m \in S : depth[m] <= depth[n] BY <1>5, <1>6
<1> QED BY <1>1, <1>7

\* What a parent's children are.
LEMMA ChildFacts ==
    ASSUME NEW f, Forest(f), NEW n, IsInner(f, n)
    PROVE  /\ n \in DOMAIN f /\ f[n].depth \in Nat \ {0} /\ f[n].items \in Seq(ItemRec)
           /\ \A i \in DOMAIN f[n].items : f[n].items[i].page \in Children(f, n)
           /\ \A c \in Children(f, n) :
                c \in DOMAIN f /\ IsNode(f, c) /\ f[c].depth = f[n].depth - 1
<1>1. n \in DOMAIN f /\ f[n].depth \in Nat \ {0} /\ f[n].items \in Seq(ItemRec)
  BY DEF IsInner, ParentNode
<1> QED BY <1>1 DEF Forest, Children, IsNode, IsLeaf, IsInner

\* Everything below a node is a node.
LEMMA BelowNodes ==
    ASSUME NEW f, Forest(f), NEW n \in DOMAIN f
    PROVE  /\ n \in Below(f, n) /\ Below(f, n) \subseteq DOMAIN f
           /\ \A m \in Below(f, n) : f[m].depth <= f[n].depth
           /\ IsNode(f, n) => \A m \in Below(f, n) : IsNode(f, m)
           /\ \A m \in Below(f, n) : Below(f, m) \subseteq Below(f, n)
           /\ \A m \in Below(f, n) : f[m].depth = f[n].depth => m = n
<1> DEFINE Good(x) == /\ x \in Below(f, x) /\ Below(f, x) \subseteq DOMAIN f
                      /\ \A m \in Below(f, x) : f[m].depth <= f[x].depth
                      /\ IsNode(f, x) => \A m \in Below(f, x) : IsNode(f, m)
                      /\ \A m \in Below(f, x) : Below(f, m) \subseteq Below(f, x)
                      /\ \A m \in Below(f, x) : f[m].depth = f[x].depth => m = x
           Bad == {x \in DOMAIN f : ~Good(x)}
<1>1. ASSUME Bad # {}
      PROVE  FALSE
  <2>1. PICK x \in Bad : \A m \in Bad : f[x].depth <= f[m].depth
    <3>1. Bad \subseteq DOMAIN f OBVIOUS
    <3> HIDE DEF Bad
    <3> QED BY <1>1, <3>1, LowestPage
  <2>2. x \in DOMAIN f /\ ~Good(x) OBVIOUS
  <2>3. f[x].depth \in Int BY <2>2, NodeFacts DEF Forest
  <2>4. CASE ~IsInner(f, x)
    <3>1. Below(f, x) = {x} BY <2>2, <2>4, BelowFacts
    <3>2. Good(x) BY <2>2, <2>3, <3>1
    <3> QED BY <2>2, <3>2
  <2>5. CASE IsInner(f, x)
    <3>1. Below(f, x) = {x} \cup UNION {Below(f, c) : c \in Children(f, x)}
      BY <2>2, <2>5, BelowFacts
    <3>2. \A c \in Children(f, x) : c \in DOMAIN f /\ IsNode(f, c) /\ f[c].depth = f[x].depth - 1
      BY <2>5, ChildFacts
    <3>3. \A c \in Children(f, x) : Good(c)
      <4> TAKE c \in Children(f, x)
      <4>1. c \notin Bad BY <2>1, <2>3, <3>2
      <4> QED BY <3>2, <4>1
    <3>4. \A m \in Below(f, x) : m = x \/ \E c \in Children(f, x) : m \in Below(f, c) BY <3>1
    <3>5. x \in Below(f, x) /\ \A c \in Children(f, x) : Below(f, c) \subseteq Below(f, x) BY <3>1
    <3>6. Below(f, x) \subseteq DOMAIN f BY <2>2, <3>3, <3>4
    <3>7. \A m \in Below(f, x) \ {x} : f[m].depth <= f[x].depth - 1 /\ f[m].depth \in Int
      <4> TAKE m \in Below(f, x) \ {x}
      <4>1. PICK c \in Children(f, x) : m \in Below(f, c) BY <3>4
      <4>2. f[m].depth <= f[c].depth BY <3>3, <4>1
      <4>3. m \in DOMAIN f BY <3>6
      <4>4. f[m].depth \in Int BY <4>3, NodeFacts DEF Forest
      <4> QED BY <3>2, <4>2, <4>4
    <3>8. \A m \in Below(f, x) : IsNode(f, m) BY <2>5, <3>2, <3>3, <3>4 DEF IsNode
    <3>9. \A m \in Below(f, x) : Below(f, m) \subseteq Below(f, x) BY <3>3, <3>4, <3>5
    <3>10. Good(x)
      <4>1. \A m \in Below(f, x) : f[m].depth <= f[x].depth BY <2>3, <3>7
      <4>2. \A m \in Below(f, x) : f[m].depth = f[x].depth => m = x BY <2>3, <3>7
      <4> HIDE DEF Bad
      <4> QED BY <3>5, <3>6, <3>8, <3>9, <4>1, <4>2
    <3> QED BY <2>2, <3>10
  <2> QED BY <2>4, <2>5
<1> QED BY <1>1

\* The pairs of a leaf are its items, those of a parent are those of its children.
LEMMA PairsUnderFacts ==
    ASSUME NEW f, Forest(f), NEW n
    PROVE  /\ IsLeaf(f, n) => PairsUnder(f, n) = {f[n].items[i] : i \in DOMAIN f[n].items}
           /\ IsInner(f, n) => PairsUnder(f, n) = UNION {PairsUnder(f, c) : c \in Children(f, n)}
           /\ IsLeaf(f, n) => KeysUnder(f, n) = {f[n].items[i].key : i \in DOMAIN f[n].items}
           /\ IsInner(f, n) => KeysUnder(f, n) = UNION {KeysUnder(f, c) : c \in Children(f, n)}
<1>1. ASSUME IsLeaf(f, n)
      PROVE  PairsUnder(f, n) = {f[n].items[i] : i \in DOMAIN f[n].items}
  <2>1. n \in DOMAIN f /\ f[n].depth = 0 /\ ~IsInner(f, n)
    <3>1. n \in DOMAIN f BY <1>1 DEF IsLeaf
    <3>2. IsNode(f, n) BY <1>1 DEF IsNode
    <3>3. (IsInner(f, n) <=> f[n].depth > 0) /\ (IsLeaf(f, n) <=> f[n].depth = 0)
      BY <3>1, <3>2, NodeFacts
    <3>4. f[n].depth = 0 BY <1>1, <3>3
    <3> QED BY <3>1, <3>3, <3>4
  <2>2. Below(f, n) = {n} BY <2>1, BelowFacts
  <2>3. {m \in Below(f, n) : f[m].depth = 0} = {n} BY <2>1, <2>2
  <2> QED BY <2>3 DEF PairsUnder, ItemsOf
<1>2. ASSUME IsInner(f, n)
      PROVE  PairsUnder(f, n) = UNION {PairsUnder(f, c) : c \in Children(f, n)}
  <2>1. n \in DOMAIN f /\ f[n].depth \in Nat \ {0} BY <1>2, ChildFacts
  <2>2. Below(f, n) = {n} \cup UNION {Below(f, c) : c \in Children(f, n)} BY <1>2, <2>1, BelowFacts
  <2>3. {m \in Below(f, n) : f[m].depth = 0}
          = UNION {{m \in Below(f, c) : f[m].depth = 0} : c \in Children(f, n)}
    BY <2>1, <2>2
  <2> QED BY <2>3 DEF PairsUnder, ItemsOf
<1>3. IsLeaf(f, n) => KeysUnder(f, n) = {f[n].items[i].key : i \in DOMAIN f[n].items}
  BY <1>1 DEF KeysUnder
<1>4. IsInner(f, n) => KeysUnder(f, n) = UNION {KeysUnder(f, c) : c \in Children(f, n)}
  BY <1>2 DEF KeysUnder
<1> QED BY <1>1, <1>2, <1>3, <1>4

\* Trees do not change when pages are written.
LEMMA TreesStay ==
    ASSUME NEW f, NEW g, Forest(f), Forest(g), Extends(g, f), NEW n \in DOMAIN f
    PROVE  /\ Below(g, n) = Below(f, n)
           /\ PairsUnder(g, n) = PairsUnder(f, n)
           /\ KeysUnder(g, n) = KeysUnder(f, n)
<1> DEFINE Bad == {x \in DOMAIN f : Below(g, x) # Below(f, x)}
<1>1. \A x \in DOMAIN f : (IsInner(g, x) <=> IsInner(f, x)) /\ Children(g, x) = Children(f, x)
  BY DEF Extends, IsInner, Children
<1>2. ASSUME Bad # {}
      PROVE  FALSE
  <2>1. PICK x \in Bad : \A m \in Bad : f[x].depth <= f[m].depth
    <3>1. Bad \subseteq DOMAIN f OBVIOUS
    <3> HIDE DEF Bad
    <3> QED BY <1>2, <3>1, LowestPage
  <2>2. x \in DOMAIN f /\ x \in DOMAIN g /\ Below(g, x) # Below(f, x) BY DEF Extends
  <2>3. f[x].depth \in Int BY <2>2, NodeFacts DEF Forest
  <2>4. CASE ~IsInner(f, x) BY <1>1, <2>2, <2>4, BelowFacts
  <2>5. CASE IsInner(f, x)
    <3>1. \A c \in Children(f, x) : c \in DOMAIN f /\ f[c].depth = f[x].depth - 1
      BY <2>5, ChildFacts
    <3>2. \A c \in Children(f, x) : c \notin Bad BY <2>1, <2>3, <3>1
    <3>3. \A c \in Children(f, x) : Below(g, c) = Below(f, c) BY <3>1, <3>2
    <3>4. {Below(g, c) : c \in Children(f, x)} = {Below(f, c) : c \in Children(f, x)} BY <3>3
    <3>5. Below(f, x) = {x} \cup UNION {Below(f, c) : c \in Children(f, x)}
      BY <2>2, <2>5, BelowFacts
    <3>6. Below(g, x) = {x} \cup UNION {Below(g, c) : c \in Children(f, x)}
      BY <1>1, <2>2, <2>5, BelowFacts
    <3> QED BY <2>2, <3>4, <3>5, <3>6
  <2> QED BY <2>4, <2>5
<1>3. Below(g, n) = Below(f, n) BY <1>2
<1>4. \A m \in Below(f, n) : g[m] = f[m] BY BelowNodes DEF Extends
<1>5. {m \in Below(g, n) : g[m].depth = 0} = {m \in Below(f, n) : f[m].depth = 0} BY <1>3, <1>4
<1>6. PairsUnder(g, n) = PairsUnder(f, n) BY <1>4, <1>5 DEF PairsUnder, ItemsOf
<1> QED BY <1>3, <1>6 DEF KeysUnder

-----------------------------------------------------------------------------
(* What is in the pages of a file, and in the lists that refer to them.    *)

\* The page that is written next is not in use.
LEMMA NextPageFacts ==
    ASSUME NEW f, Forest(f)
    PROVE  NextPage(f) \in Nat /\ NextPage(f) # NoPage /\ NextPage(f) \notin DOMAIN f
<1> DEFINE N == Cardinality(DOMAIN f) + 1
           Out == {n \in 1..N : n \notin DOMAIN f}
<1>1. IsFiniteSet(DOMAIN f) /\ DOMAIN f \subseteq Nat \ {NoPage} BY DEF Forest
<1>2. N \in Nat /\ N >= 1 BY <1>1, FS_CardinalityType
<1>3. ASSUME Out = {}
      PROVE  FALSE
  <2>1. 1..N \subseteq DOMAIN f BY <1>3
  <2>2. Cardinality(1..N) <= Cardinality(DOMAIN f) BY <1>1, <2>1, FS_Subset
  <2>3. Cardinality(1..N) = N BY <1>2, FS_Interval
  <2> QED BY <1>1, <2>2, <2>3, FS_CardinalityType
<1>4. PICK n \in Out : \A k \in 1..n - 1 : k \notin Out
  <2>1. Out \subseteq 1..N /\ 1 \in Int /\ N \in Int BY <1>2
  <2> HIDE DEF Out, N
  <2> QED BY <1>3, <2>1, LeastNumber
<1>5. n \in 1..N /\ n \notin DOMAIN f /\ \A k \in 1..n - 1 : k \in DOMAIN f
  <2>1. n \in 1..N /\ n \notin DOMAIN f BY <1>4
  <2>2. \A k \in 1..n - 1 : k \in 1..N BY <1>2, <2>1
  <2> QED BY <1>4, <2>1, <2>2
<1>6. NextPage(f) \in 1..N /\ NextPage(f) \notin DOMAIN f BY <1>5 DEF NextPage
<1> QED BY <1>2, <1>6 DEF NoPage

\* A page that is written comes behind those of the file (PageWriter).
LEMMA WritePageFacts ==
    ASSUME NEW f, Forest(f), NEW content
    PROVE  /\ Extends(WritePage(f, content), f)
           /\ DOMAIN WritePage(f, content) = DOMAIN f \cup {NextPage(f)}
           /\ WritePage(f, content)[NextPage(f)] = content
  BY NextPageFacts DEF WritePage, Extends

\* What a page is stays when others are written.
LEMMA PagesStay ==
    ASSUME NEW f, NEW g, Extends(g, f), NEW n \in DOMAIN f
    PROVE  /\ n \in DOMAIN g /\ g[n] = f[n]
           /\ IsLeaf(g, n) <=> IsLeaf(f, n)
           /\ IsInner(g, n) <=> IsInner(f, n)
           /\ IsNode(g, n) <=> IsNode(f, n)
           /\ IsOverflow(g, n) <=> IsOverflow(f, n)
           /\ Children(g, n) = Children(f, n)
  BY DEF Extends, IsLeaf, IsInner, IsNode, IsOverflow, Children

\* A file with one more page is still a forest.
LEMMA ForestGrows ==
    ASSUME NEW f, Forest(f), NEW content,
           content = Overflow \/ content \in LeafNode \/ content \in ParentNode,
           content \in ParentNode => \A i \in DOMAIN content.items :
              IsNode(f, content.items[i].page) /\ f[content.items[i].page].depth = content.depth - 1
    PROVE  Forest(WritePage(f, content))
<1> DEFINE g == WritePage(f, content)
           new == NextPage(f)
<1>1. Extends(g, f) /\ DOMAIN g = DOMAIN f \cup {new} /\ g[new] = content BY WritePageFacts
<1>2. new \in Nat \ {NoPage} /\ new \notin DOMAIN f BY NextPageFacts
<1> HIDE DEF g, new
<1>3. IsFiniteSet(DOMAIN g) /\ DOMAIN g \subseteq Nat \ {NoPage}
  <2>1. IsFiniteSet(DOMAIN f) /\ DOMAIN f \subseteq Nat \ {NoPage} BY DEF Forest
  <2> QED BY <1>1, <1>2, <2>1, FS_AddElement
<1>4. \A n \in DOMAIN f : n \in DOMAIN g /\ g[n] = f[n] /\ (IsNode(g, n) <=> IsNode(f, n))
                          /\ (IsInner(g, n) <=> IsInner(f, n)) /\ Children(g, n) = Children(f, n)
  BY <1>1, PagesStay
<1>5. \A n \in DOMAIN g : IsNode(g, n) \/ g[n] = Overflow
  <2>1. IsNode(g, new) \/ g[new] = Overflow BY <1>1 DEF IsNode, IsLeaf, IsInner
  <2>2. \A n \in DOMAIN f : IsNode(f, n) \/ f[n] = Overflow BY DEF Forest
  <2> QED BY <1>1, <1>4, <2>1, <2>2
<1>6. \A n \in DOMAIN g : IsInner(g, n) =>
         \A c \in Children(g, n) : IsNode(g, c) /\ g[c].depth = g[n].depth - 1
  <2> TAKE n \in DOMAIN g
  <2> SUFFICES ASSUME IsInner(g, n), NEW c \in Children(g, n)
               PROVE  IsNode(g, c) /\ g[c].depth = g[n].depth - 1
    OBVIOUS
  <2>1. IsNode(f, c) /\ f[c].depth = g[n].depth - 1
    <3>1. CASE n \in DOMAIN f
      <4>1. IsInner(f, n) /\ c \in Children(f, n) /\ g[n] = f[n] BY <1>4, <3>1
      <4> QED BY <3>1, <4>1 DEF Forest
    <3>2. CASE n = new
      <4>1. content \in ParentNode BY <1>1, <3>2 DEF IsInner
      <4>2. PICK i \in DOMAIN content.items : c = content.items[i].page BY <1>1, <3>2 DEF Children
      <4> QED BY <1>1, <3>2, <4>1, <4>2
    <3> QED BY <1>1, <3>1, <3>2
  <2>2. c \in DOMAIN f BY <2>1 DEF IsNode, IsLeaf, IsInner
  <2> QED BY <1>4, <2>1, <2>2
<1>7. Forest(g) BY <1>3, <1>5, <1>6 DEF Forest
<1> QED BY <1>7 DEF g

\* So is everything that refers to pages.
LEMMA ListsStay ==
    ASSUME NEW f, NEW g, Forest(f), Forest(g), Extends(g, f)
    PROVE  /\ \A p : PairOk(f, p) => PairOk(g, p)
           /\ \A s : PairsOk(f, s) => PairsOk(g, s)
           /\ \A s : LeafOk(f, s) => LeafOk(g, s)
           /\ \A d, c : ItemOk(f, d, c) => ItemOk(g, d, c)
           /\ \A d, c, a : ItemOk(f, d, c) /\ Before(f, a, c) => Before(g, a, c)
           /\ \A d, s : ItemsOk(f, d, s) => ItemsOk(g, d, s)
           /\ \A d, s : LevelOk(f, d, s) => LevelOk(g, d, s)
<1>1. \A n : IsOverflow(f, n) => IsOverflow(g, n) BY DEF IsOverflow, Extends
<1>2. \A n : IsNode(f, n) => n \in DOMAIN f /\ IsNode(g, n) /\ g[n] = f[n]
  <2> TAKE n
  <2> HAVE IsNode(f, n)
  <2>1. n \in DOMAIN f BY DEF IsNode, IsLeaf, IsInner
  <2> QED BY <2>1, PagesStay
<1>3. \A p : PairOk(f, p) => PairOk(g, p) BY <1>1 DEF PairOk
<1>4. \A s : PairsOk(f, s) => PairsOk(g, s) BY <1>3 DEF PairsOk
<1>5. \A s : LeafOk(f, s) => LeafOk(g, s) BY <1>4 DEF LeafOk
<1>6. \A d, c : ItemOk(f, d, c) => ItemOk(g, d, c)
  <2> TAKE d, c
  <2> HAVE ItemOk(f, d, c)
  <2>1. c \in ItemRec /\ IsNode(f, c.page) /\ AgreesWith(f, d, c) BY DEF ItemOk
  <2>2. c.page \in DOMAIN f /\ IsNode(g, c.page) /\ g[c.page] = f[c.page] /\ c.page \in DOMAIN g
    BY <1>2, <2>1 DEF Extends
  <2>3. AgreesWith(g, d, c) BY <2>1, <2>2 DEF AgreesWith
  <2>4. LastItem(g, c.page) = LastItem(f, c.page) BY <2>2 DEF LastItem
  <2> QED BY <1>1, <2>1, <2>2, <2>3, <2>4 DEF ItemOk
<1>7. \A d, c, a : ItemOk(f, d, c) /\ Before(f, a, c) => Before(g, a, c)
  <2> TAKE d, c, a
  <2> HAVE ItemOk(f, d, c) /\ Before(f, a, c)
  <2>1. c.page \in DOMAIN f BY <1>2 DEF ItemOk
  <2>2. KeysUnder(g, c.page) = KeysUnder(f, c.page) BY <2>1, TreesStay
  <2> QED BY <2>2 DEF Before
<1>8. \A d, s : ItemsOk(f, d, s) => ItemsOk(g, d, s) BY <1>6, <1>7 DEF ItemsOk
<1>9. \A d, s : LevelOk(f, d, s) => LevelOk(g, d, s) BY <1>8 DEF LevelOk
<1> QED BY <1>3, <1>4, <1>5, <1>6, <1>7, <1>8, <1>9

\* A sound file with one more sound page is sound.
LEMMA FileGrows ==
    ASSUME NEW f, FileOk(f), NEW content,
           \/ content = Overflow
           \/ \E s : content = [depth |-> 0, items |-> s] /\ LeafOk(f, s) /\ s # <<>>
           \/ \E d \in Nat \ {0} : \E s : /\ content = [depth |-> d, items |-> s]
                                      /\ ItemsOk(f, d, s) /\ s # <<>> /\ ParentSize(s) <= ParentRoom
    PROVE  FileOk(WritePage(f, content)) /\ Extends(WritePage(f, content), f)
<1> DEFINE g == WritePage(f, content)
           new == NextPage(f)
<1>1. Forest(f) BY DEF FileOk
<1>2. Extends(g, f) /\ DOMAIN g = DOMAIN f \cup {new} /\ g[new] = content /\ new \notin DOMAIN f
  BY <1>1, WritePageFacts, NextPageFacts
<1>3. content = Overflow \/ content \in LeafNode \/ content \in ParentNode
  BY DEF LeafOk, PairsOk, ItemsOk, LeafNode, ParentNode
<1>4. content \in ParentNode => /\ content.items # <<>> /\ ItemsOk(f, content.depth, content.items)
                                /\ ParentSize(content.items) <= ParentRoom
  <2>1. content \in ParentNode => content.depth > 0 BY DEF ParentNode
  <2>2. Overflow.depth = -1 /\ \A s : [depth |-> 0, items |-> s].depth = 0 BY DEF Overflow
  <2>3. content \in ParentNode => \E d \in Nat \ {0} : \E s : content = [depth |-> d, items |-> s]
                      /\ ItemsOk(f, d, s) /\ s # <<>> /\ ParentSize(s) <= ParentRoom
    BY <2>1, <2>2
  <2> QED BY <2>3
<1>5. content \in LeafNode => content.items # <<>> /\ LeafOk(f, content.items)
  <2>1. content \in LeafNode => content.depth = 0 BY DEF LeafNode
  <2>2. Overflow.depth = -1 /\ \A d, s : [depth |-> d, items |-> s].depth = d BY DEF Overflow
  <2>3. content \in LeafNode => \E s : content = [depth |-> 0, items |-> s] /\ LeafOk(f, s) /\ s # <<>>
    BY <2>1, <2>2
  <2> QED BY <2>3
<1>6. Forest(g)
  <2>1. content \in ParentNode => \A i \in DOMAIN content.items :
              IsNode(f, content.items[i].page) /\ f[content.items[i].page].depth = content.depth - 1
    <3> SUFFICES ASSUME content \in ParentNode, NEW i \in DOMAIN content.items
                 PROVE  /\ IsNode(f, content.items[i].page)
                        /\ f[content.items[i].page].depth = content.depth - 1
      OBVIOUS
    <3>1. ItemOk(f, content.depth, content.items[i]) BY <1>4 DEF ItemsOk
    <3> QED BY <3>1 DEF ItemOk, AgreesWith
  <2> QED BY <1>1, <1>3, <2>1, ForestGrows
<1> HIDE DEF g, new
<1>7. \A n \in DOMAIN f : PageOk(g, n)
  <2> TAKE n \in DOMAIN f
  <2>1. PageOk(f, n) BY DEF FileOk
  <2>2. g[n] = f[n] /\ (IsLeaf(g, n) <=> IsLeaf(f, n)) /\ (IsInner(g, n) <=> IsInner(f, n))
    BY <1>2, PagesStay
  <2> QED BY <1>1, <1>2, <1>6, <2>1, <2>2, ListsStay DEF PageOk
<1>8. PageOk(g, new)
  <2>1. IsLeaf(g, new) => content \in LeafNode BY <1>2 DEF IsLeaf
  <2>2. IsInner(g, new) => content \in ParentNode BY <1>2 DEF IsInner
  <2> QED BY <1>1, <1>2, <1>4, <1>5, <1>6, <2>1, <2>2, ListsStay DEF PageOk
<1>9. FileOk(g) BY <1>2, <1>6, <1>7, <1>8 DEF FileOk
<1> QED BY <1>2, <1>9 DEF g

-----------------------------------------------------------------------------
(* The keys under a page.                                                  *)

\* What is in a list, and in a pair or an item.
LEMMA Element ==
    ASSUME NEW S, NEW s \in Seq(S), NEW i \in DOMAIN s
    PROVE  s[i] \in S
  OBVIOUS

\* Lists with the same places and the same in each are one list.
LEMMA SameList ==
    ASSUME NEW S, NEW s \in Seq(S), NEW t \in Seq(S), DOMAIN s = DOMAIN t,
           \A i \in DOMAIN s : s[i] = t[i]
    PROVE  s = t
  OBVIOUS

\* What the fields of pairs and of items are.
LEMMA Fields ==
    /\ \A p \in PairRec : p.key \in Keys /\ p.keyPage \in Nat /\ p.valuePage \in Nat
                          /\ p.value \in Values \cup {Tombstone}
    /\ \A c \in ItemRec : c.page \in Nat /\ c.key \in Keys /\ c.overflow \in Nat
                          /\ c.leaves \in Nat /\ c.tombstones \in Nat
                          /\ c.location \in {"inline", "owned", "borrowed"}
<1>1. \A p \in PairRec : p.key \in Keys /\ p.keyPage \in Nat /\ p.valuePage \in Nat
                          /\ p.value \in Values \cup {Tombstone}
  BY DEF PairRec
<1>2. \A c \in ItemRec : c.page \in Nat /\ c.key \in Keys /\ c.overflow \in Nat
                          /\ c.leaves \in Nat /\ c.tombstones \in Nat
                          /\ c.location \in {"inline", "owned", "borrowed"}
  BY DEF ItemRec
<1> QED BY <1>1, <1>2

\* The key of the last item of a page is the greatest key under it.
LEMMA KeyFacts ==
    ASSUME NEW f, FileOk(f), NEW n, IsNode(f, n)
    PROVE  /\ Len(f[n].items) \in Nat /\ Len(f[n].items) >= 1
           /\ LastItem(f, n).key \in KeysUnder(f, n)
           /\ \A k \in KeysUnder(f, n) : k \in Int /\ k \in Keys /\ k <= LastItem(f, n).key
<1> DEFINE Good(x) == /\ Len(f[x].items) \in Nat /\ Len(f[x].items) >= 1
                      /\ LastItem(f, x).key \in KeysUnder(f, x)
                      /\ \A k \in KeysUnder(f, x) : k \in Int /\ k \in Keys /\ k <= LastItem(f, x).key
           Bad == {x \in DOMAIN f : IsNode(f, x) /\ ~Good(x)}
<1>1. Forest(f) /\ Keys \subseteq Int BY PairsAssumption DEF FileOk
<1>2. ASSUME Bad # {}
      PROVE  FALSE
  <2>1. PICK x \in Bad : \A m \in Bad : f[x].depth <= f[m].depth
    <3>1. Bad \subseteq DOMAIN f OBVIOUS
    <3> HIDE DEF Bad
    <3> QED BY <1>1, <1>2, <3>1, LowestPage
  <2>2. x \in DOMAIN f /\ IsNode(f, x) /\ ~Good(x) OBVIOUS
  <2>3. PageOk(f, x) BY <2>2 DEF FileOk
  <2> DEFINE s == f[x].items
             N == Len(s)
  <2>4. CASE IsLeaf(f, x)
    <3>1. s # <<>> /\ LeafOk(f, s) BY <2>3, <2>4 DEF PageOk
    <3>2. s \in Seq(PairRec) /\ Ascending(s) BY <3>1 DEF LeafOk, PairsOk
    <3>3. N \in Nat /\ N >= 1 /\ DOMAIN s = 1..N BY <3>1, <3>2
    <3>4. \A i \in 1..N : s[i].key \in Keys BY <3>2, <3>3, Element, Fields
    <3>a. N \in 1..N /\ \A i \in 1..N : s[i].key \in Int
      <4>1. N \in 1..N BY <3>3
      <4>2. \A k \in Keys : k \in Int BY PairsAssumption
      <4> QED BY <3>4, <4>1, <4>2
    <3>5. KeysUnder(f, x) = {s[i].key : i \in 1..N} BY <1>1, <2>4, <3>3, PairsUnderFacts
    <3>6. \A i \in 1..N : s[i].key <= s[N].key
      <4> TAKE i \in 1..N
      <4>1. i = N \/ i < N BY <3>3
      <4>2. s[i].key \in Int /\ s[N].key \in Int BY <3>a
      <4>3. i < N => s[i].key < s[N].key BY <3>2, <3>3 DEF Ascending
      <4> QED BY <4>1, <4>2, <4>3
    <3>7. Good(x)
      <4>1. LastItem(f, x).key = s[N].key BY DEF LastItem
      <4>2. s[N].key \in KeysUnder(f, x) BY <3>a, <3>5
      <4>3. \A k \in KeysUnder(f, x) : k \in Int /\ k \in Keys /\ k <= s[N].key
        BY <3>a, <3>4, <3>5, <3>6
      <4> QED BY <3>3, <4>1, <4>2, <4>3
    <3> QED BY <2>2, <3>7
  <2>5. CASE IsInner(f, x)
    <3>1. s # <<>> /\ ItemsOk(f, f[x].depth, s) BY <2>3, <2>5 DEF PageOk
    <3>2. s \in Seq(ItemRec) /\ (\A i \in DOMAIN s : ItemOk(f, f[x].depth, s[i]))
          /\ \A i, j \in DOMAIN s : i < j => Before(f, s[i], s[j])
      BY <3>1 DEF ItemsOk
    <3>3. N \in Nat /\ N >= 1 /\ DOMAIN s = 1..N BY <3>1, <3>2
    <3>4. KeysUnder(f, x) = UNION {KeysUnder(f, c) : c \in Children(f, x)}
      BY <1>1, <2>5, PairsUnderFacts
    <3>5. \A k \in KeysUnder(f, x) : \E i \in 1..N : k \in KeysUnder(f, s[i].page)
      BY <3>3, <3>4 DEF Children
    <3>6. \A i \in 1..N : KeysUnder(f, s[i].page) \subseteq KeysUnder(f, x)
      BY <3>3, <3>4 DEF Children
    <3>7. \A i \in 1..N : Good(s[i].page) /\ s[i].key = LastItem(f, s[i].page).key
      <4> TAKE i \in 1..N
      <4>1. s[i].page \in DOMAIN f /\ IsNode(f, s[i].page) /\ f[s[i].page].depth = f[x].depth - 1
            /\ s[i].key = LastItem(f, s[i].page).key
        <5>1. ItemOk(f, f[x].depth, s[i]) BY <3>2, <3>3
        <5>2. IsNode(f, s[i].page) BY <5>1 DEF ItemOk
        <5>3. AgreesWith(f, f[x].depth, s[i]) BY <5>1 DEF ItemOk
        <5> QED BY <5>2, <5>3 DEF AgreesWith, LastItem
      <4>2. f[x].depth \in Int BY <1>1, <2>2, NodeFacts DEF Forest
      <4>3. s[i].page \notin Bad
        <5> SUFFICES ASSUME s[i].page \in Bad
                     PROVE  FALSE
          OBVIOUS
        <5>1. f[x].depth <= f[s[i].page].depth BY <2>1
        <5> QED BY <4>1, <4>2, <5>1
      <4> QED BY <4>1, <4>3
    <3>8. \A i \in 1..N : \A k \in KeysUnder(f, s[i].page) : k \in Int /\ k \in Keys /\ k <= s[i].key
      BY <3>7
    <3>9. \A i \in 1..N : s[i].key \in KeysUnder(f, s[i].page) BY <3>7
    <3>10. \A i \in 1..N : s[i].key <= s[N].key
      <4> TAKE i \in 1..N
      <4>1. CASE i = N BY <1>1, <3>8, <3>9, <4>1
      <4>2. CASE i < N
        <5>1. Before(f, s[i], s[N]) BY <3>2, <3>3, <4>2
        <5>2. s[i].key < s[N].key BY <3>3, <3>9, <5>1 DEF Before
        <5>3. s[i].key \in Int /\ s[N].key \in Int BY <3>3, <3>8, <3>9
        <5> QED BY <5>2, <5>3
      <4> QED BY <3>3, <4>1, <4>2
    <3>11. \A k \in KeysUnder(f, x) : k \in Int /\ k \in Keys /\ k <= s[N].key
      <4> TAKE k \in KeysUnder(f, x)
      <4>1. PICK i \in 1..N : k \in KeysUnder(f, s[i].page) BY <3>5
      <4>2. k \in Int /\ k \in Keys /\ k <= s[i].key /\ s[i].key <= s[N].key BY <3>8, <3>10, <4>1
      <4>3. s[i].key \in Int /\ s[N].key \in Int BY <3>3, <3>8, <3>9
      <4> QED BY <4>2, <4>3
    <3>12. s[N].key \in KeysUnder(f, x) BY <3>3, <3>6, <3>9
    <3>13. Good(x) BY <3>3, <3>11, <3>12 DEF LastItem
    <3> QED BY <2>2, <3>13
  <2> QED BY <2>2, <2>4, <2>5 DEF IsNode
<1>3. n \in DOMAIN f BY DEF IsNode, IsLeaf, IsInner
<1>4. Good(n) BY <1>2, <1>3
<1> QED BY <1>4

\* The key of an item is the greatest one under it.
LEMMA ItemKeys ==
    ASSUME NEW f, FileOk(f), NEW d, NEW c, ItemOk(f, d, c)
    PROVE  /\ c.key \in Int /\ c.key \in Keys /\ c.key \in KeysUnder(f, c.page)
           /\ \A k \in KeysUnder(f, c.page) : k \in Int /\ k \in Keys /\ k <= c.key
<1>1. IsNode(f, c.page) /\ c.key = LastItem(f, c.page).key BY DEF ItemOk, AgreesWith, LastItem
<1> QED BY <1>1, KeyFacts

\* So keys ascend in a parent.
LEMMA ItemsAscend ==
    ASSUME NEW f, FileOk(f), NEW d, NEW s, ItemsOk(f, d, s)
    PROVE  Ascending(s)
  BY ItemKeys DEF ItemsOk, Ascending, Before

\* What a file says is sound.
LEMMA FileSound ==
    ASSUME NEW f, FileOk(f), NEW n, IsNode(f, n)
    PROVE  Sound(f, n)
<1>1. Forest(f) /\ n \in DOMAIN f /\ PageOk(f, n) BY DEF FileOk, IsNode, IsLeaf, IsInner
<1> DEFINE s == f[n].items
<1>2. CASE IsLeaf(f, n)
  <2>1. s # <<>> /\ LeafOk(f, s) /\ f[n].depth = 0 BY <1>1, <1>2, NodeFacts DEF PageOk, IsNode
  <2>2. \A i \in DOMAIN s : PairOk(f, s[i]) BY <2>1 DEF LeafOk, PairsOk
  <2>3. \A i \in DOMAIN s : \A q \in Overflows(0, s[i]) : IsOverflow(f, q)
    BY <2>2 DEF PairOk, Overflows, PageOf
  <2> QED BY <2>1, <2>3 DEF Sound, LeafOk, PairsOk, Ascending
<1>3. CASE IsInner(f, n)
  <2>1. s # <<>> /\ ItemsOk(f, f[n].depth, s) /\ ParentSize(s) <= ParentRoom
    BY <1>1, <1>3 DEF PageOk
  <2>2. f[n].depth # 0 BY <1>1, <1>3, NodeFacts DEF IsNode
  <2>3. \A i \in DOMAIN s : ItemOk(f, f[n].depth, s[i]) BY <2>1 DEF ItemsOk
  <2>4. \A i \in DOMAIN s : \A q \in Overflows(f[n].depth, s[i]) : IsOverflow(f, q)
    BY <2>2, <2>3 DEF ItemOk, Overflows, PageOf
  <2>5. \A i, j \in DOMAIN s : i < j => s[i].key < s[j].key BY <2>1, ItemsAscend DEF Ascending
  <2>6. s \in Seq(ItemRec) BY <2>1 DEF ItemsOk
  <2>7. \A i \in DOMAIN s : /\ AgreesWith(f, f[n].depth, s[i])
                            /\ \A k \in KeysUnder(f, s[i].page) :
                                  k <= s[i].key /\ (i > 1 => s[i - 1].key < k)
    <3> TAKE i \in DOMAIN s
    <3>1. AgreesWith(f, f[n].depth, s[i]) BY <2>3 DEF ItemOk
    <3>2. \A k \in KeysUnder(f, s[i].page) : k <= s[i].key BY <2>3, ItemKeys
    <3>3. i > 1 => i - 1 \in DOMAIN s /\ i - 1 < i BY <2>6
    <3>4. i > 1 => Before(f, s[i - 1], s[i]) BY <2>1, <3>3 DEF ItemsOk
    <3> QED BY <3>1, <3>2, <3>4 DEF Before
  <2> QED BY <2>1, <2>2, <2>4, <2>5, <2>7 DEF Sound
<1> QED BY <1>2, <1>3 DEF IsNode

\* What a parent is told of a page can be counted.
LEMMA Counts ==
    ASSUME NEW d \in Nat, NEW s, d = 0 => s \in Seq(PairRec), d # 0 => s \in Seq(ItemRec)
    PROVE  /\ Leaves([depth |-> d, items |-> s]) \in Nat
           /\ Tombstones([depth |-> d, items |-> s]) \in Nat
<1> DEFINE node == [depth |-> d, items |-> s]
<1>0. node.depth = d /\ node.items = s OBVIOUS
<1>1. CASE d = 0
  <2> DEFINE t == [i \in DOMAIN s |-> IF s[i].value = Tombstone THEN 1 ELSE 0]
  <2>1. t \in Seq(Nat)
    <3>1. s \in Seq(PairRec) BY <1>1
    <3>2. DOMAIN s = 1..Len(s) /\ Len(s) \in Nat BY <3>1
    <3> QED BY <3>2
  <2>2. Sum(t) \in Nat
    <3> HIDE DEF t
    <3> QED BY <2>1, SumFacts
  <2> QED BY <1>0, <1>1, <2>2 DEF Leaves, Tombstones
<1>2. CASE d # 0
  <2> DEFINE l == [i \in DOMAIN s |-> s[i].leaves]
             t == [i \in DOMAIN s |-> s[i].tombstones]
  <2>1. l \in Seq(Nat) /\ t \in Seq(Nat)
    <3>1. s \in Seq(ItemRec) BY <1>2
    <3>2. DOMAIN s = 1..Len(s) /\ Len(s) \in Nat BY <3>1
    <3>3. \A i \in DOMAIN s : s[i].leaves \in Nat /\ s[i].tombstones \in Nat
      BY <3>1, Element, Fields
    <3> QED BY <3>2, <3>3
  <2>2. Sum(l) \in Nat /\ Sum(t) \in Nat
    <3> HIDE DEF l, t
    <3> QED BY <2>1, SumFacts
  <2> QED BY <1>0, <1>2, <2>2 DEF Leaves, Tombstones
<1> QED BY <1>1, <1>2

-----------------------------------------------------------------------------
(* Writing leaves and parents.                                             *)

\* A parent that is written, and the item for the level above.
LEMMA ParentWritten ==
    ASSUME NEW f, FileOk(f), NEW d \in Nat \ {0}, NEW s, ItemsOk(f, d, s), s # <<>>,
           ParentSize(s) <= ParentRoom, NEW node, node = [depth |-> d, items |-> s],
           NEW g, g = WritePage(f, node), NEW c, c = ItemForParent(NextPage(f), node)
    PROVE  /\ FileOk(g) /\ Extends(g, f)
           /\ ItemOk(g, d + 1, c) /\ c.location # "owned" /\ c.page = NextPage(f)
           /\ c.key = s[Len(s)].key
           /\ KeysUnder(g, c.page) = UNION {KeysUnder(f, s[i].page) : i \in DOMAIN s}
           /\ Children(g, c.page) = ItemPages(s)
<1> DEFINE new == NextPage(f)
           last == s[Len(s)]
<1>1. FileOk(g) /\ Extends(g, f) BY FileGrows
<1>2. Forest(f) /\ Forest(g) BY <1>1 DEF FileOk
<1>3. new \in Nat /\ new \in DOMAIN g /\ g[new] = node
  <2>1. new \in Nat BY <1>2, NextPageFacts
  <2>2. DOMAIN g = DOMAIN f \cup {new} /\ g[new] = node BY <1>2, WritePageFacts
  <2> QED BY <2>1, <2>2
<1>4. s \in Seq(ItemRec) /\ \A i \in DOMAIN s : ItemOk(f, d, s[i]) BY DEF ItemsOk
<1>5. Len(s) \in DOMAIN s /\ ItemOk(f, d, last) /\ last \in ItemRec
  <2>1. Len(s) \in DOMAIN s BY <1>4
  <2> QED BY <1>4, <2>1 DEF ItemOk
<1>6. IsInner(g, new) /\ node.depth = d /\ node.items = s BY <1>3, <1>4 DEF IsInner, ParentNode
<1>7. Leaves(node) \in Nat /\ Tombstones(node) \in Nat BY <1>4, Counts
<1> HIDE DEF new, last
<1>8. c = [page |-> new, key |-> last.key,
           location |-> IF last.location = "owned" THEN "inline" ELSE last.location,
           overflow |-> IF last.location = "owned" THEN NoPage ELSE last.overflow,
           leaves |-> Leaves(node), tombstones |-> Tombstones(node)]
  BY <1>6 DEF ItemForParent, new, last
<1>9. /\ c.page = new /\ c.key = last.key
      /\ c.location = IF last.location = "owned" THEN "inline" ELSE last.location
      /\ c.overflow = IF last.location = "owned" THEN NoPage ELSE last.overflow
      /\ c.leaves = Leaves(node) /\ c.tombstones = Tombstones(node)
  BY <1>8
<1>10. c \in ItemRec
  <2>1. last.key \in Keys /\ last.overflow \in Nat /\ last.location \in {"inline", "owned", "borrowed"}
    BY <1>5, Fields
  <2>2. (IF last.location = "owned" THEN "inline" ELSE last.location) \in {"inline", "owned", "borrowed"}
    BY <2>1
  <2>3. (IF last.location = "owned" THEN NoPage ELSE last.overflow) \in Nat BY <2>1 DEF NoPage
  <2> QED BY <1>3, <1>7, <1>8, <2>1, <2>2, <2>3 DEF ItemRec
<1>12. AgreesWith(g, d + 1, c)
  <2>1. c.page \in DOMAIN g /\ g[c.page].depth = d + 1 - 1 /\ g[c.page] = node /\ d + 1 # 1
    BY <1>3, <1>6, <1>9
  <2>2. node.items[Len(node.items)] = last BY <1>6 DEF last
  <2>3. c.location = "borrowed" => last.location = "borrowed" /\ c.overflow = last.overflow BY <1>9
  <2> QED BY <1>9, <2>1, <2>2, <2>3 DEF AgreesWith
<1>13. c.location # "borrowed" => Small(c.key) BY <1>5, <1>9 DEF ItemOk
<1>14. c.location # "owned"
  <2>1. "inline" # "owned" OBVIOUS
  <2> QED BY <1>9, <2>1
<1>15. ItemOk(g, d + 1, c) BY <1>6, <1>9, <1>10, <1>12, <1>13, <1>14 DEF ItemOk, IsNode
<1>16. Children(g, new) = {s[i].page : i \in DOMAIN s} BY <1>3, <1>6 DEF Children
<1>17. KeysUnder(g, new) = UNION {KeysUnder(f, s[i].page) : i \in DOMAIN s}
  <2>1. KeysUnder(g, new) = UNION {KeysUnder(g, m) : m \in {s[i].page : i \in DOMAIN s}}
    BY <1>2, <1>6, <1>16, PairsUnderFacts
  <2>2. \A i \in DOMAIN s : KeysUnder(g, s[i].page) = KeysUnder(f, s[i].page)
    <3> TAKE i \in DOMAIN s
    <3>1. s[i].page \in DOMAIN f BY <1>4 DEF ItemOk, IsNode, IsLeaf, IsInner
    <3> QED BY <1>1, <1>2, <3>1, TreesStay
  <2> QED BY <2>1, <2>2
<1> QED BY <1>1, <1>9, <1>14, <1>15, <1>16, <1>17 DEF new, last, ItemPages

\* A leaf that is written, and the item for the level above.
LEMMA LeafWritten ==
    ASSUME NEW f, FileOk(f), NEW s, LeafOk(f, s), s # <<>>,
           NEW node, node = [depth |-> 0, items |-> s],
           NEW g, g = WritePage(f, node), NEW c, c = LeafForParent(NextPage(f), node)
    PROVE  /\ FileOk(g) /\ Extends(g, f)
           /\ ItemOk(g, 1, c) /\ c.location # "owned" /\ c.page = NextPage(f)
           /\ c.key = s[Len(s)].key
           /\ KeysUnder(g, c.page) = {s[i].key : i \in DOMAIN s}
<1> DEFINE new == NextPage(f)
           last == s[Len(s)]
<1>1. FileOk(g) /\ Extends(g, f) BY FileGrows
<1>2. Forest(f) /\ Forest(g) BY <1>1 DEF FileOk
<1>3. new \in Nat /\ new \in DOMAIN g /\ g[new] = node
  <2>1. new \in Nat BY <1>2, NextPageFacts
  <2>2. DOMAIN g = DOMAIN f \cup {new} /\ g[new] = node BY <1>2, WritePageFacts
  <2> QED BY <2>1, <2>2
<1>4. s \in Seq(PairRec) /\ \A i \in DOMAIN s : s[i].keyPage = NoPage => Small(s[i].key)
  BY DEF LeafOk, PairsOk
<1>5. Len(s) \in DOMAIN s /\ last \in PairRec BY <1>4
<1>6. IsLeaf(g, new) /\ node.depth = 0 /\ node.items = s BY <1>3, <1>4 DEF IsLeaf, LeafNode
<1>7. Leaves(node) \in Nat /\ Tombstones(node) \in Nat BY <1>4, Counts
<1> HIDE DEF new, last
<1>8. c = [page |-> new, key |-> last.key,
           location |-> IF last.keyPage = NoPage THEN "inline" ELSE "borrowed",
           overflow |-> last.keyPage,
           leaves |-> Leaves(node), tombstones |-> Tombstones(node)]
  BY <1>6 DEF LeafForParent, new, last
<1>9. /\ c.page = new /\ c.key = last.key
      /\ c.location = IF last.keyPage = NoPage THEN "inline" ELSE "borrowed"
      /\ c.overflow = last.keyPage
      /\ c.leaves = Leaves(node) /\ c.tombstones = Tombstones(node)
  BY <1>8
<1>10. c \in ItemRec
  <2>1. last.key \in Keys /\ last.keyPage \in Nat BY <1>5, Fields
  <2>2. (IF last.keyPage = NoPage THEN "inline" ELSE "borrowed") \in {"inline", "owned", "borrowed"}
    OBVIOUS
  <2> QED BY <1>3, <1>7, <1>8, <2>1, <2>2 DEF ItemRec
<1>11. LastItem(g, new) = last BY <1>3, <1>6 DEF LastItem, last
<1>12. "inline" # "borrowed" /\ "inline" # "owned" /\ "borrowed" # "owned" OBVIOUS
<1>13. AgreesWith(g, 1, c)
  <2>1. c.page \in DOMAIN g /\ g[c.page].depth = 1 - 1 /\ g[c.page] = node BY <1>3, <1>6, <1>9
  <2>2. node.items[Len(node.items)] = last BY <1>6 DEF last
  <2> QED BY <1>9, <1>12, <2>1, <2>2 DEF AgreesWith
<1>14. c.location # "borrowed" => Small(c.key) /\ last.keyPage = NoPage BY <1>4, <1>5, <1>9 DEF last
<1>15. c.location # "owned" BY <1>9, <1>12
<1>16. ItemOk(g, 1, c) BY <1>6, <1>9, <1>10, <1>11, <1>13, <1>14, <1>15 DEF ItemOk, IsNode
<1>17. KeysUnder(g, new) = {s[i].key : i \in DOMAIN s} BY <1>2, <1>3, <1>6, PairsUnderFacts
<1> QED BY <1>1, <1>9, <1>15, <1>16, <1>17 DEF new, last

-----------------------------------------------------------------------------
(* The sizes of lists, and the two items that always fit into a page.      *)

\* The size of a parent grows by what the item that is put behind needs.
LEMMA ParentSizes ==
    /\ ParentSize(<<>>) = 0
    /\ \A c \in ItemRec : ParentNeed(c) \in Nat
    /\ \A s \in Seq(ItemRec) : ParentSize(s) \in Nat
    /\ \A s \in Seq(ItemRec), c \in ItemRec : ParentSize(Append(s, c)) = ParentSize(s) + ParentNeed(c)
<1>1. \A c \in ItemRec : ParentNeed(c) \in Nat BY TreesAssumption, Fields DEF ParentNeed
<1> DEFINE needs(s) == [i \in DOMAIN s |-> ParentNeed(s[i])]
<1>2. \A s \in Seq(ItemRec) : needs(s) \in Seq(Nat) /\ ParentSize(s) = Sum(needs(s))
  <2> TAKE s \in Seq(ItemRec)
  <2>1. \A i \in DOMAIN s : ParentNeed(s[i]) \in Nat BY <1>1, Element
  <2>2. DOMAIN s = 1..Len(s) /\ Len(s) \in Nat OBVIOUS
  <2>3. needs(s) \in Seq(Nat) BY <2>1, <2>2
  <2> QED BY <2>3 DEF ParentSize
<1>3. \A s \in Seq(ItemRec), c \in ItemRec : needs(Append(s, c)) = Append(needs(s), ParentNeed(c))
  <2> TAKE s \in Seq(ItemRec), c \in ItemRec
  <2> DEFINE N == Len(s)
  <2>1. N \in Nat /\ DOMAIN s = 1..N /\ Append(s, c) \in Seq(ItemRec) /\ DOMAIN Append(s, c) = 1..N + 1
    OBVIOUS
  <2>2. needs(s) \in Seq(Nat) /\ needs(Append(s, c)) \in Seq(Nat) /\ DOMAIN needs(s) = 1..N
    BY <1>2, <2>1
  <2>3. Append(needs(s), ParentNeed(c)) \in Seq(Nat)
        /\ DOMAIN Append(needs(s), ParentNeed(c)) = 1..N + 1
    BY <1>1, <2>1, <2>2
  <2>4. \A i \in 1..N + 1 : needs(Append(s, c))[i] = Append(needs(s), ParentNeed(c))[i]
    <3> TAKE i \in 1..N + 1
    <3>1. needs(Append(s, c))[i] = ParentNeed(Append(s, c)[i]) BY <2>1
    <3>2. CASE i = N + 1 BY <2>1, <2>2, <3>1, <3>2
    <3>3. CASE i # N + 1
      <4>1. i \in 1..N BY <2>1, <3>3
      <4>2. Append(s, c)[i] = s[i] /\ needs(s)[i] = ParentNeed(s[i]) BY <2>1, <4>1
      <4> QED BY <2>1, <2>2, <3>1, <4>1, <4>2
    <3> QED BY <3>2, <3>3
  <2> HIDE DEF needs, N
  <2>6. DOMAIN needs(Append(s, c)) = 1..N + 1 BY <2>1 DEF needs
  <2> QED BY <2>2, <2>3, <2>4, <2>6, SameList
<1>4. ParentSize(<<>>) = 0
  <2>1. needs(<<>>) = <<>> /\ <<>> \in Seq(ItemRec) OBVIOUS
  <2> HIDE DEF needs
  <2> QED BY <1>2, <2>1, SumFacts
<1> HIDE DEF needs
<1>5. \A s \in Seq(ItemRec), c \in ItemRec : ParentSize(Append(s, c)) = ParentSize(s) + ParentNeed(c)
  <2> TAKE s \in Seq(ItemRec), c \in ItemRec
  <2>1. Append(s, c) \in Seq(ItemRec) OBVIOUS
  <2>2. Sum(Append(needs(s), ParentNeed(c))) = Sum(needs(s)) + ParentNeed(c) BY <1>1, <1>2, SumFacts
  <2> QED BY <1>2, <1>3, <2>1, <2>2
<1>6. \A s \in Seq(ItemRec) : ParentSize(s) \in Nat BY <1>2, SumFacts
<1> QED BY <1>1, <1>4, <1>5, <1>6

\* The size of a leaf grows by what the pair that is put behind needs.
LEMMA LeafSizes ==
    /\ LeafSize(<<>>) = 0
    /\ \A p \in PairRec : LeafNeed(p) \in Nat
    /\ \A s \in Seq(PairRec) : LeafSize(s) \in Nat
    /\ \A s \in Seq(PairRec), p \in PairRec : LeafSize(Append(s, p)) = LeafSize(s) + LeafNeed(p)
<1>1. \A p \in PairRec : LeafNeed(p) \in Nat BY TreesAssumption, Fields DEF LeafNeed
<1> DEFINE needs(s) == [i \in DOMAIN s |-> LeafNeed(s[i])]
<1>2. \A s \in Seq(PairRec) : needs(s) \in Seq(Nat) /\ LeafSize(s) = Sum(needs(s))
  <2> TAKE s \in Seq(PairRec)
  <2>1. \A i \in DOMAIN s : LeafNeed(s[i]) \in Nat BY <1>1, Element
  <2>2. DOMAIN s = 1..Len(s) /\ Len(s) \in Nat OBVIOUS
  <2>3. needs(s) \in Seq(Nat) BY <2>1, <2>2
  <2> QED BY <2>3 DEF LeafSize
<1>3. \A s \in Seq(PairRec), p \in PairRec : needs(Append(s, p)) = Append(needs(s), LeafNeed(p))
  <2> TAKE s \in Seq(PairRec), p \in PairRec
  <2> DEFINE N == Len(s)
  <2>1. N \in Nat /\ DOMAIN s = 1..N /\ Append(s, p) \in Seq(PairRec) /\ DOMAIN Append(s, p) = 1..N + 1
    OBVIOUS
  <2>2. needs(s) \in Seq(Nat) /\ needs(Append(s, p)) \in Seq(Nat) /\ DOMAIN needs(s) = 1..N
    BY <1>2, <2>1
  <2>3. Append(needs(s), LeafNeed(p)) \in Seq(Nat)
        /\ DOMAIN Append(needs(s), LeafNeed(p)) = 1..N + 1
    BY <1>1, <2>1, <2>2
  <2>4. \A i \in 1..N + 1 : needs(Append(s, p))[i] = Append(needs(s), LeafNeed(p))[i]
    <3> TAKE i \in 1..N + 1
    <3>1. needs(Append(s, p))[i] = LeafNeed(Append(s, p)[i]) BY <2>1
    <3>2. CASE i = N + 1 BY <2>1, <2>2, <3>1, <3>2
    <3>3. CASE i # N + 1
      <4>1. i \in 1..N BY <2>1, <3>3
      <4>2. Append(s, p)[i] = s[i] /\ needs(s)[i] = LeafNeed(s[i]) BY <2>1, <4>1
      <4> QED BY <2>1, <2>2, <3>1, <4>1, <4>2
    <3> QED BY <3>2, <3>3
  <2> HIDE DEF needs, N
  <2>5. DOMAIN needs(Append(s, p)) = 1..N + 1 BY <2>1 DEF needs
  <2> QED BY <2>2, <2>3, <2>4, <2>5, SameList
<1>4. LeafSize(<<>>) = 0
  <2>1. needs(<<>>) = <<>> /\ <<>> \in Seq(PairRec) OBVIOUS
  <2> HIDE DEF needs
  <2> QED BY <1>2, <2>1, SumFacts
<1> HIDE DEF needs
<1>5. \A s \in Seq(PairRec), p \in PairRec : LeafSize(Append(s, p)) = LeafSize(s) + LeafNeed(p)
  <2> TAKE s \in Seq(PairRec), p \in PairRec
  <2>1. Append(s, p) \in Seq(PairRec) OBVIOUS
  <2>2. Sum(Append(needs(s), LeafNeed(p))) = Sum(needs(s)) + LeafNeed(p) BY <1>1, <1>2, SumFacts
  <2> QED BY <1>2, <1>3, <2>1, <2>2
<1>6. \A s \in Seq(PairRec) : LeafSize(s) \in Nat BY <1>2, SumFacts
<1> QED BY <1>1, <1>4, <1>5, <1>6

\* A key in the page is given an overflow of its own.
LEMMA OwnedFacts ==
    ASSUME NEW f, FileOk(f), NEW d, NEW s, ItemsOk(f, d, s), NEW i \in DOMAIN s,
           s[i].location = "inline",
           NEW t, t = ToOwnedOverflow([file |-> f, items |-> s], i)
    PROVE  /\ t = [file |-> t.file, items |-> t.items]
           /\ t.file = WritePage(f, Overflow)
           /\ FileOk(t.file) /\ Extends(t.file, f) /\ ItemsOk(t.file, d, t.items)
           /\ DOMAIN t.items = DOMAIN s /\ Len(t.items) = Len(s)
           /\ \A j \in DOMAIN s : /\ t.items[j].page = s[j].page /\ t.items[j].key = s[j].key
                                  /\ j # i => t.items[j] = s[j]
           /\ t.items[i].location = "owned" /\ t.items[i].overflow = NextPage(f)
<1> DEFINE g == WritePage(f, Overflow)
           c == [s[i] EXCEPT !.location = "owned", !.overflow = NextPage(f)]
           it == [s EXCEPT ![i] = c]
<1>1. t = [file |-> g, items |-> it]
  <2> DEFINE z == [file |-> f, items |-> s]
  <2>1. z.file = f /\ z.items = s OBVIOUS
  <2> HIDE DEF z
  <2>2. ToOwnedOverflow(z, i) = [file |-> g, items |-> it] BY <2>1 DEF ToOwnedOverflow
  <2> QED BY <2>2 DEF z
<1>2. t.file = g /\ t.items = it
  <2> HIDE DEF g, it
  <2> QED BY <1>1
<1>3. FileOk(g) /\ Extends(g, f) BY FileGrows
<1>4. Forest(f) /\ Forest(g) BY <1>3 DEF FileOk
<1>5. NextPage(f) \in Nat /\ NextPage(f) # NoPage /\ IsOverflow(g, NextPage(f))
  BY <1>4, WritePageFacts, NextPageFacts DEF IsOverflow
<1>6. s \in Seq(ItemRec) /\ \A j \in DOMAIN s : ItemOk(g, d, s[j])
  BY <1>3, <1>4, ListsStay DEF ItemsOk
<1>7. s[i] \in ItemRec BY <1>6, Element
<1>8. /\ c.page = s[i].page /\ c.key = s[i].key /\ c.leaves = s[i].leaves
      /\ c.tombstones = s[i].tombstones /\ c.location = "owned" /\ c.overflow = NextPage(f)
      /\ c \in ItemRec
  BY <1>5, <1>7 DEF ItemRec
<1>9. "owned" # "borrowed" /\ "owned" # "inline" /\ "inline" # "borrowed" OBVIOUS
<1> HIDE DEF c, g
<1>10. ItemOk(g, d, c)
  <2>1. ItemOk(g, d, s[i]) BY <1>6
  <2>2. AgreesWith(g, d, c)
    <3>1. AgreesWith(g, d, s[i]) BY <2>1 DEF ItemOk
    <3> QED BY <1>8, <1>9, <3>1 DEF AgreesWith
  <2> QED BY <1>5, <1>8, <1>9, <2>1, <2>2 DEF ItemOk
<1>11. it \in Seq(ItemRec) /\ DOMAIN it = DOMAIN s /\ Len(it) = Len(s)
       /\ it[i] = c /\ \A j \in DOMAIN s : j # i => it[j] = s[j]
  BY <1>6, <1>8
<1> HIDE DEF it
<1>12. \A j \in DOMAIN s : it[j].page = s[j].page /\ it[j].key = s[j].key BY <1>8, <1>11
<1>13. ItemsOk(g, d, it)
  <2>1. \A j \in DOMAIN it : ItemOk(g, d, it[j]) BY <1>6, <1>10, <1>11
  <2>2. ItemsOk(g, d, s) BY <1>3, <1>4, ListsStay
  <2>3. \A j, k \in DOMAIN it : j < k => Before(g, it[j], it[k])
    BY <1>11, <1>12, <2>2 DEF ItemsOk, Before
  <2> QED BY <1>11, <2>1, <2>3 DEF ItemsOk
<1> QED BY <1>1, <1>2, <1>3, <1>8, <1>11, <1>12, <1>13 DEF g

\* Two items fit after at most two of that.
LEMMA TwoFit ==
    ASSUME NEW f, FileOk(f), NEW d, NEW s, ItemsOk(f, d, s),
           Len(s) # 2 => ParentSize(s) <= ParentRoom,
           NEW z, z = [file |-> f, items |-> s], NEW t, t = MakeTwoFit(z)
    PROVE  /\ ParentSize(t.items) <= ParentRoom
           /\ \/ t = z
              \/ Len(s) = 2 /\ \E i \in DOMAIN s : /\ s[i].location = "inline"
                                 /\ \/ t = ToOwnedOverflow(z, i)
                                    \/ \E j \in DOMAIN s :
                                          /\ ToOwnedOverflow(z, i).items[j].location = "inline"
                                          /\ t = ToOwnedOverflow(ToOwnedOverflow(z, i), j)
<1>1. CASE Len(s) # 2 \/ ParentSize(s) <= ParentRoom
  <2>1. t = z BY <1>1 DEF MakeTwoFit
  <2> QED BY <1>1, <2>1
<1>2. ASSUME Len(s) = 2, ~(ParentSize(s) <= ParentRoom)
      PROVE  /\ ParentSize(t.items) <= ParentRoom
             /\ \E i \in DOMAIN s : /\ s[i].location = "inline"
                   /\ \/ t = ToOwnedOverflow(z, i)
                      \/ \E j \in DOMAIN s :
                            /\ ToOwnedOverflow(z, i).items[j].location = "inline"
                            /\ t = ToOwnedOverflow(ToOwnedOverflow(z, i), j)
  <2> DEFINE inline == {i \in 1..2 : s[i].location = "inline"}
             longer == IF inline # {1, 2} THEN CHOOSE i \in inline : TRUE
                       ELSE IF KeySize[s[1].key] > KeySize[s[2].key] THEN 1 ELSE 2
             u == ToOwnedOverflow(z, longer)
  <2>1. s \in Seq(ItemRec) /\ DOMAIN s = 1..2 /\ \A i \in DOMAIN s : ItemOk(f, d, s[i])
    BY <1>2 DEF ItemsOk
  <2>2. \A v \in Seq(ItemRec) : Len(v) = 2 => ParentSize(v) = ParentNeed(v[1]) + ParentNeed(v[2])
    <3> TAKE v \in Seq(ItemRec)
    <3> HAVE Len(v) = 2
    <3>1. v = Append(Append(<<>>, v[1]), v[2]) /\ v[1] \in ItemRec /\ v[2] \in ItemRec OBVIOUS
    <3>2. ParentSize(Append(<<>>, v[1])) = ParentNeed(v[1]) /\ Append(<<>>, v[1]) \in Seq(ItemRec)
      <4>1. <<>> \in Seq(ItemRec) /\ Append(<<>>, v[1]) \in Seq(ItemRec) BY <3>1
      <4>2. ParentSize(Append(<<>>, v[1])) = 0 + ParentNeed(v[1]) /\ ParentNeed(v[1]) \in Nat
        BY <3>1, <4>1, ParentSizes
      <4> QED BY <4>1, <4>2
    <3> QED BY <3>1, <3>2, ParentSizes
  <2>3. \A c \in ItemRec : c.location # "inline" => ParentNeed(c) = 1 BY DEF ParentNeed
  <2>4. \A i \in DOMAIN s : ParentNeed(s[i]) <= MaxInline /\ ParentNeed(s[i]) \in Nat
    <3> TAKE i \in DOMAIN s
    <3>1. s[i] \in ItemRec /\ (s[i].location = "inline" => KeySize[s[i].key] <= MaxInline)
      BY <2>1 DEF ItemOk, Small
    <3> QED BY <3>1, TreesAssumption, ParentSizes DEF ParentNeed
  <2>5. inline # {}
    <3> SUFFICES ASSUME inline = {}
                 PROVE  FALSE
      OBVIOUS
    <3>1. s[1] \in ItemRec /\ s[2] \in ItemRec /\ s[1].location # "inline" /\ s[2].location # "inline"
      BY <2>1
    <3>2. ParentSize(s) = 2 BY <1>2, <2>1, <2>2, <2>3, <3>1
    <3> QED BY <1>2, <3>2, TreesAssumption
  <2>6. longer \in inline BY <2>5
  <2>7. z.items = s /\ z.file = f OBVIOUS
  <2>8. t = IF ParentSize(u.items) <= ParentRoom THEN u ELSE ToOwnedOverflow(u, 3 - longer)
    BY <1>2, <2>7 DEF MakeTwoFit
  <2>9. longer \in DOMAIN s /\ s[longer].location = "inline" BY <2>1, <2>6
  <2> HIDE DEF inline, longer
  <2>10. /\ u = [file |-> u.file, items |-> u.items] /\ FileOk(u.file) /\ ItemsOk(u.file, d, u.items)
         /\ DOMAIN u.items = DOMAIN s /\ Len(u.items) = 2
         /\ \A j \in DOMAIN s : j # longer => u.items[j] = s[j]
         /\ u.items[longer].location = "owned"
    BY <1>2, <2>9, OwnedFacts
  <2> HIDE DEF u
  <2>11. "owned" # "inline" OBVIOUS
  <2>12. u.items \in Seq(ItemRec) /\ ParentNeed(u.items[longer]) = 1
    <3>1. u.items \in Seq(ItemRec) BY <2>10 DEF ItemsOk
    <3>2. u.items[longer] \in ItemRec BY <2>9, <2>10, <3>1, Element
    <3> QED BY <2>3, <2>10, <2>11, <3>1, <3>2
  <2>13. 3 - longer \in DOMAIN s /\ 3 - longer # longer /\ longer \in {1, 2} BY <2>1, <2>9
  <2>14. ParentSize(u.items) = 1 + ParentNeed(s[3 - longer])
    <3>1. u.items[3 - longer] = s[3 - longer] BY <2>10, <2>13
    <3>2. ParentSize(u.items) = ParentNeed(u.items[1]) + ParentNeed(u.items[2])
      BY <2>2, <2>10, <2>12
    <3>3. CASE longer = 1 BY <2>4, <2>12, <2>13, <3>1, <3>2, <3>3
    <3>4. CASE longer = 2 BY <2>4, <2>12, <2>13, <3>1, <3>2, <3>4
    <3> QED BY <2>13, <3>3, <3>4
  <2>15. CASE ParentSize(u.items) <= ParentRoom
    <3>1. t = ToOwnedOverflow(z, longer) BY <2>8, <2>15 DEF u
    <3> QED BY <2>8, <2>9, <2>15, <3>1
  <2>16. CASE ~(ParentSize(u.items) <= ParentRoom)
    <3>1. t = ToOwnedOverflow(u, 3 - longer) BY <2>8, <2>16
    <3>2. s[3 - longer].location = "inline"
      <4>1. s[3 - longer].location # "inline" => ParentNeed(s[3 - longer]) = 1
        <5>1. s[3 - longer] \in ItemRec BY <2>1, <2>13, Element
        <5> QED BY <2>3, <5>1
      <4> QED BY <2>14, <2>16, <4>1, TreesAssumption
    <3>3. u.items[3 - longer].location = "inline" /\ 3 - longer \in DOMAIN u.items
      BY <2>10, <2>13, <3>2
    <3>4. /\ ItemsOk(t.file, d, t.items) /\ DOMAIN t.items = DOMAIN s /\ Len(t.items) = 2
          /\ t.items[longer] = u.items[longer] /\ t.items[3 - longer].location = "owned"
      <4> DEFINE j == 3 - longer
      <4>1. j \in DOMAIN u.items /\ u.items[j].location = "inline" /\ t = ToOwnedOverflow(u, j)
            /\ longer \in DOMAIN u.items /\ longer # j
        BY <2>9, <2>10, <2>13, <3>1, <3>3
      <4> HIDE DEF j
      <4>2. t = ToOwnedOverflow([file |-> u.file, items |-> u.items], j) BY <2>10, <4>1
      <4>3. /\ ItemsOk(t.file, d, t.items) /\ DOMAIN t.items = DOMAIN u.items /\ Len(t.items) = Len(u.items)
            /\ t.items[longer] = u.items[longer] /\ t.items[j].location = "owned"
        BY <2>10, <4>1, <4>2, OwnedFacts
      <4> QED BY <2>10, <4>3 DEF j
    <3>5. t.items \in Seq(ItemRec) /\ ParentSize(t.items) = ParentNeed(t.items[1]) + ParentNeed(t.items[2])
      BY <2>2, <3>4 DEF ItemsOk
    <3>6. ParentNeed(t.items[longer]) = 1 /\ ParentNeed(t.items[3 - longer]) = 1
      BY <2>3, <2>11, <2>12, <2>13, <3>4, <3>5, Element
    <3>7. ParentSize(t.items) = 2
      <4>1. CASE longer = 1 BY <3>5, <3>6, <4>1
      <4>2. CASE longer = 2 BY <3>5, <3>6, <4>2
      <4> QED BY <2>13, <4>1, <4>2
    <3>8. ParentSize(t.items) <= ParentRoom BY <3>7, TreesAssumption
    <3>9. 3 - longer \in DOMAIN s /\ ToOwnedOverflow(z, longer).items[3 - longer].location = "inline"
          /\ t = ToOwnedOverflow(ToOwnedOverflow(z, longer), 3 - longer)
      BY <2>13, <3>1, <3>3 DEF u
    <3> QED BY <2>9, <3>8, <3>9
  <2> QED BY <2>15, <2>16
<1> QED BY <1>1, <1>2

-----------------------------------------------------------------------------
(* The leaf and the chain under construction.                              *)

\* All of that stays so when other pages are written.
LEMMA WriterStays ==
    ASSUME NEW f, NEW g, Forest(f), Forest(g), Extends(g, f), NEW lf, NEW ch
    PROVE  /\ LevelsOk(f, lf, ch) => LevelsOk(g, lf, ch)
           /\ \A c, l : HandOk(f, lf, ch, c, l) /\ LevelsOk(f, lf, ch) => HandOk(g, lf, ch, c, l)
           /\ \A hd, l : WriterOk(f, lf, ch, hd, l) => WriterOk(g, lf, ch, hd, l)
<1>1. ASSUME LevelsOk(f, lf, ch)
      PROVE  LevelsOk(g, lf, ch) /\ \A d \in DOMAIN ch : \A i \in DOMAIN ch[d] : ItemOk(f, d, ch[d][i])
  <2>1. \A d \in DOMAIN ch : LevelOk(g, d, ch[d]) BY <1>1, ListsStay DEF LevelsOk
  <2>2. \A d \in DOMAIN ch : \A i \in DOMAIN ch[d] : ItemOk(f, d, ch[d][i])
    BY <1>1 DEF LevelsOk, LevelOk, ItemsOk
  <2>3. \A d, e \in DOMAIN ch : d < e =>
          \A i \in DOMAIN ch[e], j \in DOMAIN ch[d] : Before(g, ch[e][i], ch[d][j])
    BY <1>1, <2>2, ListsStay DEF LevelsOk
  <2> QED BY <1>1, <2>1, <2>2, <2>3 DEF LevelsOk
<1>2. ASSUME NEW c, NEW l, HandOk(f, lf, ch, c, l), LevelsOk(f, lf, ch)
      PROVE  HandOk(g, lf, ch, c, l)
  <2>1. ItemOk(f, l, c) /\ ItemOk(g, l, c) BY <1>2, ListsStay DEF HandOk
  <2>2. \A d \in DOMAIN ch : \A i \in DOMAIN ch[d] :
          (d >= l => Before(g, ch[d][i], c)) /\ (d < l => Before(g, c, ch[d][i]))
    BY <1>1, <1>2, <2>1, ListsStay DEF HandOk
  <2> QED BY <1>2, <2>1, <2>2 DEF HandOk
<1>3. ASSUME NEW hd, NEW l, WriterOk(f, lf, ch, hd, l)
      PROVE  WriterOk(g, lf, ch, hd, l)
  <2>1. LeafOk(g, lf) /\ LevelsOk(g, lf, ch) /\ ShortTop(ch) BY <1>1, <1>3, ListsStay DEF WriterOk
  <2>2. hd = <<>> \/ \E c : hd = <<c>> /\ HandOk(g, lf, ch, c, l) BY <1>2, <1>3 DEF WriterOk
  <2> QED BY <2>1, <2>2 DEF WriterOk
<1> QED BY <1>1, <1>2, <1>3

\* Other items that fit may take the place of a level of the chain.
LEMMA LevelPut ==
    ASSUME NEW f, NEW lf, NEW ch, LevelsOk(f, lf, ch), NEW l \in DOMAIN ch,
           NEW it, LevelFits(f, lf, ch, l, it), NEW new, new = [ch EXCEPT ![l] = it]
    PROVE  /\ LevelsOk(f, lf, new) /\ DOMAIN new = DOMAIN ch /\ Len(new) = Len(ch)
           /\ new[l] = it /\ \A d \in DOMAIN ch : d # l => new[d] = ch[d]
<1>1. ch \in Seq(Seq(ItemRec)) /\ Len(ch) >= 2 /\ it \in Seq(ItemRec)
  BY DEF LevelsOk, LevelOk, ItemsOk, LevelFits
<1>2. /\ new \in Seq(Seq(ItemRec)) /\ DOMAIN new = DOMAIN ch /\ Len(new) = Len(ch)
      /\ new[l] = it /\ \A d \in DOMAIN ch : d # l => new[d] = ch[d]
  BY <1>1
<1>3. \A d \in DOMAIN new : LevelOk(f, d, new[d]) BY <1>2 DEF LevelsOk, LevelFits
<1>4. ASSUME NEW d \in DOMAIN new, NEW e \in DOMAIN new, d < e,
             NEW i \in DOMAIN new[e], NEW j \in DOMAIN new[d]
      PROVE  Before(f, new[e][i], new[d][j])
  <2>1. CASE d # l /\ e # l BY <1>2, <1>4, <2>1 DEF LevelsOk
  <2>2. CASE d = l
    <3>1. e # l /\ e > l /\ new[e] = ch[e] /\ new[d] = it BY <1>1, <1>2, <1>4, <2>2
    <3> QED BY <1>2, <1>4, <3>1 DEF LevelFits
  <2>3. CASE e = l
    <3>1. d # l /\ d < l /\ new[d] = ch[d] /\ new[e] = it BY <1>1, <1>2, <1>4, <2>3
    <3> QED BY <1>2, <1>4, <3>1 DEF LevelFits
  <2> QED BY <2>1, <2>2, <2>3
<1>5. \A d \in DOMAIN new : \A i \in DOMAIN new[d], j \in DOMAIN lf : new[d][i].key < lf[j].key
  BY <1>2 DEF LevelsOk, LevelFits
<1> QED BY <1>1, <1>2, <1>3, <1>4, <1>5 DEF LevelsOk

\* A chain with empty levels added on top.
LEMMA LevelsAdded ==
    ASSUME NEW f, NEW lf, NEW ch, LevelsOk(f, lf, ch), NEW n \in Nat, n >= Len(ch), NEW new,
           new = [d \in 1..n |-> IF d <= Len(ch) THEN ch[d] ELSE <<>>]
    PROVE  /\ LevelsOk(f, lf, new) /\ Len(new) = n /\ DOMAIN ch \subseteq DOMAIN new
           /\ \A d \in DOMAIN ch : new[d] = ch[d]
           /\ \A d \in DOMAIN new : d \notin DOMAIN ch => new[d] = <<>>
           /\ ShortTop(ch) \/ n > Len(ch) => ShortTop(new)
<1>1. ch \in Seq(Seq(ItemRec)) /\ Len(ch) >= 2 /\ Len(ch) \in Nat /\ DOMAIN ch = 1..Len(ch)
  BY DEF LevelsOk
<1>2. \A d \in 1..n : new[d] \in Seq(ItemRec) BY <1>1
<1>3. new \in Seq(Seq(ItemRec)) /\ Len(new) = n /\ DOMAIN new = 1..n BY <1>2
<1>4. /\ DOMAIN ch \subseteq DOMAIN new
      /\ \A d \in DOMAIN ch : new[d] = ch[d]
      /\ \A d \in DOMAIN new : d \notin DOMAIN ch => new[d] = <<>>
  BY <1>1, <1>3
<1>5. \A d : LevelOk(f, d, <<>>)
  <2>1. \A d : ItemsOk(f, d, <<>>) BY DEF ItemsOk
  <2> QED BY <2>1, ParentSizes, TreesAssumption DEF LevelOk
<1>6. \A d \in DOMAIN new : LevelOk(f, d, new[d]) BY <1>4, <1>5 DEF LevelsOk
<1>7. \A d, e \in DOMAIN new : d < e =>
         \A i \in DOMAIN new[e], j \in DOMAIN new[d] : Before(f, new[e][i], new[d][j])
  BY <1>4 DEF LevelsOk
<1>8. \A d \in DOMAIN new : \A i \in DOMAIN new[d], j \in DOMAIN lf : new[d][i].key < lf[j].key
  BY <1>4 DEF LevelsOk
<1>9. LevelsOk(f, lf, new) BY <1>1, <1>3, <1>6, <1>7, <1>8 DEF LevelsOk
<1>10. ShortTop(ch) \/ n > Len(ch) => ShortTop(new)
  <2>1. CASE n = Len(ch) BY <1>1, <1>3, <1>4, <2>1 DEF ShortTop
  <2>2. CASE n > Len(ch)
    <3>1. n \in DOMAIN new /\ n \notin DOMAIN ch BY <1>1, <1>3, <2>2
    <3>2. new[n] = <<>> BY <1>4, <3>1
    <3> QED BY <1>3, <3>2 DEF ShortTop
  <2> QED BY <1>1, <2>1, <2>2
<1> QED BY <1>3, <1>4, <1>9, <1>10

\* One item always fits.
LEMMA OneItem ==
    ASSUME NEW f, NEW d
    PROVE  /\ LevelOk(f, d, <<>>)
           /\ \A c : ItemOk(f, d, c) /\ c.location # "owned" => LevelOk(f, d, <<c>>)
<1>1. LevelOk(f, d, <<>>)
  <2>1. ItemsOk(f, d, <<>>) BY DEF ItemsOk
  <2> QED BY <2>1, ParentSizes, TreesAssumption DEF LevelOk
<1>2. ASSUME NEW c, ItemOk(f, d, c), c.location # "owned"
      PROVE  LevelOk(f, d, <<c>>)
  <2>1. c \in ItemRec /\ <<>> \in Seq(ItemRec) /\ <<c>> = Append(<<>>, c) BY <1>2 DEF ItemOk
  <2>2. ParentSize(<<c>>) = 0 + ParentNeed(c) BY <2>1, ParentSizes
  <2>3. ParentNeed(c) <= ParentRoom /\ ParentNeed(c) \in Nat
    <3>1. c.location = "inline" => KeySize[c.key] <= MaxInline BY <1>2 DEF ItemOk, Small
    <3>2. KeySize[c.key] \in Nat BY <2>1, Fields, TreesAssumption
    <3> QED BY <3>1, <3>2, TreesAssumption DEF ParentNeed
  <2>4. ItemsOk(f, d, <<c>>)
    <3>1. <<c>> \in Seq(ItemRec) /\ DOMAIN <<c>> = {1} /\ <<c>>[1] = c BY <2>1
    <3> QED BY <1>2, <3>1 DEF ItemsOk
  <2> QED BY <1>2, <2>2, <2>3, <2>4 DEF LevelOk
<1> QED BY <1>1, <1>2

\* An item is put behind the others of a level.
LEMMA Appended ==
    ASSUME NEW f, NEW d, NEW s, ItemsOk(f, d, s), NEW c, ItemOk(f, d, c),
           \A i \in DOMAIN s : Before(f, s[i], c)
    PROVE  ItemsOk(f, d, Append(s, c))
<1> DEFINE N == Len(s)
           t == Append(s, c)
<1>1. s \in Seq(ItemRec) /\ c \in ItemRec /\ N \in Nat /\ DOMAIN s = 1..N BY DEF ItemsOk, ItemOk
<1>2. t \in Seq(ItemRec) /\ DOMAIN t = 1..N + 1 /\ t[N + 1] = c /\ \A i \in 1..N : t[i] = s[i]
  BY <1>1
<1> HIDE DEF t, N
<1>3. \A i \in 1..N + 1 : ItemOk(f, d, t[i])
  <2> TAKE i \in 1..N + 1
  <2>1. i = N + 1 \/ i \in 1..N BY <1>1
  <2> QED BY <1>1, <1>2, <2>1 DEF ItemsOk
<1>4. \A i, j \in 1..N + 1 : i < j => Before(f, t[i], t[j])
  <2> TAKE i, j \in 1..N + 1
  <2> HAVE i < j
  <2>1. i \in 1..N /\ (j = N + 1 \/ j \in 1..N) BY <1>1
  <2> QED BY <1>1, <1>2, <2>1 DEF ItemsOk
<1> QED BY <1>2, <1>3, <1>4 DEF ItemsOk, t

\* A level takes an item for which it has room, and is a sound level then.
LEMMA Joined ==
    ASSUME NEW f, FileOk(f), NEW d, NEW s, LevelOk(f, d, s), NEW c, ItemOk(f, d, c),
           c.location # "owned", \A i \in DOMAIN s : Before(f, s[i], c),
           Len(s) < 2 \/ ParentSize(s) + ParentNeed(c) <= ParentRoom,
           NEW t, t = WithItem(f, s, c)
    PROVE  /\ FileOk(t.file) /\ Extends(t.file, f) /\ LevelOk(t.file, d, t.items)
           /\ DOMAIN t.items = DOMAIN Append(s, c) /\ Len(t.items) = Len(s) + 1
           /\ \A i \in DOMAIN Append(s, c) : /\ t.items[i].page = Append(s, c)[i].page
                                             /\ t.items[i].key = Append(s, c)[i].key
<1> DEFINE a == Append(s, c)
           z == [file |-> f, items |-> a]
<1>1. s \in Seq(ItemRec) /\ c \in ItemRec /\ ItemsOk(f, d, s) /\ ParentSize(s) <= ParentRoom
  BY DEF LevelOk, ItemsOk, ItemOk
<1>2. ItemsOk(f, d, a) BY <1>1, Appended
<1>3. a \in Seq(ItemRec) /\ Len(a) = Len(s) + 1 /\ Len(s) \in Nat /\ ParentSize(a) = ParentSize(s) + ParentNeed(c)
  BY <1>1, ParentSizes
<1>4. z.file = f /\ z.items = a OBVIOUS
<1>5. Len(s) = 0 => ParentSize(a) <= ParentRoom /\ a = <<c>>
  <2> SUFFICES ASSUME Len(s) = 0
               PROVE  ParentSize(a) <= ParentRoom /\ a = <<c>>
    OBVIOUS
  <2>1. s = <<>> /\ a = <<c>> BY <1>1
  <2>2. LevelOk(f, d, <<c>>) BY OneItem
  <2> QED BY <2>1, <2>2 DEF LevelOk
<1> HIDE DEF a, z
<1>6. Len(a) # 2 => ParentSize(a) <= ParentRoom BY <1>3, <1>5
<1>7. /\ ParentSize(t.items) <= ParentRoom
      /\ \/ t = z
         \/ Len(a) = 2 /\ \E i \in DOMAIN a : /\ a[i].location = "inline"
                            /\ \/ t = ToOwnedOverflow(z, i)
                               \/ \E j \in DOMAIN a :
                                     /\ ToOwnedOverflow(z, i).items[j].location = "inline"
                                     /\ t = ToOwnedOverflow(ToOwnedOverflow(z, i), j)
  <2>1. z = [file |-> f, items |-> a] /\ t = MakeTwoFit(z) BY DEF a, z, WithItem
  <2> QED BY <1>2, <1>6, <2>1, TwoFit
<1> DEFINE Fine(u) == /\ FileOk(u.file) /\ Extends(u.file, f) /\ ItemsOk(u.file, d, u.items)
                      /\ DOMAIN u.items = DOMAIN a /\ Len(u.items) = Len(a)
                      /\ \A i \in DOMAIN a : u.items[i].page = a[i].page /\ u.items[i].key = a[i].key
<1>8. Fine(z) BY <1>2, <1>4 DEF Extends
<1>9. ASSUME NEW i \in DOMAIN a, a[i].location = "inline"
      PROVE  LET u == ToOwnedOverflow(z, i) IN u = [file |-> u.file, items |-> u.items] /\ Fine(u)
  BY <1>2, <1>9, OwnedFacts DEF z
<1>10. ASSUME NEW u, u = [file |-> u.file, items |-> u.items], Fine(u), NEW j \in DOMAIN a,
              u.items[j].location = "inline"
       PROVE  Fine(ToOwnedOverflow(u, j))
  <2> DEFINE v == ToOwnedOverflow(u, j)
  <2>1. v = ToOwnedOverflow([file |-> u.file, items |-> u.items], j) /\ j \in DOMAIN u.items
    BY <1>10
  <2> HIDE DEF v
  <2>2. /\ FileOk(v.file) /\ Extends(v.file, u.file) /\ ItemsOk(v.file, d, v.items)
        /\ DOMAIN v.items = DOMAIN u.items /\ Len(v.items) = Len(u.items)
        /\ \A i \in DOMAIN u.items : v.items[i].page = u.items[i].page /\ v.items[i].key = u.items[i].key
    BY <1>10, <2>1, OwnedFacts
  <2>3. Fine(v) BY <1>10, <2>2 DEF Extends
  <2> QED BY <2>3 DEF v
<1>11. Fine(t)
  <2>1. CASE t = z BY <1>8, <2>1
  <2>2. CASE \E i \in DOMAIN a : a[i].location = "inline" /\ t = ToOwnedOverflow(z, i) BY <1>9, <2>2
  <2>3. CASE \E i, j \in DOMAIN a : /\ a[i].location = "inline"
                                    /\ ToOwnedOverflow(z, i).items[j].location = "inline"
                                    /\ t = ToOwnedOverflow(ToOwnedOverflow(z, i), j)
    <3>1. PICK i, j \in DOMAIN a : /\ a[i].location = "inline"
                                   /\ ToOwnedOverflow(z, i).items[j].location = "inline"
                                   /\ t = ToOwnedOverflow(ToOwnedOverflow(z, i), j)
      BY <2>3
    <3> DEFINE u == ToOwnedOverflow(z, i)
    <3>2. u = [file |-> u.file, items |-> u.items] /\ Fine(u) BY <1>9, <3>1
    <3>3. u.items[j].location = "inline" /\ t = ToOwnedOverflow(u, j) BY <3>1
    <3> HIDE DEF u, Fine
    <3> QED BY <1>10, <3>2, <3>3
  <2> HIDE DEF Fine
  <2> QED BY <1>7, <2>1, <2>2, <2>3
<1>12. Len(t.items) = 1 => t.items[1].location # "owned"
  <2> SUFFICES ASSUME Len(t.items) = 1
               PROVE  t.items[1].location # "owned"
    OBVIOUS
  <2>1. Len(a) = 1 /\ t = z /\ a = <<c>> BY <1>3, <1>5, <1>7, <1>11
  <2> QED BY <1>4, <2>1
<1> QED BY <1>3, <1>7, <1>11, <1>12 DEF LevelOk, a

\* A last level with one item is short.
LEMMA ShortIs ==
    ASSUME NEW ch, Len(ch[Len(ch)]) = 1
    PROVE  ShortTop(ch)
  BY DEF ShortTop

\* Join.
LEMMA JoinLevels ==
    ASSUME NEW f, NEW g, FileOk(f), FileOk(g), Extends(g, f), NEW lf, NEW ch, NEW c, NEW l,
           LeafOk(f, lf), LevelsOk(f, lf, ch), ShortTop(ch), HandOk(f, lf, ch, c, l),
           NEW it, LevelOk(g, l, it), DOMAIN it = DOMAIN Append(ch[l], c), Len(it) = Len(ch[l]) + 1,
           \A i \in DOMAIN it : it[i].page = Append(ch[l], c)[i].page /\ it[i].key = Append(ch[l], c)[i].key
    PROVE  /\ WriterOk(g, lf, ChainWith(ch, l, it), <<>>, 1)
           /\ \A y : UpTo(lf, ch, <<c>>, y) => UpTo(lf, ChainWith(ch, l, it), <<>>, y)
<1> DEFINE s == ch[l]
           a == Append(s, c)
           N == Len(s)
           j == [ch EXCEPT ![l] = it]
           new == ChainWith(ch, l, it)
<1>1. l \in DOMAIN ch /\ LevelOk(f, l, s) /\ ItemOk(f, l, c) BY DEF HandOk, LevelsOk
<1>2. s \in Seq(ItemRec) /\ c \in ItemRec /\ N \in Nat /\ DOMAIN s = 1..N
  BY <1>1 DEF LevelOk, ItemsOk, ItemOk
<1>3. ch \in Seq(Seq(ItemRec)) /\ Len(ch) \in Nat /\ DOMAIN ch = 1..Len(ch) /\ Len(ch) >= 2
  BY DEF LevelsOk
<1>4. DOMAIN it = DOMAIN a /\ Len(it) = N + 1
      /\ \A i \in DOMAIN it : it[i].page = a[i].page /\ it[i].key = a[i].key
  OBVIOUS
<1>5. new = IF l = Len(ch) /\ s # <<>> THEN Append(j, <<>>) ELSE j BY DEF ChainWith
<1> HIDE DEF s
<1>6. DOMAIN a = 1..N + 1 /\ a[N + 1] = c /\ \A i \in 1..N : a[i] = s[i] BY <1>2
<1> HIDE DEF a, N, new
<1>7. \A i \in DOMAIN it : \/ it[i].page = c.page /\ it[i].key = c.key
                           \/ \E k \in DOMAIN s : it[i].page = s[k].page /\ it[i].key = s[k].key
  <2> TAKE i \in DOMAIN it
  <2>1. i \in 1..N + 1 BY <1>4, <1>6
  <2>2. i = N + 1 \/ i \in 1..N BY <1>2, <2>1
  <2> QED BY <1>2, <1>4, <1>6, <2>1, <2>2
<1>8. Forest(f) /\ Forest(g) BY DEF FileOk
<1>9. LevelsOk(g, lf, ch) /\ HandOk(g, lf, ch, c, l) /\ LeafOk(g, lf)
  BY <1>8, WriterStays, ListsStay
<1>10. \A d \in DOMAIN ch : \A i \in DOMAIN ch[d], k \in DOMAIN it :
              (d > l => Before(g, ch[d][i], it[k])) /\ (d < l => Before(g, it[k], ch[d][i]))
  <2> TAKE d \in DOMAIN ch
  <2> TAKE i \in DOMAIN ch[d], k \in DOMAIN it
  <2>1. CASE it[k].page = c.page /\ it[k].key = c.key
    <3>1. d >= l => Before(g, ch[d][i], c) BY <1>9 DEF HandOk
    <3>2. d < l => Before(g, c, ch[d][i]) BY <1>9 DEF HandOk
    <3>3. d > l => d >= l BY <1>1, <1>3
    <3> QED BY <2>1, <3>1, <3>2, <3>3 DEF Before
  <2>2. CASE \E m \in DOMAIN s : it[k].page = s[m].page /\ it[k].key = s[m].key
    <3>1. PICK m \in DOMAIN s : it[k].page = s[m].page /\ it[k].key = s[m].key BY <2>2
    <3>2. d > l => Before(g, ch[d][i], s[m]) BY <1>1, <1>9 DEF LevelsOk, s
    <3>3. d < l => Before(g, s[m], ch[d][i]) BY <1>1, <1>9 DEF LevelsOk, s
    <3> QED BY <3>1, <3>2, <3>3 DEF Before
  <2> QED BY <1>7, <2>1, <2>2
<1>11. \A i \in DOMAIN it, k \in DOMAIN lf : it[i].key < lf[k].key
  <2>1. \A k \in DOMAIN lf : c.key < lf[k].key BY DEF HandOk
  <2>2. \A i \in DOMAIN s, k \in DOMAIN lf : s[i].key < lf[k].key BY <1>1 DEF LevelsOk, s
  <2> QED BY <1>7, <2>1, <2>2
<1>12. /\ LevelsOk(g, lf, j) /\ DOMAIN j = DOMAIN ch /\ Len(j) = Len(ch)
       /\ j[l] = it /\ \A d \in DOMAIN ch : d # l => j[d] = ch[d]
  <2>1. LevelFits(g, lf, ch, l, it) BY <1>10, <1>11 DEF LevelFits
  <2> QED BY <1>1, <1>9, <2>1, LevelPut
<1> HIDE DEF j
<1>13. j \in Seq(Seq(ItemRec)) /\ Len(j) \in Nat /\ DOMAIN j = 1..Len(j) BY <1>12 DEF LevelsOk
<1>14. /\ LevelsOk(g, lf, new) /\ ShortTop(new)
       /\ \A d \in DOMAIN new : \A i \in DOMAIN new[d] : d \in DOMAIN j /\ new[d] = j[d]
  <2>1. CASE ~(l = Len(ch) /\ s # <<>>)
    <3>1. new = j BY <1>5, <2>1
    <3>2. ShortTop(j)
      <4>1. CASE l = Len(ch)
        <5>1. N = 0 BY <1>2, <2>1, <4>1 DEF N
        <5>2. j[Len(j)] = it /\ Len(it) = 1 BY <1>4, <1>12, <4>1, <5>1
        <5>3. Len(j[Len(j)]) = 1 BY <5>2, Zenon
        <5> QED BY <5>3, ShortIs
      <4>2. CASE l # Len(ch)
        <5>1. Len(j) \in DOMAIN ch /\ Len(j) # l /\ Len(j) = Len(ch) BY <1>3, <1>12, <4>2
        <5>2. j[Len(j)] = ch[Len(ch)] BY <1>12, <5>1
        <5> QED BY <5>2 DEF ShortTop
      <4> QED BY <4>1, <4>2
    <3> QED BY <1>12, <3>1, <3>2
  <2>2. CASE l = Len(ch) /\ s # <<>>
    <3> DEFINE n == Len(j) + 1
               m == [d \in 1..n |-> IF d <= Len(j) THEN j[d] ELSE <<>>]
    <3>1. new = Append(j, <<>>) BY <1>5, <2>2
    <3>2. n \in Nat /\ n >= Len(j) /\ n > Len(j) BY <1>13
    <3>3. new \in Seq(Seq(ItemRec)) /\ DOMAIN new = 1..n /\ new[n] = <<>>
          /\ \A d \in 1..Len(j) : new[d] = j[d]
      BY <1>13, <3>1
    <3>4. DOMAIN m = 1..n /\ \A d \in 1..n : m[d] = new[d]
      <4>1. DOMAIN m = 1..n OBVIOUS
      <4>2. \A d \in 1..n : m[d] = IF d <= Len(j) THEN j[d] ELSE <<>> OBVIOUS
      <4>3. \A d \in 1..n : IF d <= Len(j) THEN d \in 1..Len(j) ELSE d = n BY <1>13
      <4> HIDE DEF m, n
      <4> QED BY <3>3, <4>1, <4>2, <4>3
    <3> HIDE DEF n
    <3>5. m \in Seq(Seq(ItemRec))
      <4>1. \A d \in 1..n : m[d] \in Seq(ItemRec) BY <3>3, <3>4, Element
      <4> QED BY <3>2, <4>1
    <3>6. new = m
      <4> HIDE DEF m
      <4> QED BY <3>3, <3>4, <3>5, SameList
    <3>7. /\ LevelsOk(g, lf, new) /\ ShortTop(new) /\ \A d \in DOMAIN j : new[d] = j[d]
          /\ \A d \in DOMAIN new : d \notin DOMAIN j => new[d] = <<>>
      <4>1. new = [d \in 1..n |-> IF d <= Len(j) THEN j[d] ELSE <<>>] BY <3>6
      <4> HIDE DEF m
      <4>2. LevelsOk(g, lf, j) BY <1>12
      <4>3. /\ LevelsOk(g, lf, new) /\ \A d \in DOMAIN j : new[d] = j[d]
            /\ \A d \in DOMAIN new : d \notin DOMAIN j => new[d] = <<>>
            /\ ShortTop(j) \/ n > Len(j) => ShortTop(new)
        BY <3>2, <4>1, <4>2, LevelsAdded
      <4> QED BY <3>2, <4>3, Zenon
    <3>8. \A d \in DOMAIN new : \A i \in DOMAIN new[d] : d \in DOMAIN j
      <4> SUFFICES ASSUME NEW d \in DOMAIN new, NEW i \in DOMAIN new[d], d \notin DOMAIN j
                   PROVE  FALSE
        OBVIOUS
      <4>1. new[d] = <<>> BY <3>7
      <4> QED BY <4>1
    <3> QED BY <3>7, <3>8
  <2> QED BY <2>1, <2>2
<1>15. ASSUME NEW y, UpTo(lf, ch, <<c>>, y)
       PROVE  UpTo(lf, new, <<>>, y)
  <2>1. c.key < y
    <3>1. 1 \in DOMAIN <<c>> /\ <<c>>[1] = c OBVIOUS
    <3> QED BY <1>15, <3>1 DEF UpTo
  <2>2. \A i \in DOMAIN s : s[i].key < y BY <1>1, <1>15 DEF UpTo, s
  <2>3. \A i \in DOMAIN it : it[i].key < y BY <1>7, <2>1, <2>2
  <2>4. \A d \in DOMAIN new : \A i \in DOMAIN new[d] : new[d][i].key < y
    <3> TAKE d \in DOMAIN new
    <3> TAKE i \in DOMAIN new[d]
    <3>1. d \in DOMAIN ch /\ new[d] = j[d] BY <1>12, <1>14
    <3>2. CASE d = l BY <1>12, <2>3, <3>1, <3>2
    <3>3. CASE d # l BY <1>12, <1>15, <3>1, <3>3 DEF UpTo
    <3> QED BY <3>2, <3>3
  <2>5. \A i \in DOMAIN lf : lf[i].key < y BY <1>15 DEF UpTo
  <2> QED BY <2>4, <2>5 DEF UpTo
<1>16. WriterOk(g, lf, new, <<>>, 1) BY <1>9, <1>14 DEF WriterOk
<1> QED BY <1>15, <1>16 DEF new

\* When its level takes the item in hand, the writer stays sound.
LEMMA JoinKeeps ==
    ASSUME NEW f, FileOk(f), NEW lf, NEW ch, NEW c, NEW l,
           LeafOk(f, lf), LevelsOk(f, lf, ch), ShortTop(ch), HandOk(f, lf, ch, c, l),
           Len(ch[l]) < 2 \/ ParentSize(ch[l]) + ParentNeed(c) <= ParentRoom,
           NEW t, t = WithItem(f, ch[l], c)
    PROVE  /\ FileOk(t.file) /\ Extends(t.file, f)
           /\ WriterOk(t.file, lf, ChainWith(ch, l, t.items), <<>>, 1)
           /\ \A y : UpTo(lf, ch, <<c>>, y) => UpTo(lf, ChainWith(ch, l, t.items), <<>>, y)
<1> DEFINE g == t.file
           it == t.items
<1>1. LevelOk(f, l, ch[l]) /\ ItemOk(f, l, c) /\ c.location # "owned"
      /\ \A i \in DOMAIN ch[l] : Before(f, ch[l][i], c)
  <2>1. l \in DOMAIN ch /\ LevelOk(f, l, ch[l]) /\ ItemOk(f, l, c) /\ c.location # "owned" /\ l >= l
    <3>1. l \in DOMAIN ch BY DEF HandOk
    <3>2. l \in Nat BY <3>1 DEF LevelsOk
    <3> QED BY <3>1, <3>2 DEF HandOk, LevelsOk
  <2> QED BY <2>1 DEF HandOk
<1>2. /\ FileOk(g) /\ Extends(g, f) /\ LevelOk(g, l, it)
      /\ DOMAIN it = DOMAIN Append(ch[l], c) /\ Len(it) = Len(ch[l]) + 1
      /\ \A i \in DOMAIN Append(ch[l], c) : /\ it[i].page = Append(ch[l], c)[i].page
                                            /\ it[i].key = Append(ch[l], c)[i].key
  BY <1>1, Joined
<1> HIDE DEF g, it
<1>3. /\ WriterOk(g, lf, ChainWith(ch, l, it), <<>>, 1)
      /\ \A y : UpTo(lf, ch, <<c>>, y) => UpTo(lf, ChainWith(ch, l, it), <<>>, y)
  BY <1>2, JoinLevels
<1> QED BY <1>2, <1>3 DEF g, it

\* A page of level d was written: hd is what was in hand, or nothing, and c is what the
\* level above is told.
LEMMA ParentLevels ==
    ASSUME NEW f, NEW g, FileOk(f), FileOk(g), Extends(g, f), NEW lf, NEW ch, NEW hd, NEW l,
           WriterOk(f, lf, ch, hd, l), NEW d, d \in DOMAIN ch, d < Len(ch), ch[d] # <<>>,
           hd # <<>> => l = d, NEW c, Tells(f, g, d, ch[d], c)
    PROVE  /\ WriterOk(g, lf, [ch EXCEPT ![d] = hd], <<c>>, d + 1)
           /\ \A y : UpTo(lf, ch, hd, y) => UpTo(lf, [ch EXCEPT ![d] = hd], <<c>>, y)
<1> DEFINE s == ch[d]
           new == [ch EXCEPT ![d] = hd]
<1>1. /\ LeafOk(f, lf) /\ LevelsOk(f, lf, ch) /\ ShortTop(ch)
      /\ hd = <<>> \/ \E b : hd = <<b>> /\ HandOk(f, lf, ch, b, l)
  BY DEF WriterOk
<1>2. /\ ch \in Seq(Seq(ItemRec)) /\ Len(ch) \in Nat /\ Len(ch) >= 2 /\ DOMAIN ch = 1..Len(ch)
      /\ d \in Nat \ {0} /\ d + 1 \in DOMAIN ch
  BY <1>1 DEF LevelsOk
<1>3. ItemsOk(f, d, s) /\ ParentSize(s) <= ParentRoom /\ s # <<>> /\ s \in Seq(ItemRec)
  BY <1>1 DEF LevelsOk, LevelOk, ItemsOk
<1>4. /\ FileOk(g) /\ Extends(g, f)
      /\ ItemOk(g, d + 1, c) /\ c.location # "owned"
      /\ c.key = s[Len(s)].key
      /\ KeysUnder(g, c.page) = UNION {KeysUnder(f, s[i].page) : i \in DOMAIN s}
  BY DEF Tells
<1>5. Len(s) \in DOMAIN s BY <1>3
<1>6. Forest(f) /\ Forest(g) BY <1>4 DEF FileOk
<1>7. LevelsOk(g, lf, ch) /\ LeafOk(g, lf) BY <1>1, <1>4, <1>6, WriterStays, ListsStay
<1> DEFINE a == s[Len(s)]
<1>8. \A e \in DOMAIN ch : \A i \in DOMAIN ch[e] :
         (e > d => Before(g, ch[e][i], c)) /\ (e < d => Before(g, c, ch[e][i]))
  <2> TAKE e \in DOMAIN ch
  <2> TAKE i \in DOMAIN ch[e]
  <2>1. ASSUME e > d
        PROVE  Before(g, ch[e][i], c)
    <3>1. \A j \in DOMAIN s : Before(f, ch[e][i], s[j]) BY <1>1, <2>1 DEF LevelsOk
    <3> QED BY <1>4, <3>1 DEF Before
  <2>2. ASSUME e < d
        PROVE  Before(g, c, ch[e][i])
    <3>1. Before(g, a, ch[e][i]) BY <1>5, <1>7, <2>2 DEF LevelsOk
    <3> QED BY <1>4, <3>1 DEF Before
  <2> QED BY <2>1, <2>2
<1>9. \A j \in DOMAIN lf : c.key < lf[j].key BY <1>1, <1>4, <1>5 DEF LevelsOk
<1> DEFINE InPlace ==
              /\ LevelOk(g, d, hd)
              /\ \A e \in DOMAIN ch : \A i \in DOMAIN ch[e], j \in DOMAIN hd :
                   (e > d => Before(g, ch[e][i], hd[j])) /\ (e < d => Before(g, hd[j], ch[e][i]))
              /\ \A i \in DOMAIN hd, j \in DOMAIN lf : hd[i].key < lf[j].key
              /\ \A i \in DOMAIN hd : Before(g, c, hd[i])
<1>10. InPlace
  <2>1. CASE hd = <<>> BY <2>1, OneItem
  <2>2. ASSUME NEW b, hd = <<b>>, HandOk(f, lf, ch, b, l)
        PROVE  InPlace
    <3>1. l = d /\ DOMAIN hd = {1} /\ hd[1] = b BY <2>2
    <3>2. HandOk(g, lf, ch, b, d) BY <1>1, <1>4, <1>6, <2>2, <3>1, WriterStays
    <3>3. LevelOk(g, d, hd) BY <2>2, <3>2, OneItem DEF HandOk
    <3>4. \A e \in DOMAIN ch : \A i \in DOMAIN ch[e] :
            (e > d => Before(g, ch[e][i], b)) /\ (e < d => Before(g, b, ch[e][i]))
      <4> TAKE e \in DOMAIN ch
      <4>1. e \in Nat /\ d \in Nat BY <1>2
      <4>2. e > d => e >= d BY <4>1
      <4> QED BY <3>2, <4>2 DEF HandOk
    <3>5. \A j \in DOMAIN lf : b.key < lf[j].key BY <3>2 DEF HandOk
    <3>6. Before(g, c, b)
      <4>1. Before(g, a, b) BY <1>2, <1>5, <3>2 DEF HandOk
      <4> QED BY <1>4, <4>1 DEF Before
    <3> QED BY <3>1, <3>3, <3>4, <3>5, <3>6
  <2> QED BY <1>1, <2>1, <2>2
<1>11. /\ LevelsOk(g, lf, new) /\ DOMAIN new = DOMAIN ch /\ Len(new) = Len(ch)
       /\ new[d] = hd /\ \A e \in DOMAIN ch : e # d => new[e] = ch[e]
  <2>1. LevelsOk(g, lf, ch) /\ LevelFits(g, lf, ch, d, hd) BY <1>7, <1>10 DEF LevelFits
  <2> HIDE DEF InPlace, s
  <2> QED BY <2>1, LevelPut
<1> HIDE DEF s, a, new
<1>12. ShortTop(new)
  <2>1. Len(new) \in DOMAIN ch /\ Len(new) # d BY <1>2, <1>11
  <2>2. new[Len(new)] = ch[Len(ch)] BY <1>11, <2>1
  <2> QED BY <1>1, <2>2 DEF ShortTop
<1>13. HandOk(g, lf, new, c, d + 1)
  <2>1. \A e \in DOMAIN new : \A i \in DOMAIN new[e] :
          (e >= d + 1 => Before(g, new[e][i], c)) /\ (e < d + 1 => Before(g, c, new[e][i]))
    <3> TAKE e \in DOMAIN new
    <3> TAKE i \in DOMAIN new[e]
    <3>1. CASE e = d BY <1>2, <1>10, <1>11, <3>1
    <3>2. CASE e # d
      <4>1. new[e] = ch[e] /\ e \in DOMAIN ch /\ (e >= d + 1 => e > d) /\ (e < d + 1 => e < d)
        BY <1>2, <1>11, <3>2
      <4> QED BY <1>8, <4>1
    <3> QED BY <3>1, <3>2
  <2> QED BY <1>2, <1>4, <1>9, <1>11, <2>1 DEF HandOk
<1>14. WriterOk(g, lf, new, <<c>>, d + 1) BY <1>7, <1>11, <1>12, <1>13 DEF WriterOk
<1>15. ASSUME NEW y, UpTo(lf, ch, hd, y)
       PROVE  UpTo(lf, new, <<c>>, y)
  <2>1. c.key < y BY <1>4, <1>5, <1>15 DEF UpTo, s
  <2>2. \A e \in DOMAIN new : \A i \in DOMAIN new[e] : new[e][i].key < y
    <3> TAKE e \in DOMAIN new
    <3> TAKE i \in DOMAIN new[e]
    <3>1. CASE e = d BY <1>11, <1>15, <3>1 DEF UpTo
    <3>2. CASE e # d BY <1>11, <1>15, <3>2 DEF UpTo
    <3> QED BY <3>1, <3>2
  <2>3. \A i \in DOMAIN lf : lf[i].key < y BY <1>15 DEF UpTo
  <2>4. \A i \in DOMAIN <<c>> : <<c>>[i].key < y BY <2>1
  <2> QED BY <2>2, <2>3, <2>4 DEF UpTo
<1> QED BY <1>14, <1>15 DEF new

\* WriteParent.
LEMMA WriteParentKeeps ==
    ASSUME NEW f, FileOk(f), NEW lf, NEW ch, NEW hd, NEW l, WriterOk(f, lf, ch, hd, l),
           NEW d, d \in DOMAIN ch, d < Len(ch), ch[d] # <<>>, hd # <<>> => l = d,
           NEW node, node = [depth |-> d, items |-> ch[d]],
           NEW g, g = WritePage(f, node), NEW c, c = ItemForParent(NextPage(f), node)
    PROVE  /\ FileOk(g) /\ Extends(g, f) /\ Tells(f, g, d, ch[d], c)
           /\ WriterOk(g, lf, [ch EXCEPT ![d] = hd], <<c>>, d + 1)
           /\ \A y : UpTo(lf, ch, hd, y) => UpTo(lf, [ch EXCEPT ![d] = hd], <<c>>, y)
<1> DEFINE s == ch[d]
<1>1. LevelsOk(f, lf, ch) BY DEF WriterOk
<1>2. ItemsOk(f, d, s) /\ ParentSize(s) <= ParentRoom /\ s # <<>> /\ d \in Nat \ {0}
  BY <1>1 DEF LevelsOk, LevelOk
<1>3. node = [depth |-> d, items |-> s] OBVIOUS
<1>4. FileOk(g) /\ Extends(g, f) /\ Tells(f, g, d, s, c)
  <2> HIDE DEF s
  <2> QED BY <1>2, <1>3, ParentWritten DEF Tells
<1> QED BY <1>4, ParentLevels

\* WriteLeaf.
LEMMA WriteLeafKeeps ==
    ASSUME NEW f, FileOk(f), NEW lf, NEW ch, NEW l, WriterOk(f, lf, ch, <<>>, l), lf # <<>>,
           NEW node, node = [depth |-> 0, items |-> lf],
           NEW g, g = WritePage(f, node), NEW c, c = LeafForParent(NextPage(f), node),
           NEW next, LeafOk(f, next), \A i \in DOMAIN next : UpTo(lf, ch, <<>>, next[i].key)
    PROVE  /\ FileOk(g) /\ Extends(g, f)
           /\ WriterOk(g, next, ch, <<c>>, 1)
           /\ \A y : UpTo(lf, ch, <<>>, y) /\ (\A i \in DOMAIN next : next[i].key < y)
                        => UpTo(next, ch, <<c>>, y)
<1>1. LeafOk(f, lf) /\ LevelsOk(f, lf, ch) /\ ShortTop(ch) BY DEF WriterOk
<1>2. /\ ch \in Seq(Seq(ItemRec)) /\ Len(ch) \in Nat /\ DOMAIN ch = 1..Len(ch) /\ 1 \in DOMAIN ch
  BY <1>1 DEF LevelsOk
<1>3. /\ FileOk(g) /\ Extends(g, f)
      /\ ItemOk(g, 1, c) /\ c.location # "owned"
      /\ c.key = lf[Len(lf)].key
      /\ KeysUnder(g, c.page) = {lf[i].key : i \in DOMAIN lf}
  BY <1>1, LeafWritten
<1>4. Len(lf) \in DOMAIN lf BY <1>1 DEF LeafOk, PairsOk
<1>5. Forest(f) /\ Forest(g) BY <1>3 DEF FileOk
<1>6. LevelsOk(g, lf, ch) /\ LeafOk(g, next) BY <1>1, <1>3, <1>5, WriterStays, ListsStay
<1>7. LevelsOk(g, next, ch)
  <2>1. \A d \in DOMAIN ch : \A i \in DOMAIN ch[d], j \in DOMAIN next : ch[d][i].key < next[j].key
    BY DEF UpTo
  <2> QED BY <1>6, <2>1 DEF LevelsOk
<1>8. HandOk(g, next, ch, c, 1)
  <2>1. \A e \in DOMAIN ch : \A i \in DOMAIN ch[e] : Before(g, ch[e][i], c)
    <3> TAKE e \in DOMAIN ch
    <3> TAKE i \in DOMAIN ch[e]
    <3>1. \A j \in DOMAIN lf : ch[e][i].key < lf[j].key BY <1>1 DEF LevelsOk
    <3>2. \A k \in KeysUnder(g, c.page) : ch[e][i].key < k BY <1>3, <3>1
    <3> QED BY <3>2 DEF Before
  <2>2. \A e \in DOMAIN ch : ~(e < 1) BY <1>2
  <2>3. \A j \in DOMAIN next : c.key < next[j].key BY <1>3, <1>4 DEF UpTo
  <2> QED BY <1>2, <1>3, <2>1, <2>2, <2>3 DEF HandOk
<1>9. WriterOk(g, next, ch, <<c>>, 1) BY <1>1, <1>6, <1>7, <1>8 DEF WriterOk
<1>10. ASSUME NEW y, UpTo(lf, ch, <<>>, y), \A i \in DOMAIN next : next[i].key < y
       PROVE  UpTo(next, ch, <<c>>, y)
  <2>1. c.key < y BY <1>3, <1>4, <1>10 DEF UpTo
  <2>2. \A i \in DOMAIN <<c>> : <<c>>[i].key < y BY <2>1
  <2> QED BY <1>10, <2>2 DEF UpTo
<1> QED BY <1>3, <1>9, <1>10

\* A pair is put into the leaf.
LEMMA LeafTakes ==
    ASSUME NEW f, FileOk(f), NEW lf, NEW ch, NEW l, WriterOk(f, lf, ch, <<>>, l),
           NEW p, PairOk(f, p), p.keyPage = NoPage => Small(p.key), UpTo(lf, ch, <<>>, p.key),
           LeafSize(lf) + LeafNeed(p) <= LeafRoom
    PROVE  /\ WriterOk(f, Append(lf, p), ch, <<>>, l)
           /\ \A y \in Int : UpTo(lf, ch, <<>>, y) /\ p.key < y => UpTo(Append(lf, p), ch, <<>>, y)
<1> DEFINE N == Len(lf)
           s == Append(lf, p)
<1>1. LeafOk(f, lf) /\ LevelsOk(f, lf, ch) /\ ShortTop(ch) BY DEF WriterOk
<1>2. lf \in Seq(PairRec) /\ p \in PairRec /\ N \in Nat /\ DOMAIN lf = 1..N
  BY <1>1 DEF LeafOk, PairsOk, PairOk
<1>3. s \in Seq(PairRec) /\ DOMAIN s = 1..N + 1 /\ s[N + 1] = p /\ \A i \in 1..N : s[i] = lf[i]
  BY <1>2
<1>4. LeafSize(s) <= LeafRoom BY <1>2, LeafSizes
<1> HIDE DEF s, N
<1>5. \A i \in DOMAIN s : i = N + 1 \/ i \in 1..N BY <1>2, <1>3
<1>6. \A i \in DOMAIN s : PairOk(f, s[i]) /\ (s[i].keyPage = NoPage => Small(s[i].key))
  BY <1>1, <1>2, <1>3, <1>5 DEF LeafOk, PairsOk
<1>7. Ascending(s)
  <2> SUFFICES ASSUME NEW i \in DOMAIN s, NEW j \in DOMAIN s, i < j
               PROVE  s[i].key < s[j].key
    BY DEF Ascending
  <2>1. i \in 1..N /\ (j = N + 1 \/ j \in 1..N) BY <1>2, <1>3
  <2>2. CASE j = N + 1 BY <1>2, <1>3, <2>1, <2>2 DEF UpTo
  <2>3. CASE j \in 1..N BY <1>1, <1>2, <1>3, <2>1, <2>3 DEF LeafOk, PairsOk, Ascending
  <2> QED BY <2>1, <2>2, <2>3
<1>8. LeafOk(f, s) BY <1>3, <1>4, <1>6, <1>7 DEF LeafOk, PairsOk
<1>9. \A d \in DOMAIN ch : \A i \in DOMAIN ch[d], j \in DOMAIN s : ch[d][i].key < s[j].key
  <2> TAKE d \in DOMAIN ch
  <2> TAKE i \in DOMAIN ch[d], j \in DOMAIN s
  <2>1. CASE j = N + 1 BY <1>3, <2>1 DEF UpTo
  <2>2. CASE j \in 1..N BY <1>1, <1>2, <1>3, <2>2 DEF LevelsOk
  <2> QED BY <1>5, <2>1, <2>2
<1>10. WriterOk(f, s, ch, <<>>, l) BY <1>1, <1>8, <1>9 DEF WriterOk, LevelsOk
<1>11. ASSUME NEW y \in Int, UpTo(lf, ch, <<>>, y), p.key < y
       PROVE  UpTo(s, ch, <<>>, y)
  <2>1. \A i \in DOMAIN s : s[i].key < y BY <1>2, <1>3, <1>5, <1>11 DEF UpTo
  <2> QED BY <1>11, <2>1 DEF UpTo
<1> QED BY <1>10, <1>11 DEF s

-----------------------------------------------------------------------------
(* Pairs that are put into the leaf.                                       *)

\* A pair is given the overflows it needs.
LEMMA KeyPageFacts ==
    ASSUME NEW f, FileOk(f), NEW p, PairOk(f, p), NEW s, s = WithKeyPage([file |-> f, p |-> p])
    PROVE  /\ s = [file |-> s.file, p |-> s.p]
           /\ FileOk(s.file) /\ Extends(s.file, f) /\ PairOk(s.file, s.p)
           /\ s.p.key = p.key /\ s.p.value = p.value /\ s.p.valuePage = p.valuePage
           /\ s.p.keyPage = NoPage => Small(s.p.key)
           /\ \/ s.file = f /\ s.p = p
              \/ /\ p.keyPage = NoPage /\ s.p.keyPage = NextPage(f)
                 /\ s.file = WritePage(f, Overflow)
<1>1. p \in PairRec /\ Forest(f) BY DEF PairOk, FileOk
<1>2. CASE p.keyPage # NoPage \/ KeySize[p.key] <= MaxInline
  <2>1. s = [file |-> f, p |-> p] BY <1>2 DEF WithKeyPage
  <2> QED BY <1>2, <2>1 DEF Extends, Small
<1>3. ASSUME ~(p.keyPage # NoPage \/ KeySize[p.key] <= MaxInline)
      PROVE  /\ s = [file |-> s.file, p |-> s.p]
             /\ FileOk(s.file) /\ Extends(s.file, f) /\ PairOk(s.file, s.p)
             /\ s.p.key = p.key /\ s.p.value = p.value /\ s.p.valuePage = p.valuePage
             /\ p.keyPage = NoPage /\ s.p.keyPage = NextPage(f) /\ s.p.keyPage # NoPage
             /\ s.file = WritePage(f, Overflow)
  <2> DEFINE g == WritePage(f, Overflow)
             q == [p EXCEPT !.keyPage = NextPage(f)]
  <2>1. s = [file |-> g, p |-> q] BY <1>3 DEF WithKeyPage
  <2>2. FileOk(g) /\ Extends(g, f) BY FileGrows
  <2>3. NextPage(f) \in Nat /\ NextPage(f) # NoPage /\ IsOverflow(g, NextPage(f))
    BY <1>1, NextPageFacts, WritePageFacts DEF IsOverflow
  <2>4. /\ q \in PairRec /\ q.key = p.key /\ q.value = p.value /\ q.valuePage = p.valuePage
        /\ q.keyPage = NextPage(f)
    BY <1>1, <2>3 DEF PairRec
  <2> HIDE DEF g, q
  <2>5. PairOk(g, p) BY <1>1, <2>2, ListsStay DEF FileOk
  <2>6. PairOk(g, q) BY <2>3, <2>4, <2>5 DEF PairOk
  <2>7. s.file = g /\ s.p = q BY <2>1
  <2> QED BY <1>3, <2>1, <2>2, <2>3, <2>4, <2>6, <2>7 DEF g
<1> QED BY <1>2, <1>3

\* A long value may go into an overflow of its own: the rest of the pair stays.
LEMMA ValuePageFacts ==
    ASSUME NEW f, FileOk(f), NEW p, PairOk(f, p), NEW s, s = WithValuePage([file |-> f, p |-> p])
    PROVE  /\ s = [file |-> s.file, p |-> s.p]
           /\ FileOk(s.file) /\ Extends(s.file, f) /\ PairOk(s.file, s.p)
           /\ s.p.key = p.key /\ s.p.value = p.value /\ s.p.keyPage = p.keyPage
           /\ \/ s.file = f /\ s.p = p
              \/ /\ p.valuePage = NoPage /\ s.p.valuePage = NextPage(f)
                 /\ s.file = WritePage(f, Overflow)
<1>1. p \in PairRec /\ Forest(f) BY DEF PairOk, FileOk
<1>2. CASE p.valuePage # NoPage \/ p.value \notin LongValues
  <2>1. s = [file |-> f, p |-> p] BY <1>2 DEF WithValuePage
  <2> QED BY <1>2, <2>1 DEF Extends
<1>3. ASSUME ~(p.valuePage # NoPage \/ p.value \notin LongValues)
      PROVE  /\ s = [file |-> s.file, p |-> s.p]
             /\ FileOk(s.file) /\ Extends(s.file, f) /\ PairOk(s.file, s.p)
             /\ s.p.key = p.key /\ s.p.value = p.value /\ s.p.keyPage = p.keyPage
             /\ p.valuePage = NoPage /\ s.p.valuePage = NextPage(f)
             /\ s.file = WritePage(f, Overflow)
  <2> DEFINE g == WritePage(f, Overflow)
             q == [p EXCEPT !.valuePage = NextPage(f)]
  <2>1. s = [file |-> g, p |-> q] BY <1>3 DEF WithValuePage
  <2>2. FileOk(g) /\ Extends(g, f) BY FileGrows
  <2>3. NextPage(f) \in Nat /\ NextPage(f) # NoPage /\ IsOverflow(g, NextPage(f))
    BY <1>1, NextPageFacts, WritePageFacts DEF IsOverflow
  <2>4. /\ q \in PairRec /\ q.key = p.key /\ q.value = p.value /\ q.keyPage = p.keyPage
        /\ q.valuePage = NextPage(f)
    BY <1>1, <2>3 DEF PairRec
  <2> HIDE DEF g, q
  <2>5. PairOk(g, p) BY <1>1, <2>2, ListsStay DEF FileOk
  <2>6. PairOk(g, q) BY <1>3, <2>3, <2>4, <2>5 DEF PairOk
  <2>7. s.file = g /\ s.p = q BY <2>1
  <2> QED BY <1>3, <2>1, <2>2, <2>3, <2>4, <2>6, <2>7 DEF g
<1> QED BY <1>2, <1>3

\* A pair that is put has the key and the value it had, and overflows where they are needed.
LEMMA ToPutFacts ==
    ASSUME NEW f, FileOk(f), NEW p, PairOk(f, p), NEW s, s = ToPut(f, p)
    PROVE  /\ FileOk(s.file) /\ Extends(s.file, f) /\ PairOk(s.file, s.p)
           /\ s.p.key = p.key /\ s.p.value = p.value
           /\ s.p.keyPage = NoPage => Small(s.p.key)
<1> DEFINE r == WithKeyPage([file |-> f, p |-> p])
<1>1. /\ r = [file |-> r.file, p |-> r.p]
      /\ FileOk(r.file) /\ Extends(r.file, f) /\ PairOk(r.file, r.p)
      /\ r.p.key = p.key /\ r.p.value = p.value
      /\ r.p.keyPage = NoPage => Small(r.p.key)
  BY KeyPageFacts
<1>2. s = WithValuePage([file |-> r.file, p |-> r.p]) BY <1>1 DEF ToPut
<1> HIDE DEF r
<1>3. /\ FileOk(s.file) /\ Extends(s.file, r.file) /\ PairOk(s.file, s.p)
      /\ s.p.key = r.p.key /\ s.p.value = r.p.value /\ s.p.keyPage = r.p.keyPage
  BY <1>1, <1>2, ValuePageFacts
<1> QED BY <1>1, <1>3 DEF Extends

\* The writer takes a pair: PutPair.
LEMMA PutPairKeeps ==
    ASSUME NEW p, FileOk(file), WriterOk(file, leaf, chain, <<>>, level), hand = <<>>,
           PairOk(file, p), UpTo(leaf, chain, <<>>, p.key), PutPair(p)
    PROVE  /\ FileOk(file') /\ Extends(file', file)
           /\ WriterOk(file', leaf', chain, hand', level')
           /\ \A y \in Int : UpTo(leaf, chain, <<>>, y) /\ p.key < y => UpTo(leaf', chain, hand', y)
           /\ \A i \in DOMAIN hand' : hand'[i].page \notin DOMAIN file /\ IsLeaf(file', hand'[i].page)
<1> DEFINE s == ToPut(file, p)
<1>1. /\ FileOk(s.file) /\ Extends(s.file, file) /\ PairOk(s.file, s.p)
      /\ s.p.key = p.key
      /\ s.p.keyPage = NoPage => Small(s.p.key)
  BY ToPutFacts
<1>2. IF LeafSize(leaf) + LeafNeed(s.p) <= LeafRoom
      THEN /\ file' = s.file
           /\ leaf' = Append(leaf, s.p)
           /\ UNCHANGED <<hand, level>>
      ELSE WriteLeaf(s.file, <<s.p>>)
  BY DEF PutPair, ToPut
<1> HIDE DEF s
<1>3. WriterOk(s.file, leaf, chain, <<>>, level) BY <1>1, WriterStays DEF FileOk
<1> DEFINE q == s.p
           g == s.file
<1>4. FileOk(g) /\ Extends(g, file) /\ PairOk(g, q) /\ q.key = p.key
      /\ (q.keyPage = NoPage => Small(q.key)) /\ WriterOk(g, leaf, chain, <<>>, level)
      /\ UpTo(leaf, chain, <<>>, q.key)
  BY <1>1, <1>3
<1>5. q \in PairRec /\ LeafNeed(q) \in Nat /\ q.key \in Int
  <2>1. q \in PairRec BY <1>4 DEF PairOk
  <2> QED BY <2>1, LeafSizes, Fields, PairsAssumption
<1>6. CASE LeafSize(leaf) + LeafNeed(q) <= LeafRoom
  <2>1. file' = g /\ leaf' = Append(leaf, q) /\ hand' = <<>> /\ level' = level BY <1>2, <1>6
  <2> HIDE DEF q, g
  <2>2. /\ WriterOk(g, Append(leaf, q), chain, <<>>, level)
        /\ \A y \in Int : UpTo(leaf, chain, <<>>, y) /\ q.key < y => UpTo(Append(leaf, q), chain, <<>>, y)
    BY <1>4, <1>6, LeafTakes
  <2> QED BY <1>4, <2>1, <2>2
<1>7. CASE ~(LeafSize(leaf) + LeafNeed(q) <= LeafRoom)
  <2> DEFINE node == [depth |-> 0, items |-> leaf]
             h == WritePage(g, node)
             c == LeafForParent(NextPage(g), node)
  <2>1. file' = h /\ leaf' = <<q>> /\ hand' = <<c>> /\ level' = 1 BY <1>2, <1>7 DEF WriteLeaf
  <2> HIDE DEF q, g
  <2>2. leaf # <<>>
    <3>1. LeafNeed(q) <= LeafRoom BY <1>4, <1>5, TreesAssumption, Fields DEF LeafNeed, Small
    <3> QED BY <1>5, <1>7, <3>1, LeafSizes
  <2>3. LeafOk(g, <<q>>)
    <3>1. LeafSize(<<q>>) = LeafNeed(q)
      <4> DEFINE e == <<>>
      <4>1. <<q>> = Append(e, q) /\ e \in Seq(PairRec) /\ LeafSize(e) = 0 BY LeafSizes
      <4> HIDE DEF e
      <4>2. LeafSize(Append(e, q)) = LeafSize(e) + LeafNeed(q) BY <1>5, <4>1, LeafSizes
      <4>3. LeafSize(<<q>>) = LeafSize(Append(e, q)) BY <4>1
      <4> QED BY <1>5, <4>1, <4>2, <4>3
    <3>2. LeafNeed(q) <= LeafRoom BY <1>4, <1>5, TreesAssumption, Fields DEF LeafNeed, Small
    <3> QED BY <1>4, <1>5, <3>1, <3>2 DEF LeafOk, PairsOk, Ascending
  <2>4. \A i \in DOMAIN <<q>> : UpTo(leaf, chain, <<>>, <<q>>[i].key) BY <1>4
  <2>5. node = [depth |-> 0, items |-> leaf] /\ h = WritePage(g, node)
        /\ c = LeafForParent(NextPage(g), node)
    OBVIOUS
  <2> HIDE DEF node, h, c
  <2> DEFINE next == <<q>>
  <2>6. DOMAIN next = {1} /\ next[1].key = q.key OBVIOUS
  <2>7. LeafOk(g, next) /\ \A i \in DOMAIN next : UpTo(leaf, chain, <<>>, next[i].key) BY <2>3, <2>4
  <2> HIDE DEF next
  <2>8. /\ FileOk(h) /\ Extends(h, g)
        /\ WriterOk(h, next, chain, <<c>>, 1)
        /\ \A y : UpTo(leaf, chain, <<>>, y) /\ (\A i \in DOMAIN next : next[i].key < y)
                        => UpTo(next, chain, <<c>>, y)
    BY <1>4, <2>2, <2>5, <2>7, WriteLeafKeeps
  <2>9. leaf' = next BY <2>1 DEF next
  <2>10. c.page \notin DOMAIN g /\ IsLeaf(h, c.page)
    <3>1. c.page = NextPage(g) /\ NextPage(g) \notin DOMAIN g
      BY <1>4, NextPageFacts DEF c, LeafForParent, FileOk
    <3>2. ItemOk(h, 1, c) BY <2>8 DEF WriterOk, HandOk
    <3>3. IsNode(h, c.page) /\ h[c.page].depth = 0 /\ c.page \in DOMAIN h
      BY <3>2 DEF ItemOk, AgreesWith
    <3> QED BY <3>1, <3>3, NodeFacts
  <2>11. DOMAIN hand' = {1} /\ hand'[1] = c BY <2>1
  <2>12. \A i \in DOMAIN hand' : hand'[i].page \notin DOMAIN file /\ IsLeaf(file', hand'[i].page)
    BY <1>4, <2>1, <2>10, <2>11 DEF Extends
  <2> QED BY <1>4, <2>1, <2>6, <2>8, <2>9, <2>12 DEF Extends
<1> QED BY <1>6, <1>7

-----------------------------------------------------------------------------
(* What is read and merged.                                                *)

\* All of it stays when pages are written.
LEMMA SourcesStay ==
    ASSUME NEW f, NEW g, Forest(f), Forest(g), Extends(g, f), NEW ps, NEW rd, NEW td,
           SourcesOk(f, ps, rd, td)
    PROVE  /\ SourceOk(g, ps) /\ PairsOk(g, rd) /\ TodoOk(g, rd, td) /\ SourcesOk(g, ps, rd, td)
           /\ \A lf, ch, hd : UpToTodo(f, td, lf, ch, hd) => UpToTodo(g, td, lf, ch, hd)
<1>1. SourceOk(g, ps) /\ PairsOk(g, rd) BY ListsStay DEF SourcesOk, SourceOk
<1>2. \A d \in DOMAIN td : ItemsOk(f, d, td[d]) /\ ItemsOk(g, d, td[d])
  BY ListsStay DEF SourcesOk, TodoOk
<1>3. \A d \in DOMAIN td : \A i \in DOMAIN td[d] : ItemOk(f, d, td[d][i]) BY <1>2 DEF ItemsOk
<1>4. \A d, e \in DOMAIN td : d < e =>
         \A i \in DOMAIN td[d], j \in DOMAIN td[e] : Before(g, td[d][i], td[e][j])
  BY <1>3, ListsStay DEF SourcesOk, TodoOk
<1>5. \A d \in DOMAIN td : \A i \in DOMAIN td[d], j \in DOMAIN rd : Before(g, rd[j], td[d][i])
  BY <1>3, ListsStay DEF SourcesOk, TodoOk
<1>6. TodoOk(g, rd, td) BY <1>2, <1>4, <1>5 DEF SourcesOk, TodoOk
<1>7. \A d \in DOMAIN td : \A i \in DOMAIN td[d] :
         KeysUnder(g, td[d][i].page) = KeysUnder(f, td[d][i].page)
  <2> TAKE d \in DOMAIN td
  <2> TAKE i \in DOMAIN td[d]
  <2>1. td[d][i].page \in DOMAIN f BY <1>3 DEF ItemOk, IsNode, IsLeaf, IsInner
  <2> QED BY <2>1, TreesStay
<1>8. \A lf, ch, hd : UpToTodo(f, td, lf, ch, hd) => UpToTodo(g, td, lf, ch, hd)
  BY <1>7 DEF UpToTodo
<1> QED BY <1>1, <1>6, <1>8 DEF SourcesOk

\* The next pair has the least key.
LEMMA NextPairFacts ==
    ASSUME NEW f, SourceOk(f, pairs), pairs # {}
    PROVE  /\ NextPair \in pairs /\ NextPair \in PairRec /\ NextPair.key \in Int /\ NextPair.key \in Keys
           /\ \A q \in pairs : NextPair.key <= q.key /\ (q # NextPair => NextPair.key < q.key)
<1> DEFINE key == [p \in pairs |-> p.key]
           K == {key[p] : p \in pairs}
<1>1. \A p \in pairs : p \in PairRec /\ p.key \in Int /\ p.key \in Keys
  BY Fields, PairsAssumption DEF SourceOk, PairOk
<1>2. IsFiniteSet(K)
  <2>1. IsFiniteSet(pairs) BY DEF SourceOk
  <2> HIDE DEF key
  <2> QED BY <2>1, FiniteImage
<1>3. K \subseteq Int /\ K # {} BY <1>1
<1>4. PICK k \in K : \A m \in K : k <= m
  <2> HIDE DEF K
  <2> QED BY <1>2, <1>3, LeastOfFinite
<1>5. PICK p \in pairs : p.key = k BY <1>4
<1>6. \A q \in pairs : p.key <= q.key BY <1>4, <1>5
<1>7. NextPair \in pairs /\ \A q \in pairs : NextPair.key <= q.key BY <1>6 DEF NextPair
<1>8. \A q \in pairs : q # NextPair => NextPair.key # q.key BY <1>7 DEF SourceOk
<1> QED BY <1>1, <1>7, <1>8

\* The lowest level that has something.
LEMMA LowestFacts ==
    ASSUME NEW s \in Seq(Seq(ItemRec)), ~AllEmpty(s)
    PROVE  /\ Lowest(s) \in DOMAIN s /\ Lowest(s) \in Nat \ {0} /\ s[Lowest(s)] # <<>>
           /\ \A e \in DOMAIN s : e < Lowest(s) => s[e] = <<>>
<1> DEFINE N == Len(s)
           Full == {d \in 1..N : s[d] # <<>>}
<1>1. DOMAIN s = 1..N /\ N \in Int /\ 1 \in Int OBVIOUS
<1>2. Full # {} /\ Full \subseteq 1..N BY <1>1 DEF AllEmpty
<1>3. PICK d \in Full : \A k \in 1..d - 1 : k \notin Full
  <2> HIDE DEF Full, N
  <2> QED BY <1>1, <1>2, LeastNumber
<1>4. d \in DOMAIN s /\ s[d] # <<>> /\ \A e \in DOMAIN s : e < d => s[e] = <<>> BY <1>1, <1>3
<1> QED BY <1>1, <1>4 DEF Lowest

\* The lowest level is the only one of its kind.
LEMMA LowestIs ==
    ASSUME NEW s \in Seq(Seq(ItemRec)), NEW d \in DOMAIN s, s[d] # <<>>,
           \A e \in DOMAIN s : e < d => s[e] = <<>>
    PROVE  ~AllEmpty(s) /\ Lowest(s) = d
<1>1. ~AllEmpty(s) BY DEF AllEmpty
<1>2. Lowest(s) \in DOMAIN s /\ s[Lowest(s)] # <<>> /\ \A e \in DOMAIN s : e < Lowest(s) => s[e] = <<>>
  BY <1>1, LowestFacts
<1>3. d \in Nat /\ Lowest(s) \in Nat BY <1>2
<1> QED BY <1>1, <1>2, <1>3

\* The rest of a list.
LEMMA TailFacts ==
    ASSUME NEW S, NEW s \in Seq(S), s # <<>>
    PROVE  /\ Head(s) = s[1] /\ 1 \in DOMAIN s /\ Tail(s) \in Seq(S) /\ Len(Tail(s)) = Len(s) - 1
           /\ DOMAIN Tail(s) = 1..Len(s) - 1
           /\ \A i \in DOMAIN Tail(s) : /\ Tail(s)[i] = s[i + 1] /\ i + 1 \in DOMAIN s /\ 1 < i + 1
                                        /\ i \in Nat
  OBVIOUS

\* Items stay in order when the first one is gone.
LEMMA ItemsTail ==
    ASSUME NEW f, NEW d, NEW s, ItemsOk(f, d, s), s # <<>>
    PROVE  ItemsOk(f, d, Tail(s))
<1>1. s \in Seq(ItemRec) BY DEF ItemsOk
<1> DEFINE t == Tail(s)
<1>2. t \in Seq(ItemRec) /\ \A i \in DOMAIN t : t[i] = s[i + 1] /\ i + 1 \in DOMAIN s /\ i \in Nat
  BY <1>1, TailFacts
<1> HIDE DEF t
<1>3. \A i \in DOMAIN t : ItemOk(f, d, t[i]) BY <1>2 DEF ItemsOk
<1>4. \A i, j \in DOMAIN t : i < j => Before(f, t[i], t[j])
  <2> TAKE i, j \in DOMAIN t
  <2>1. i < j => i + 1 < j + 1 BY <1>2
  <2> QED BY <1>2, <2>1 DEF ItemsOk
<1>5. ItemsOk(f, d, t) BY <1>2, <1>3, <1>4 DEF ItemsOk
<1> QED BY <1>5 DEF t

\* Pairs stay in order when the first one is gone.
LEMMA PairsTail ==
    ASSUME NEW f, NEW s, PairsOk(f, s), s # <<>>
    PROVE  PairsOk(f, Tail(s))
<1>1. s \in Seq(PairRec) BY DEF PairsOk
<1> DEFINE t == Tail(s)
<1>2. t \in Seq(PairRec) /\ \A i \in DOMAIN t : t[i] = s[i + 1] /\ i + 1 \in DOMAIN s /\ i \in Nat
  BY <1>1, TailFacts
<1> HIDE DEF t
<1>3. \A i \in DOMAIN t : PairOk(f, t[i]) BY <1>2 DEF PairsOk
<1>4. Ascending(t)
  <2> SUFFICES ASSUME NEW i \in DOMAIN t, NEW j \in DOMAIN t, i < j
               PROVE  t[i].key < t[j].key
    BY DEF Ascending
  <2>1. i + 1 < j + 1 BY <1>2
  <2> QED BY <1>2, <2>1 DEF PairsOk, Ascending
<1>5. PairsOk(f, t) BY <1>2, <1>3, <1>4 DEF PairsOk
<1> QED BY <1>5 DEF t

-----------------------------------------------------------------------------
(* What holds of the whole: the pages, the roots, the writer and what it   *)
(* still has to write are sound, and nothing of what is promoted is kept.  *)

\* The pages and the roots are sound after a step that only writes pages.
LEMMA RootsStay ==
    ASSUME RootsOk, Extends(file', file), UNCHANGED <<upper, lower, pending>>
    PROVE  RootsOk'
<1>1. \A n : IsNode(file, n) => n \in DOMAIN file BY DEF IsNode, IsLeaf, IsInner
<1>2. \A n : IsNode(file, n) => IsNode(file', n) BY <1>1, PagesStay
<1> QED BY <1>2 DEF RootsOk, RootOk

\* What is clean stays clean.
LEMMA CleanStays ==
    ASSUME NEW f, NEW g, Forest(f), Forest(g), Extends(g, f), NEW pr
    PROVE  /\ \A n \in DOMAIN f : Clean(f, pr, n) => Clean(g, pr, n)
           /\ \A d, s : ItemsOk(f, d, s) /\ AllClean(f, pr, s) => AllClean(g, pr, s)
           /\ \A root : RootOk(f, root) /\ RootClean(f, pr, root) => RootClean(g, pr, root)
           /\ \A n : IsLeaf(f, n) => IsLeaf(g, n)
<1>1. \A n \in DOMAIN f : Clean(f, pr, n) => Clean(g, pr, n) BY TreesStay DEF Clean
<1>2. \A n : IsNode(f, n) => n \in DOMAIN f BY DEF IsNode, IsLeaf, IsInner
<1>3. \A d, s : ItemsOk(f, d, s) => \A i \in DOMAIN s : s[i].page \in DOMAIN f
  BY <1>2 DEF ItemsOk, ItemOk
<1>4. \A d, s : ItemsOk(f, d, s) /\ AllClean(f, pr, s) => AllClean(g, pr, s)
  BY <1>1, <1>3 DEF AllClean
<1>5. \A root : RootOk(f, root) /\ RootClean(f, pr, root) => RootClean(g, pr, root)
  BY <1>1, <1>2 DEF RootOk, RootClean
<1>6. \A n : IsLeaf(f, n) => IsLeaf(g, n) BY PagesStay DEF IsLeaf
<1> QED BY <1>1, <1>4, <1>5, <1>6

\* A leaf that is written is clean, and so is a parent of clean children.
LEMMA NewLeafClean ==
    ASSUME NEW g, Forest(g), NEW n, IsLeaf(g, n), NEW pr, n \notin pr
    PROVE  Clean(g, pr, n)
<1>1. n \in DOMAIN g /\ ~IsInner(g, n) BY NodeFacts DEF IsLeaf, IsNode
<1> QED BY <1>1, BelowFacts DEF Clean

\* Under a new parent is no promoted page when there is none under its children.
LEMMA NewParentClean ==
    ASSUME NEW g, Forest(g), NEW n, IsInner(g, n), NEW pr, n \notin pr,
           \A c \in Children(g, n) : Clean(g, pr, c)
    PROVE  Clean(g, pr, n)
<1>1. n \in DOMAIN g BY DEF IsInner
<1>2. Below(g, n) = {n} \cup UNION {Below(g, c) : c \in Children(g, n)} BY <1>1, BelowFacts
<1> QED BY <1>2 DEF Clean

\* All of them are integers.
LEMMA KeysToCome ==
    ASSUME NEW f, FileOk(f), NEW ps, NEW rd, NEW td, SourcesOk(f, ps, rd, td)
    PROVE  /\ \A p \in ps : p.key \in Int
           /\ \A i \in DOMAIN rd : rd[i].key \in Int
           /\ \A d \in DOMAIN td : \A i \in DOMAIN td[d] : \A m \in KeysUnder(f, td[d][i].page) : m \in Int
<1>1. \A p \in ps : p \in PairRec BY DEF SourcesOk, SourceOk, PairOk
<1>2. \A i \in DOMAIN rd : rd[i] \in PairRec BY DEF SourcesOk, PairsOk, PairOk
<1>3. \A d \in DOMAIN td : \A i \in DOMAIN td[d] : ItemOk(f, d, td[d][i])
  BY DEF SourcesOk, TodoOk, ItemsOk
<1>4. \A d \in DOMAIN td : \A i \in DOMAIN td[d] : \A m \in KeysUnder(f, td[d][i].page) : m \in Int
  BY <1>3, ItemKeys
<1> QED BY <1>1, <1>2, <1>4, Fields, PairsAssumption

\* A step that changes nothing but the writer, which goes as far as it did.
LEMMA WriterMoves ==
    ASSUME SInv, FileOk(file'), Extends(file', file), WritingOk',
           \A y \in Int : UpTo(leaf, chain, hand, y) => UpTo(leaf', chain', hand', y),
           LevelsClean(file', promoted, chain'), AllClean(file', promoted, hand'),
           phase \notin {"idle", "prepared"}, Len(chain') >= Len(chain),
           UNCHANGED <<segments, phase, sources, merge>>
    PROVE  SInv'
<1>1. Forest(file) /\ Forest(file') BY DEF SInv, FileOk
<1>2. UNCHANGED <<upper, lower, phase, pairs, reading, todo, keep, promoted, freed, dropped, pending>>
  BY DEF segments, sources, merge
<1>3. PhaseOk' BY <1>2 DEF SInv, PhaseOk, Unmerged
<1>4. RootsOk' BY <1>2, RootsStay DEF SInv
<1>5. ReadingOk' /\ UpToTodo(file', todo, leaf, chain, hand)
  BY <1>1, <1>2, SourcesStay DEF SInv, ReadingOk, InOrder, UpToSources
<1>6. InOrder'
  <2>1. /\ \A p \in pairs : p.key \in Int
        /\ \A i \in DOMAIN reading : reading[i].key \in Int
        /\ \A d \in DOMAIN todo : \A i \in DOMAIN todo[d] :
              \A m \in KeysUnder(file', todo[d][i].page) : m \in Int
    BY <1>2, <1>5, KeysToCome DEF ReadingOk
  <2>2. UpToPairs(pairs, leaf', chain', hand') /\ UpToReading(reading, leaf', chain', hand')
    BY <2>1 DEF SInv, InOrder, UpToSources, UpToPairs, UpToReading
  <2>3. UpToTodo(file', todo, leaf', chain', hand') BY <1>5, <2>1 DEF UpToTodo
  <2> QED BY <1>2, <2>2, <2>3 DEF InOrder, UpToSources
<1>7. KeepOk'
  <2>1. Depth' = Depth /\ NextPair' = NextPair /\ Item' = Item BY <1>2 DEF Depth, NextPair, Item
  <2>2. Len(chain) \in Nat /\ Len(chain') \in Nat BY DEF SInv, WritingOk, WriterOk, LevelsOk
  <2>3. ASSUME keep > 0, ~OnLineage(Item)
        PROVE  ~OnLineage(Item)'
    <3>1. ~AllEmpty(todo) /\ todo \in Seq(Seq(ItemRec))
      BY <2>3 DEF SInv, KeepOk, ReadingOk, SourcesOk, TodoOk
    <3>2. Depth \in DOMAIN todo /\ todo[Depth] # <<>> BY <3>1, LowestFacts DEF Depth
    <3>3. ItemsOk(file, Depth, todo[Depth]) BY <3>2 DEF SInv, ReadingOk, SourcesOk, TodoOk
    <3>4. todo[Depth] \in Seq(ItemRec) /\ 1 \in DOMAIN todo[Depth] /\ Item = todo[Depth][1]
      BY <3>2, <3>3, TailFacts DEF ItemsOk, Item
    <3>5. Item.page \in DOMAIN file BY <3>3, <3>4 DEF ItemsOk, ItemOk, IsNode, IsLeaf, IsInner
    <3>6. Below(file', Item.page) = Below(file, Item.page) BY <1>1, <3>5, TreesStay
    <3> QED BY <1>2, <2>1, <2>3, <3>6 DEF OnLineage
  <2>4. keep > 0 /\ Depth <= Len(chain) => Depth <= Len(chain')
    <3>1. ~AllEmpty(todo) => Depth \in Nat
      BY LowestFacts DEF Depth, SInv, ReadingOk, SourcesOk, TodoOk
    <3>2. keep > 0 => Depth \in Nat BY <3>1 DEF SInv, KeepOk
    <3> QED BY <2>2, <3>2
  <2> QED BY <1>2, <2>1, <2>3, <2>4 DEF SInv, KeepOk
<1>8. CleanOk'
  <2>1. LevelsClean(file', promoted, todo) \/ phase # "merge"
    <3>1. \A d \in DOMAIN todo : ItemsOk(file, d, todo[d]) BY DEF SInv, ReadingOk, SourcesOk, TodoOk
    <3> QED BY <1>1, <3>1, CleanStays DEF SInv, CleanOk, LevelsClean
  <2>2. RootClean(file', promoted, pending.upper) /\ RootClean(file', promoted, pending.lower)
    BY <1>1, CleanStays DEF SInv, CleanOk, RootsOk
  <2>3. \A p \in promoted : IsLeaf(file', p) BY <1>1, CleanStays DEF SInv, CleanOk
  <2> QED BY <1>2, <2>1, <2>2, <2>3 DEF SInv, CleanOk
<1>9. writes' \in Nat BY DEF SInv, segments
<1> QED BY <1>3, <1>4, <1>5, <1>6, <1>7, <1>8, <1>9 DEF SInv

-----------------------------------------------------------------------------
(* The steps of the writer.                                                *)

\* One level is changed.
LEMMA LevelChanged ==
    ASSUME NEW ch \in Seq(Seq(ItemRec)), NEW l \in DOMAIN ch, NEW it \in Seq(ItemRec),
           NEW new, new = [ch EXCEPT ![l] = it]
    PROVE  /\ new \in Seq(Seq(ItemRec)) /\ DOMAIN new = DOMAIN ch /\ Len(new) = Len(ch) /\ Len(ch) \in Nat
           /\ new[l] = it /\ \A d \in DOMAIN ch : d # l => new[d] = ch[d]
  OBVIOUS

\* A list of one element.
LEMMA OneInSeq ==
    ASSUME NEW S, NEW x \in S
    PROVE  <<x>> \in Seq(S)
  OBVIOUS

\* What add_child_to_current makes of the chain.
LEMMA ChainWithFacts ==
    ASSUME NEW ch \in Seq(Seq(ItemRec)), NEW l \in DOMAIN ch, NEW it \in Seq(ItemRec), NEW new,
           new = ChainWith(ch, l, it)
    PROVE  /\ Len(new) \in Nat /\ Len(new) >= Len(ch) /\ new[l] = it
           /\ \A d \in DOMAIN new : d # l => new[d] = <<>> \/ (d \in DOMAIN ch /\ new[d] = ch[d])
           /\ \A d \in DOMAIN ch : d \in DOMAIN new /\ (d # l => new[d] = ch[d])
<1> DEFINE N == Len(ch)
           put == [ch EXCEPT ![l] = it]
<1>1. N \in Nat /\ DOMAIN ch = 1..N OBVIOUS
<1>2. put \in Seq(Seq(ItemRec)) /\ Len(put) = N /\ DOMAIN put = 1..N /\ put[l] = it
      /\ \A d \in 1..N : d # l => put[d] = ch[d]
  OBVIOUS
<1>3. new = Append(put, <<>>) \/ new = put BY DEF ChainWith
<1> HIDE DEF put, N
<1>4. CASE new = put BY <1>1, <1>2, <1>4
<1>5. CASE new = Append(put, <<>>)
  <2>1. Len(new) = N + 1 /\ DOMAIN new = 1..N + 1 /\ new[N + 1] = <<>> /\ \A d \in 1..N : new[d] = put[d]
    BY <1>1, <1>2, <1>5
  <2>2. \A d \in 1..N + 1 : d = N + 1 \/ d \in 1..N BY <1>1
  <2> QED BY <1>1, <1>2, <2>1, <2>2 DEF N
<1> QED BY <1>3, <1>4, <1>5

\* The phases in which there is something in the writer.
LEMMA Busy ==
    ASSUME SInv, leaf # <<>> \/ hand # <<>> \/ ~AllEmpty(chain) \/ keep > 0
    PROVE  phase \notin {"idle", "prepared"}
<1>1. AllEmpty(NewChain) BY DEF AllEmpty, NewChain
<1>2. ~(0 > 0) OBVIOUS
<1> QED BY <1>1, <1>2 DEF SInv, PhaseOk

\* A level takes what is in hand: in whatever step, SInv is kept.
LEMMA JoinSound ==
    ASSUME SInv, hand # <<>>, Join, UNCHANGED <<segments, phase, sources, leaf, merge>>
    PROVE  SInv'
<1>1. /\ FileOk(file) /\ LeafOk(file, leaf) /\ LevelsOk(file, leaf, chain) /\ ShortTop(chain)
  BY DEF SInv, WritingOk, WriterOk
<1>2. PICK c : hand = <<c>> /\ HandOk(file, leaf, chain, c, level) BY DEF SInv, WritingOk, WriterOk
<1> DEFINE s == chain[level]
           t == WithItem(file, s, c)
<1>3. /\ Len(s) < 2 \/ ParentSize(s) + ParentNeed(c) <= ParentRoom
      /\ file' = t.file /\ chain' = ChainWith(chain, level, t.items) /\ hand' = <<>> /\ level' = 1
  BY <1>2 DEF Join, WithItem, ChainWith, IsLast
<1>4. level \in DOMAIN chain /\ LevelOk(file, level, s) /\ ItemOk(file, level, c) /\ c.location # "owned"
      /\ \A i \in DOMAIN s : Before(file, s[i], c)
  <2>1. level \in DOMAIN chain /\ ItemOk(file, level, c) /\ c.location # "owned" BY <1>2 DEF HandOk
  <2>2. level >= level BY <1>1, <2>1 DEF LevelsOk
  <2> QED BY <1>1, <1>2, <2>1, <2>2 DEF LevelsOk, HandOk
<1>5. t = WithItem(file, s, c) OBVIOUS
<1> HIDE DEF t
<1>6. /\ FileOk(t.file) /\ Extends(t.file, file)
      /\ WriterOk(t.file, leaf, ChainWith(chain, level, t.items), <<>>, 1)
      /\ \A y : UpTo(leaf, chain, <<c>>, y) => UpTo(leaf, ChainWith(chain, level, t.items), <<>>, y)
  BY <1>1, <1>2, <1>3, <1>5, JoinKeeps
<1>7. /\ LevelOk(t.file, level, t.items) /\ DOMAIN t.items = DOMAIN Append(s, c)
      /\ \A i \in DOMAIN Append(s, c) : t.items[i].page = Append(s, c)[i].page
  <2> HIDE DEF s
  <2> QED BY <1>1, <1>3, <1>4, <1>5, Joined
<1>8. t.items \in Seq(ItemRec) /\ s \in Seq(ItemRec) BY <1>4, <1>7 DEF LevelOk, ItemsOk
<1>9. AllClean(file', promoted, t.items)
  <2>1. Forest(file) /\ Forest(file') /\ Extends(file', file) BY <1>1, <1>3, <1>6 DEF FileOk
  <2>2. c.page \in DOMAIN file /\ Clean(file, promoted, c.page)
    <3>1. DOMAIN hand = {1} /\ hand[1] = c BY <1>2
    <3> QED BY <1>4, <3>1 DEF SInv, CleanOk, AllClean, ItemOk, IsNode, IsLeaf, IsInner
  <2>3. Clean(file', promoted, c.page) BY <2>1, <2>2, CleanStays
  <2>4. AllClean(file', promoted, s)
    <3>1. ItemsOk(file, level, s) /\ AllClean(file, promoted, s)
      BY <1>4 DEF LevelOk, SInv, CleanOk, LevelsClean
    <3> QED BY <2>1, <3>1, CleanStays
  <2> DEFINE N == Len(s)
             more == Append(s, c)
  <2>5. N \in Nat /\ DOMAIN s = 1..N /\ DOMAIN more = 1..N + 1 /\ more[N + 1] = c
        /\ \A i \in 1..N : more[i] = s[i]
    BY <1>8
  <2>6. \A i \in 1..N + 1 : i = N + 1 \/ i \in 1..N BY <2>5
  <2>7. AllClean(file', promoted, more)
    <3> HIDE DEF more, N, s
    <3> QED BY <2>3, <2>4, <2>5, <2>6 DEF AllClean
  <2> QED BY <1>7, <2>7 DEF AllClean
<1>10. /\ Len(chain') >= Len(chain) /\ chain'[level] = t.items
       /\ \A d \in DOMAIN chain' : d # level => chain'[d] = <<>> \/ (d \in DOMAIN chain /\ chain'[d] = chain[d])
  <2>1. chain \in Seq(Seq(ItemRec)) BY <1>1 DEF LevelsOk
  <2> QED BY <1>3, <1>4, <1>8, <2>1, ChainWithFacts
<1>11. LevelsClean(file', promoted, chain')
  <2> SUFFICES ASSUME NEW d \in DOMAIN chain'
               PROVE  AllClean(file', promoted, chain'[d])
    BY DEF LevelsClean
  <2>1. CASE d = level BY <1>9, <1>10, <2>1
  <2>2. CASE chain'[d] = <<>> BY <2>2 DEF AllClean
  <2>3. CASE d \in DOMAIN chain /\ chain'[d] = chain[d]
    <3>1. ItemsOk(file, d, chain[d]) /\ AllClean(file, promoted, chain[d])
      BY <1>1, <2>3 DEF LevelsOk, LevelOk, SInv, CleanOk, LevelsClean
    <3> QED BY <1>1, <1>3, <1>6, <2>3, <3>1, CleanStays DEF FileOk
  <2> QED BY <1>10, <2>1, <2>2, <2>3
<1>12. AllClean(file', promoted, hand') BY <1>3 DEF AllClean
<1>13. FileOk(file') /\ Extends(file', file) /\ WritingOk'
  <2>1. leaf' = leaf OBVIOUS
  <2> QED BY <1>3, <1>6, <2>1 DEF WritingOk
<1>14. \A y \in Int : UpTo(leaf, chain, hand, y) => UpTo(leaf', chain', hand', y)
  BY <1>2, <1>3, <1>6
<1>15. phase \notin {"idle", "prepared"} BY Busy
<1>16. UNCHANGED <<segments, phase, sources, merge>> OBVIOUS
<1> QED BY <1>10, <1>11, <1>12, <1>13, <1>14, <1>15, <1>16, WriterMoves

\* A level is written as a page and told to the one above: SInv is kept.
LEMMA WriteParentSound ==
    ASSUME SInv, NEW d \in DOMAIN chain, d < Len(chain), chain[d] # <<>>,
           hand # <<>> => level = d, WriteParent(d), UNCHANGED <<segments, phase, sources, leaf, merge>>
    PROVE  SInv'
<1> DEFINE node == [depth |-> d, items |-> chain[d]]
           g == WritePage(file, node)
           c == ItemForParent(NextPage(file), node)
           new == [chain EXCEPT ![d] = hand]
<1>1. file' = g /\ chain' = new /\ hand' = <<c>> /\ level' = d + 1 BY DEF WriteParent
<1>2. FileOk(file) /\ WriterOk(file, leaf, chain, hand, level) BY DEF SInv, WritingOk
<1>3. LevelsOk(file, leaf, chain) BY <1>2 DEF WriterOk
<1>4. ItemsOk(file, d, chain[d]) /\ ParentSize(chain[d]) <= ParentRoom /\ d \in Nat \ {0}
  BY <1>3 DEF LevelsOk, LevelOk
<1>5. node = [depth |-> d, items |-> chain[d]] /\ g = WritePage(file, node)
      /\ c = ItemForParent(NextPage(file), node)
  OBVIOUS
<1> HIDE DEF node, g, c
<1>6. /\ FileOk(g) /\ Extends(g, file) /\ Tells(file, g, d, chain[d], c)
      /\ WriterOk(g, leaf, [chain EXCEPT ![d] = hand], <<c>>, d + 1)
      /\ \A y : UpTo(leaf, chain, hand, y) => UpTo(leaf, [chain EXCEPT ![d] = hand], <<c>>, y)
  BY <1>2, <1>5, WriteParentKeeps
<1>7. c.page = NextPage(file) /\ Children(g, c.page) = {chain[d][i].page : i \in DOMAIN chain[d]}
      /\ ItemOk(g, d + 1, c)
  BY <1>6 DEF Tells, ItemPages
<1>8. Forest(file) /\ Forest(g) BY <1>2, <1>6 DEF FileOk
<1>9. Clean(g, promoted, c.page)
  <2>1. c.page \notin promoted BY <1>7, <1>8, NextPageFacts DEF SInv, CleanOk, IsLeaf
  <2>2. IsInner(g, c.page)
    <3>1. IsNode(g, c.page) /\ g[c.page].depth = d + 1 - 1 /\ c.page \in DOMAIN g
      BY <1>7 DEF ItemOk, AgreesWith
    <3>2. g[c.page].depth > 0 BY <1>4, <3>1
    <3> QED BY <3>1, <3>2, NodeFacts
  <2>3. AllClean(g, promoted, chain[d])
    BY <1>4, <1>6, <1>8, CleanStays DEF SInv, CleanOk, LevelsClean
  <2>4. \A n \in Children(g, c.page) : Clean(g, promoted, n) BY <1>7, <2>3 DEF AllClean
  <2> QED BY <1>8, <2>1, <2>2, <2>4, NewParentClean
<1>10. AllClean(file', promoted, hand')
  <2>1. DOMAIN hand' = {1} /\ hand'[1] = c BY <1>1
  <2> QED BY <1>1, <1>9, <2>1 DEF AllClean
<1>11. DOMAIN chain' = DOMAIN chain /\ Len(chain') = Len(chain) /\ Len(chain) \in Nat
       /\ chain'[d] = hand /\ \A e \in DOMAIN chain : e # d => chain'[e] = chain[e]
  <2>1. chain \in Seq(Seq(ItemRec)) BY <1>3 DEF LevelsOk
  <2>2. hand \in Seq(ItemRec)
    <3>1. hand = <<>> \/ \E b : hand = <<b>> /\ b \in ItemRec BY <1>2 DEF WriterOk, HandOk, ItemOk
    <3>2. <<>> \in Seq(ItemRec) OBVIOUS
    <3> QED BY <3>1, <3>2, OneInSeq
  <2>3. new = [chain EXCEPT ![d] = hand] OBVIOUS
  <2> HIDE DEF new
  <2> QED BY <1>1, <2>1, <2>2, <2>3, LevelChanged
<1>12. LevelsClean(file', promoted, chain')
  <2> SUFFICES ASSUME NEW e \in DOMAIN chain'
               PROVE  AllClean(file', promoted, chain'[e])
    BY DEF LevelsClean
  <2>1. CASE e = d
    <3>1. hand = <<>> \/ \E b : hand = <<b>> /\ ItemOk(file, level, b) BY <1>2 DEF WriterOk, HandOk
    <3>2. \A i \in DOMAIN hand : hand[i].page \in DOMAIN file
      BY <3>1 DEF ItemOk, IsNode, IsLeaf, IsInner
    <3>3. AllClean(g, promoted, hand) BY <1>6, <1>8, <3>2, CleanStays DEF SInv, CleanOk, AllClean
    <3> QED BY <1>1, <1>11, <2>1, <3>3
  <2>2. CASE e # d
    <3>1. e \in DOMAIN chain /\ chain'[e] = chain[e] BY <1>11, <2>2
    <3>2. ItemsOk(file, e, chain[e]) /\ AllClean(file, promoted, chain[e])
      BY <1>3, <3>1 DEF LevelsOk, LevelOk, SInv, CleanOk, LevelsClean
    <3>3. AllClean(g, promoted, chain[e]) BY <1>6, <1>8, <3>2, CleanStays
    <3> QED BY <1>1, <3>1, <3>3
  <2> QED BY <2>1, <2>2
<1>13. FileOk(file') /\ Extends(file', file) /\ WritingOk'
  <2>1. leaf' = leaf OBVIOUS
  <2> QED BY <1>1, <1>6, <2>1 DEF WritingOk
<1>14. \A y \in Int : UpTo(leaf, chain, hand, y) => UpTo(leaf', chain', hand', y)
  <2>1. leaf' = leaf OBVIOUS
  <2> QED BY <1>1, <1>6, <2>1
<1>15. ~AllEmpty(chain) BY DEF AllEmpty
<1>16. phase \notin {"idle", "prepared"} /\ Len(chain') >= Len(chain) BY <1>11, <1>15, Busy
<1>17. UNCHANGED <<segments, phase, sources, merge>> OBVIOUS
<1> QED BY <1>10, <1>12, <1>13, <1>14, <1>16, <1>17, WriterMoves

\* SInv is kept when an item goes to its level (add_child_to_current).
LEMMA AddChildSound ==
    ASSUME SInv, AddChild
    PROVE  SInv'
<1>1. hand # <<>> /\ UNCHANGED <<segments, phase, sources, leaf, merge>> BY DEF AddChild
<1>2. CASE Join BY <1>1, <1>2, JoinSound
<1>3. CASE Len(chain[level]) >= 2 /\ WriteParent(level)
  <2>1. PICK c : hand = <<c>> /\ HandOk(file, leaf, chain, c, level)
    BY <1>1 DEF SInv, WritingOk, WriterOk
  <2>2. level \in DOMAIN chain /\ chain \in Seq(Seq(ItemRec)) /\ ShortTop(chain)
    BY <2>1 DEF HandOk, SInv, WritingOk, WriterOk, LevelsOk
  <2>3. level # Len(chain) /\ chain[level] # <<>>
    <3>1. chain[level] \in Seq(ItemRec) /\ Len(chain[level]) \in Nat BY <2>2
    <3>2. chain[level] # <<>> BY <1>3, <3>1
    <3>3. level # Len(chain) BY <1>3, <2>2, <3>1 DEF ShortTop
    <3> QED BY <3>2, <3>3
  <2>4. level < Len(chain) BY <2>2, <2>3
  <2> QED BY <1>1, <1>3, <2>2, <2>3, <2>4, WriteParentSound
<1> QED BY <1>1, <1>2, <1>3 DEF AddChild

\* SInv is kept when the levels are written out at the end (ParentNodeWriter::done).
LEMMA FlushPageSound ==
    ASSUME SInv, FlushPage
    PROVE  SInv'
<1> DEFINE d == Lowest(chain)
<1>1. /\ hand = <<>> /\ ~AllEmpty(chain) /\ d # Len(chain) /\ WriteParent(d)
      /\ UNCHANGED <<segments, phase, sources, leaf, merge>>
  BY DEF FlushPage, MustWrite, IsLast
<1>2. chain \in Seq(Seq(ItemRec)) BY DEF SInv, WritingOk, WriterOk, LevelsOk
<1>3. d \in DOMAIN chain /\ chain[d] # <<>> BY <1>1, <1>2, LowestFacts
<1>4. d < Len(chain) BY <1>1, <1>2, <1>3
<1> HIDE DEF d
<1> QED BY <1>1, <1>3, <1>4, WriteParentSound

\* SInv is kept when the last leaf is written (flush_leaf).
LEMMA FlushLeafSound ==
    ASSUME SInv, FlushLeaf
    PROVE  SInv'
<1> DEFINE node == [depth |-> 0, items |-> leaf]
           g == WritePage(file, node)
           c == LeafForParent(NextPage(file), node)
           next == <<>>
<1>1. /\ hand = <<>> /\ leaf # <<>> /\ file' = g /\ leaf' = next /\ hand' = <<c>> /\ level' = 1
      /\ UNCHANGED <<segments, phase, sources, chain, merge>>
  BY DEF FlushLeaf, MustWrite, WriteLeaf
<1>2. FileOk(file) /\ WriterOk(file, leaf, chain, <<>>, level) BY <1>1 DEF SInv, WritingOk
<1>3. LeafOk(file, next) /\ DOMAIN next = {}
  <2>1. <<>> \in Seq(PairRec) /\ LeafSize(<<>>) = 0 BY LeafSizes
  <2> QED BY <2>1, TreesAssumption DEF LeafOk, PairsOk, Ascending
<1>4. node = [depth |-> 0, items |-> leaf] /\ g = WritePage(file, node)
      /\ c = LeafForParent(NextPage(file), node)
  OBVIOUS
<1> HIDE DEF node, g, c, next
<1>5. /\ FileOk(g) /\ Extends(g, file)
      /\ WriterOk(g, next, chain, <<c>>, 1)
      /\ \A y : UpTo(leaf, chain, <<>>, y) /\ (\A i \in DOMAIN next : next[i].key < y)
                        => UpTo(next, chain, <<c>>, y)
  BY <1>1, <1>2, <1>3, <1>4, WriteLeafKeeps
<1>6. Forest(file) /\ Forest(g) BY <1>2, <1>5 DEF FileOk
<1>7. c.page \notin DOMAIN file /\ IsLeaf(g, c.page)
  <2>1. c.page = NextPage(file) /\ NextPage(file) \notin DOMAIN file
    BY <1>6, NextPageFacts DEF c, LeafForParent
  <2>2. ItemOk(g, 1, c) BY <1>5 DEF WriterOk, HandOk
  <2>3. IsNode(g, c.page) /\ g[c.page].depth = 0 /\ c.page \in DOMAIN g
    BY <2>2 DEF ItemOk, AgreesWith
  <2> QED BY <2>1, <2>3, NodeFacts
<1>8. AllClean(file', promoted, hand')
  <2>1. DOMAIN hand' = {1} /\ hand'[1] = c BY <1>1
  <2>2. Clean(g, promoted, c.page) BY <1>6, <1>7, NewLeafClean DEF SInv, CleanOk, IsLeaf
  <2> QED BY <1>1, <2>1, <2>2 DEF AllClean
<1>9. LevelsClean(file', promoted, chain')
  <2>1. \A d \in DOMAIN chain : ItemsOk(file, d, chain[d]) /\ AllClean(file, promoted, chain[d])
    BY <1>2 DEF WriterOk, LevelsOk, LevelOk, SInv, CleanOk, LevelsClean
  <2>2. \A d \in DOMAIN chain : AllClean(g, promoted, chain[d]) BY <1>5, <1>6, <2>1, CleanStays
  <2>3. chain' = chain BY <1>1
  <2> QED BY <1>1, <2>2, <2>3 DEF LevelsClean
<1>10. FileOk(file') /\ Extends(file', file) /\ WritingOk'
  <2>1. chain' = chain BY <1>1
  <2> QED BY <1>1, <1>5, <2>1 DEF WritingOk
<1>11. \A y \in Int : UpTo(leaf, chain, hand, y) => UpTo(leaf', chain', hand', y)
  BY <1>1, <1>3, <1>5
<1>12. phase \notin {"idle", "prepared"} /\ Len(chain') >= Len(chain)
  <2>1. Len(chain) \in Nat /\ chain' = chain BY <1>1, <1>2 DEF WriterOk, LevelsOk
  <2> QED BY <1>1, <2>1, Busy
<1> QED BY <1>1, <1>8, <1>9, <1>10, <1>11, <1>12, WriterMoves

-----------------------------------------------------------------------------
(* The steps that take pairs.                                              *)

\* Whether the writer takes a pair or not, its lists stay in order, and before what follows.
LEMMA TakesFacts ==
    ASSUME SInv, hand = <<>>, chain' = chain, NEW p, Takes(p)
    PROVE  /\ FileOk(file') /\ Extends(file', file) /\ WritingOk'
           /\ \A y \in Int : UpTo(leaf, chain, <<>>, y) /\ p.key < y => UpTo(leaf', chain', hand', y)
           /\ LevelsClean(file', promoted, chain') /\ AllClean(file', promoted, hand')
<1>1. FileOk(file) /\ WriterOk(file, leaf, chain, <<>>, level) BY DEF SInv, WritingOk
<1>2. CASE PutPair(p) /\ PairOk(file, p) /\ UpTo(leaf, chain, <<>>, p.key)
  <2>1. /\ FileOk(file') /\ Extends(file', file)
        /\ WriterOk(file', leaf', chain, hand', level')
        /\ \A y \in Int : UpTo(leaf, chain, <<>>, y) /\ p.key < y => UpTo(leaf', chain, hand', y)
        /\ \A i \in DOMAIN hand' : hand'[i].page \notin DOMAIN file /\ IsLeaf(file', hand'[i].page)
    BY <1>1, <1>2, PutPairKeeps
  <2>2. Forest(file) /\ Forest(file') BY <1>1, <2>1 DEF FileOk
  <2>3. LevelsClean(file', promoted, chain)
    <3>1. \A d \in DOMAIN chain : ItemsOk(file, d, chain[d]) /\ AllClean(file, promoted, chain[d])
      BY <1>1 DEF WriterOk, LevelsOk, LevelOk, SInv, CleanOk, LevelsClean
    <3> QED BY <2>1, <2>2, <3>1, CleanStays DEF LevelsClean
  <2>4. AllClean(file', promoted, hand')
    <3> SUFFICES ASSUME NEW i \in DOMAIN hand'
                 PROVE  Clean(file', promoted, hand'[i].page)
      BY DEF AllClean
    <3>1. hand'[i].page \notin promoted BY <2>1 DEF SInv, CleanOk, IsLeaf
    <3> QED BY <2>1, <2>2, <3>1, NewLeafClean
  <2> QED BY <2>1, <2>3, <2>4 DEF WritingOk
<1>3. CASE UNCHANGED <<file, leaf, hand, level>> BY <1>1, <1>3 DEF WritingOk, Extends, SInv, CleanOk
<1> QED BY <1>2, <1>3 DEF Takes

\* What holds after a pair was taken.
LEMMA PairsMove ==
    ASSUME SInv, Ready, NEW p, Takes(p), PhaseOk',
           SourcesOk(file, pairs', reading', todo), Follow(file, p.key, pairs', reading', todo),
           UpToSources(file, pairs', reading', todo, leaf, chain, <<>>),
           freed \subseteq freed', phase = "merge" => promoted \cap freed' = {},
           UNCHANGED <<segments, phase, todo, keep, chain, promoted, pending>>
    PROVE  SInv'
<1>1. UNCHANGED <<upper, lower, phase, todo, keep, chain, promoted, pending>> BY DEF segments
<1>2. hand = <<>> /\ keep = 0 BY DEF Ready
<1>3. /\ FileOk(file') /\ Extends(file', file) /\ WritingOk'
      /\ \A y \in Int : UpTo(leaf, chain, <<>>, y) /\ p.key < y => UpTo(leaf', chain', hand', y)
      /\ LevelsClean(file', promoted, chain') /\ AllClean(file', promoted, hand')
  BY <1>1, <1>2, TakesFacts
<1>4. Forest(file) /\ Forest(file') /\ FileOk(file) BY <1>3 DEF SInv, FileOk
<1>5. RootsOk' BY <1>1, <1>3, RootsStay DEF SInv
<1>6. ReadingOk' BY <1>1, <1>3, <1>4, SourcesStay DEF ReadingOk
<1>7. KeepOk' BY <1>1, <1>2 DEF KeepOk
<1>8. InOrder'
  <2>1. /\ \A q \in pairs' : q.key \in Int
        /\ \A i \in DOMAIN reading' : reading'[i].key \in Int
        /\ \A d \in DOMAIN todo : \A i \in DOMAIN todo[d] :
              \A m \in KeysUnder(file, todo[d][i].page) : m \in Int
    BY <1>4, KeysToCome
  <2>2. UpToPairs(pairs', leaf', chain', hand') /\ UpToReading(reading', leaf', chain', hand')
    BY <1>3, <2>1 DEF Follow, UpToSources, UpToPairs, UpToReading
  <2>3. UpToTodo(file, todo, leaf', chain', hand') BY <1>3, <2>1 DEF Follow, UpToSources, UpToTodo
  <2>4. UpToTodo(file', todo, leaf', chain', hand') BY <1>3, <1>4, <2>3, SourcesStay
  <2> QED BY <1>1, <2>2, <2>4 DEF InOrder, UpToSources
<1>9. CleanOk'
  <2>1. phase = "merge" => LevelsClean(file', promoted, todo)
    <3>1. \A d \in DOMAIN todo : ItemsOk(file, d, todo[d]) BY DEF SourcesOk, TodoOk
    <3> QED BY <1>3, <1>4, <3>1, CleanStays DEF SInv, CleanOk, LevelsClean
  <2>2. RootClean(file', promoted, pending.upper) /\ RootClean(file', promoted, pending.lower)
    BY <1>3, <1>4, CleanStays DEF SInv, CleanOk, RootsOk
  <2>3. \A q \in promoted : IsLeaf(file', q) BY <1>3, <1>4, CleanStays DEF SInv, CleanOk
  <2> QED BY <1>1, <1>3, <2>1, <2>2, <2>3 DEF SInv, CleanOk
<1>10. writes' \in Nat BY DEF SInv, segments
<1> QED BY <1>3, <1>5, <1>6, <1>7, <1>8, <1>9, <1>10 DEF SInv

\* What is left of the pairs when the next one is taken.
LEMMA PairsLeft ==
    ASSUME NEW f, SourceOk(f, pairs), pairs # {}
    PROVE  /\ SourceOk(f, pairs \ {NextPair}) /\ PairOk(f, NextPair)
           /\ \A q \in pairs \ {NextPair} : NextPair.key < q.key
<1>1. NextPair \in pairs /\ \A q \in pairs : q # NextPair => NextPair.key < q.key BY NextPairFacts
<1>2. IsFiniteSet(pairs \ {NextPair}) BY FS_Difference DEF SourceOk
<1> QED BY <1>1, <1>2 DEF SourceOk

\* And what is left of the leaf that is rewritten: it follows its first pair.
LEMMA ReadingLeft ==
    ASSUME NEW f, FileOk(f), NEW ps, NEW rd, NEW td, SourcesOk(f, ps, rd, td), rd # <<>>
    PROVE  /\ PairOk(f, Head(rd)) /\ Head(rd).key \in Int /\ Head(rd) = rd[1] /\ 1 \in DOMAIN rd
           /\ PairsOk(f, Tail(rd)) /\ TodoOk(f, Tail(rd), td)
           /\ \A i \in DOMAIN Tail(rd) : Head(rd).key < Tail(rd)[i].key
           /\ \A i \in DOMAIN Tail(rd) : \E j \in DOMAIN rd : Tail(rd)[i] = rd[j]
           /\ \A d \in DOMAIN td : \A i \in DOMAIN td[d] :
                 \A m \in KeysUnder(f, td[d][i].page) : Head(rd).key < m
<1>1. PairsOk(f, rd) /\ TodoOk(f, rd, td) /\ rd \in Seq(PairRec) BY DEF SourcesOk, PairsOk
<1> DEFINE t == Tail(rd)
<1>2. Head(rd) = rd[1] /\ 1 \in DOMAIN rd
      /\ \A i \in DOMAIN t : t[i] = rd[i + 1] /\ i + 1 \in DOMAIN rd /\ 1 < i + 1
  BY <1>1, TailFacts
<1>3. PairOk(f, Head(rd)) /\ Head(rd).key \in Int
  <2>1. PairOk(f, Head(rd)) BY <1>1, <1>2 DEF PairsOk
  <2> QED BY <2>1, Fields, PairsAssumption DEF PairOk
<1>4. PairsOk(f, t) BY <1>1, PairsTail
<1> HIDE DEF t
<1>5. \A i \in DOMAIN t : Head(rd).key < t[i].key BY <1>1, <1>2 DEF PairsOk, Ascending
<1>6. \A d \in DOMAIN td : \A i \in DOMAIN td[d], j \in DOMAIN t : Before(f, t[j], td[d][i])
  BY <1>1, <1>2 DEF TodoOk
<1>7. TodoOk(f, t, td) BY <1>1, <1>6 DEF TodoOk
<1>8. \A d \in DOMAIN td : \A i \in DOMAIN td[d] :
                 \A m \in KeysUnder(f, td[d][i].page) : Head(rd).key < m
  BY <1>1, <1>2 DEF TodoOk, Before
<1>9. \A i \in DOMAIN t : \E j \in DOMAIN rd : t[i] = rd[j] BY <1>2
<1> QED BY <1>2, <1>3, <1>4, <1>5, <1>7, <1>8, <1>9 DEF t

\* TakePair.
LEMMA TakePairFacts ==
    ASSUME SInv, pairs # {}, hand = <<>>, TakePair
    PROVE  /\ Takes(NextPair) /\ pairs' = pairs \ {NextPair}
           /\ phase # "merge" => dropped' = dropped
<1>1. SourceOk(file, pairs) /\ UpToPairs(pairs, leaf, chain, <<>>)
  BY DEF SInv, ReadingOk, SourcesOk, InOrder, UpToSources
<1>2. PairOk(file, NextPair) /\ NextPair \in pairs BY <1>1, PairsLeft, NextPairFacts
<1>3. UpTo(leaf, chain, <<>>, NextPair.key) BY <1>1, <1>2 DEF UpToPairs
<1> QED BY <1>2, <1>3 DEF TakePair, Takes

\* SInv is kept when the pairs behind the last node are taken.
LEMMA TakeRestSound ==
    ASSUME SInv, TakeRest
    PROVE  SInv'
<1>1. /\ Ready /\ pairs # {} /\ reading = <<>> /\ AllEmpty(todo) /\ TakePair
      /\ UNCHANGED <<segments, phase, reading, todo, keep, chain, promoted, before, freed, refreed, pending>>
  BY DEF TakeRest
<1>2. hand = <<>> /\ keep = 0 /\ phase \in {"write", "merge", "survivors"} BY <1>1 DEF Ready
<1>3. SourcesOk(file, pairs, reading, todo) /\ SourceOk(file, pairs)
  BY DEF SInv, ReadingOk, SourcesOk
<1>4. Takes(NextPair) /\ pairs' = pairs \ {NextPair} /\ (phase # "merge" => dropped' = dropped)
  BY <1>1, <1>2, TakePairFacts
<1>5. SourceOk(file, pairs') /\ \A q \in pairs' : NextPair.key < q.key
  BY <1>1, <1>3, <1>4, PairsLeft
<1>6. SourcesOk(file, pairs', reading', todo) BY <1>1, <1>3, <1>5 DEF SourcesOk
<1>7. Follow(file, NextPair.key, pairs', reading', todo) BY <1>1, <1>5 DEF Follow, AllEmpty
<1>8. UpToSources(file, pairs', reading', todo, leaf, chain, <<>>)
  BY <1>1, <1>2, <1>4 DEF SInv, InOrder, UpToSources, UpToPairs
<1>9. PhaseOk' BY <1>1, <1>2, <1>4 DEF SInv, PhaseOk, Unmerged, segments
<1>10. freed \subseteq freed' /\ (phase = "merge" => promoted \cap freed' = {})
  BY <1>1 DEF SInv, CleanOk
<1> QED BY <1>1, <1>4, <1>6, <1>7, <1>8, <1>9, <1>10, PairsMove

\* SInv is kept when pairs between two nodes are taken.
LEMMA TakeBetweenSound ==
    ASSUME SInv, TakeBetween
    PROVE  SInv'
<1>1. /\ Ready /\ reading # <<>> /\ pairs # {} /\ NextPair.key < Head(reading).key /\ TakePair
      /\ UNCHANGED <<segments, phase, reading, todo, keep, chain, promoted, before, freed, refreed, pending>>
  BY DEF TakeBetween, Merging
<1>2. hand = <<>> /\ keep = 0 /\ phase \in {"write", "merge", "survivors"} BY <1>1 DEF Ready
<1>3. SourcesOk(file, pairs, reading, todo) /\ SourceOk(file, pairs) /\ FileOk(file)
  BY DEF SInv, ReadingOk, SourcesOk
<1>4. Takes(NextPair) /\ pairs' = pairs \ {NextPair} /\ (phase # "merge" => dropped' = dropped)
  BY <1>1, <1>2, TakePairFacts
<1>5. SourceOk(file, pairs') /\ \A q \in pairs' : NextPair.key < q.key
  BY <1>1, <1>3, <1>4, PairsLeft
<1>6. SourcesOk(file, pairs', reading', todo) BY <1>1, <1>3, <1>5 DEF SourcesOk
<1>7. Follow(file, NextPair.key, pairs', reading', todo)
  <2>1. NextPair.key \in Int BY <1>1, <1>3, NextPairFacts
  <2>2. Head(reading).key \in Int /\ Head(reading) = reading[1] /\ 1 \in DOMAIN reading
    BY <1>1, <1>3, ReadingLeft
  <2>3. \A d \in DOMAIN todo : \A i \in DOMAIN todo[d] :
                 \A m \in KeysUnder(file, todo[d][i].page) : Head(reading).key < m /\ m \in Int
    BY <1>1, <1>3, ReadingLeft, KeysToCome
  <2>4. \A i \in DOMAIN reading : reading[i].key \in Int /\ Head(reading).key <= reading[i].key
    <3> TAKE i \in DOMAIN reading
    <3>1. reading[i].key \in Int BY <1>3, KeysToCome
    <3>2. i = 1 \/ 1 < i BY <1>3 DEF SourcesOk, PairsOk
    <3> QED BY <1>3, <2>2, <3>1, <3>2 DEF SourcesOk, PairsOk, Ascending
  <2>5. \A i \in DOMAIN reading : NextPair.key < reading[i].key BY <1>1, <2>1, <2>2, <2>4
  <2>6. \A d \in DOMAIN todo : \A i \in DOMAIN todo[d] :
                 \A m \in KeysUnder(file, todo[d][i].page) : NextPair.key < m
    BY <1>1, <2>1, <2>2, <2>3
  <2> QED BY <1>1, <1>5, <2>5, <2>6 DEF Follow
<1>8. UpToSources(file, pairs', reading', todo, leaf, chain, <<>>)
  BY <1>1, <1>2, <1>4 DEF SInv, InOrder, UpToSources, UpToPairs
<1>9. PhaseOk' BY <1>1, <1>2, <1>4 DEF SInv, PhaseOk, Unmerged, segments
<1>10. freed \subseteq freed' /\ (phase = "merge" => promoted \cap freed' = {})
  BY <1>1 DEF SInv, CleanOk
<1> QED BY <1>1, <1>4, <1>6, <1>7, <1>8, <1>9, <1>10, PairsMove

\* SInv is kept when a pair takes the place of one with the same key, or drops it.
LEMMA ReplaceSound ==
    ASSUME SInv, Replace
    PROVE  SInv'
<1>1. /\ Ready /\ reading # <<>> /\ pairs # {} /\ NextPair.key = Head(reading).key /\ TakePair
      /\ reading' = Tail(reading) /\ freed' = freed \cup Overflows(0, Head(reading))
      /\ UNCHANGED <<segments, phase, todo, keep, chain, promoted, before, pending>>
  BY DEF Replace, Merging, Shadow, Free
<1>2. hand = <<>> /\ keep = 0 /\ phase \in {"write", "merge", "survivors"} BY <1>1 DEF Ready
<1>3. SourcesOk(file, pairs, reading, todo) /\ SourceOk(file, pairs) /\ FileOk(file)
  BY DEF SInv, ReadingOk, SourcesOk
<1>4. Takes(NextPair) /\ pairs' = pairs \ {NextPair} /\ (phase # "merge" => dropped' = dropped)
  BY <1>1, <1>2, TakePairFacts
<1>5. SourceOk(file, pairs') /\ \A q \in pairs' : NextPair.key < q.key
  BY <1>1, <1>3, <1>4, PairsLeft
<1> DEFINE t == Tail(reading)
           p == Head(reading)
<1>c. reading # <<>> BY <1>1
<1>a. /\ PairOk(file, p) /\ p.key \in Int /\ p = reading[1] /\ 1 \in DOMAIN reading
      /\ PairsOk(file, t) /\ TodoOk(file, t, todo)
      /\ \A i \in DOMAIN t : p.key < t[i].key
      /\ \A i \in DOMAIN t : \E j \in DOMAIN reading : t[i] = reading[j]
      /\ \A d \in DOMAIN todo : \A i \in DOMAIN todo[d] :
            \A m \in KeysUnder(file, todo[d][i].page) : p.key < m
  BY <1>c, <1>3, ReadingLeft
<1>b. reading' = t BY <1>1
<1> HIDE DEF t
<1>6. /\ PairOk(file, Head(reading))
      /\ PairsOk(file, reading') /\ TodoOk(file, reading', todo)
      /\ \A i \in DOMAIN reading' : Head(reading).key < reading'[i].key
      /\ \A i \in DOMAIN reading' : \E j \in DOMAIN reading : reading'[i] = reading[j]
      /\ \A d \in DOMAIN todo : \A i \in DOMAIN todo[d] :
            \A m \in KeysUnder(file, todo[d][i].page) : Head(reading).key < m
  BY <1>a, <1>b
<1>7. SourcesOk(file, pairs', reading', todo) BY <1>5, <1>6 DEF SourcesOk
<1>8. Follow(file, NextPair.key, pairs', reading', todo) BY <1>1, <1>5, <1>6 DEF Follow
<1>9. UpToSources(file, pairs', reading', todo, leaf, chain, <<>>)
  <2>1. UpToReading(reading', leaf, chain, <<>>)
    BY <1>2, <1>6 DEF SInv, InOrder, UpToSources, UpToReading
  <2> QED BY <1>2, <1>4, <2>1 DEF SInv, InOrder, UpToSources, UpToPairs
<1>10. phase = "merge" BY <1>1, <1>2 DEF SInv, PhaseOk
<1>11. PhaseOk' BY <1>1, <1>2, <1>4, <1>10 DEF SInv, PhaseOk, Unmerged, segments
<1>12. freed \subseteq freed' /\ promoted \cap freed' = {}
  <2>1. \A q \in Overflows(0, Head(reading)) : IsOverflow(file, q)
    BY <1>6 DEF PairOk, Overflows, PageOf
  <2>2. \A q \in promoted : ~IsOverflow(file, q)
    BY DEF SInv, CleanOk, IsLeaf, LeafNode, IsOverflow, Overflow
  <2> QED BY <1>1, <1>10, <2>1, <2>2 DEF SInv, CleanOk
<1> QED BY <1>1, <1>4, <1>7, <1>8, <1>9, <1>11, <1>12, PairsMove

\* SInv is kept when a pair of a leaf is written again.
LEMMA KeepPairSound ==
    ASSUME SInv, KeepPair
    PROVE  SInv'
<1> DEFINE p == Head(reading)
<1>1. /\ Ready /\ reading # <<>> /\ (pairs # {} => p.key < NextPair.key) /\ PutPair(p)
      /\ reading' = Tail(reading)
      /\ UNCHANGED <<segments, phase, pairs, todo, keep, chain, merge>>
  BY DEF KeepPair, Merging
<1>2. hand = <<>> /\ keep = 0 /\ phase \in {"write", "merge", "survivors"} BY <1>1 DEF Ready
<1>3. SourcesOk(file, pairs, reading, todo) /\ SourceOk(file, pairs) /\ FileOk(file)
  BY DEF SInv, ReadingOk, SourcesOk
<1> DEFINE t == Tail(reading)
<1>a. /\ PairOk(file, p) /\ p.key \in Int /\ p = reading[1] /\ 1 \in DOMAIN reading
      /\ PairsOk(file, t) /\ TodoOk(file, t, todo)
      /\ \A i \in DOMAIN t : p.key < t[i].key
      /\ \A i \in DOMAIN t : \E j \in DOMAIN reading : t[i] = reading[j]
      /\ \A d \in DOMAIN todo : \A i \in DOMAIN todo[d] :
            \A m \in KeysUnder(file, todo[d][i].page) : p.key < m
  BY <1>1, <1>3, ReadingLeft
<1>b. reading' = t BY <1>1
<1> HIDE DEF t
<1>4. /\ PairOk(file, p) /\ p.key \in Int /\ p = reading[1] /\ 1 \in DOMAIN reading
      /\ PairsOk(file, reading') /\ TodoOk(file, reading', todo)
      /\ \A i \in DOMAIN reading' : p.key < reading'[i].key
      /\ \A i \in DOMAIN reading' : \E j \in DOMAIN reading : reading'[i] = reading[j]
      /\ \A d \in DOMAIN todo : \A i \in DOMAIN todo[d] :
            \A m \in KeysUnder(file, todo[d][i].page) : p.key < m
  BY <1>a, <1>b
<1> HIDE DEF p
<1>5. Takes(p)
  <2>1. UpTo(leaf, chain, <<>>, p.key) BY <1>2, <1>4 DEF SInv, InOrder, UpToSources, UpToReading
  <2> QED BY <1>1, <1>4, <2>1 DEF Takes
<1>6. pairs' = pairs BY <1>1
<1>7. SourcesOk(file, pairs', reading', todo) BY <1>3, <1>4, <1>6 DEF SourcesOk
<1>8. \A q \in pairs : p.key < q.key
  <2> TAKE q \in pairs
  <2>1. p.key < NextPair.key /\ NextPair.key <= q.key /\ NextPair.key \in Int
    BY <1>1, <1>3, NextPairFacts
  <2>2. q.key \in Int BY <1>3, KeysToCome
  <2> QED BY <1>4, <2>1, <2>2
<1>9. Follow(file, p.key, pairs', reading', todo) BY <1>4, <1>6, <1>8 DEF Follow
<1>10. UpToSources(file, pairs', reading', todo, leaf, chain, <<>>)
  <2>1. UpToReading(reading', leaf, chain, <<>>)
    BY <1>2, <1>4 DEF SInv, InOrder, UpToSources, UpToReading
  <2> QED BY <1>2, <1>6, <2>1 DEF SInv, InOrder, UpToSources
<1>11. phase = "merge" BY <1>1, <1>2 DEF SInv, PhaseOk
<1>12. PhaseOk' BY <1>1, <1>2, <1>11 DEF SInv, PhaseOk, Unmerged, segments, merge
<1>13. freed \subseteq freed' /\ (phase = "merge" => promoted \cap freed' = {})
       /\ UNCHANGED <<segments, phase, todo, keep, chain, promoted, pending>>
  BY <1>1 DEF SInv, CleanOk, merge
<1> QED BY <1>1, <1>5, <1>7, <1>9, <1>10, <1>12, <1>13, PairsMove

-----------------------------------------------------------------------------
(* The steps that keep or rewrite nodes.                                   *)

\* What is at hand when there are items left.
LEMMA WalkFacts ==
    ASSUME SInv, ~AllEmpty(todo)
    PROVE  /\ todo \in Seq(Seq(ItemRec)) /\ Depth \in DOMAIN todo /\ Depth \in Nat \ {0}
           /\ todo[Depth] # <<>> /\ todo[Depth] \in Seq(ItemRec) /\ ItemsOk(file, Depth, todo[Depth])
           /\ 1 \in DOMAIN todo[Depth] /\ Item = todo[Depth][1] /\ ItemOk(file, Depth, Item)
           /\ Item.key \in Int /\ Item.page \in DOMAIN file
           /\ \A e \in DOMAIN todo : e < Depth => todo[e] = <<>>
           /\ phase \in {"merge", "survivors"}
<1>1. todo \in Seq(Seq(ItemRec)) /\ \A d \in DOMAIN todo : ItemsOk(file, d, todo[d])
  BY DEF SInv, ReadingOk, SourcesOk, TodoOk
<1>2. Depth \in DOMAIN todo /\ Depth \in Nat \ {0} /\ todo[Depth] # <<>>
      /\ \A e \in DOMAIN todo : e < Depth => todo[e] = <<>>
  BY <1>1, LowestFacts DEF Depth
<1>3. ItemsOk(file, Depth, todo[Depth]) /\ todo[Depth] \in Seq(ItemRec) BY <1>1, <1>2 DEF ItemsOk
<1>4. 1 \in DOMAIN todo[Depth] /\ Item = todo[Depth][1] BY <1>2, <1>3, TailFacts DEF Item
<1>5. ItemOk(file, Depth, Item) BY <1>3, <1>4 DEF ItemsOk
<1>6. Item.key \in Int /\ Item.page \in DOMAIN file
  BY <1>5, ItemKeys DEF SInv, ItemOk, IsNode, IsLeaf, IsInner
<1>7. phase \in {"merge", "survivors"}
  <2>1. AllEmpty(<<>>) BY DEF AllEmpty
  <2> QED BY <2>1 DEF SInv, PhaseOk
<1> QED BY <1>1, <1>2, <1>3, <1>4, <1>5, <1>6, <1>7

\* What is left when the next item has been dealt with follows it.
LEMMA PastFacts ==
    ASSUME SInv, ~AllEmpty(todo), NEW td, td = Past
    PROVE  /\ td \in Seq(Seq(ItemRec)) /\ DOMAIN td = DOMAIN todo /\ Len(td) = Len(todo)
           /\ td[Depth] = Tail(todo[Depth]) /\ \A d \in DOMAIN todo : d # Depth => td[d] = todo[d]
           /\ \A d \in DOMAIN td : ItemsOk(file, d, td[d])
           /\ \A d, e \in DOMAIN td : d < e =>
                 \A i \in DOMAIN td[d], j \in DOMAIN td[e] : Before(file, td[d][i], td[e][j])
           /\ \A d \in DOMAIN td : \A i \in DOMAIN td[d] : Before(file, Item, td[d][i])
           /\ \A d \in DOMAIN td : \A i \in DOMAIN td[d] : \E j \in DOMAIN todo[d] : td[d][i] = todo[d][j]
<1> DEFINE D == Depth
           s == todo[D]
           t == Tail(s)
<1>1. /\ todo \in Seq(Seq(ItemRec)) /\ D \in DOMAIN todo /\ D \in Nat \ {0}
      /\ s # <<>> /\ s \in Seq(ItemRec) /\ ItemsOk(file, D, s)
      /\ 1 \in DOMAIN s /\ Item = s[1] /\ ItemOk(file, D, Item)
      /\ \A e \in DOMAIN todo : e < D => todo[e] = <<>>
  BY WalkFacts
<1>2. /\ t \in Seq(ItemRec)
      /\ \A i \in DOMAIN t : t[i] = s[i + 1] /\ i + 1 \in DOMAIN s /\ 1 < i + 1
  BY <1>1, TailFacts
<1>3. td = [todo EXCEPT ![D] = t] BY DEF Past
<1>4. ItemsOk(file, D, t) BY <1>1, ItemsTail
<1>5. TodoOk(file, reading, todo) BY DEF SInv, ReadingOk, SourcesOk
<1> HIDE DEF D, s, t
<1>6. /\ td \in Seq(Seq(ItemRec)) /\ DOMAIN td = DOMAIN todo /\ Len(td) = Len(todo)
      /\ td[D] = t /\ \A d \in DOMAIN todo : d # D => td[d] = todo[d]
  BY <1>1, <1>2, <1>3, LevelChanged
<1>7. \A d \in DOMAIN td : ItemsOk(file, d, td[d]) BY <1>4, <1>5, <1>6 DEF TodoOk
<1>8. s = todo[D] BY DEF s
<1>9. \A d \in DOMAIN td : \A i \in DOMAIN td[d] : \E j \in DOMAIN todo[d] : td[d][i] = todo[d][j]
  BY <1>2, <1>6, <1>8
<1>10. \A d, e \in DOMAIN td : d < e =>
         \A i \in DOMAIN td[d], j \in DOMAIN td[e] : Before(file, td[d][i], td[e][j])
  <2> TAKE d, e \in DOMAIN td
  <2> HAVE d < e
  <2> TAKE i \in DOMAIN td[d], j \in DOMAIN td[e]
  <2>1. PICK i1 \in DOMAIN todo[d] : td[d][i] = todo[d][i1] BY <1>9
  <2>2. PICK j1 \in DOMAIN todo[e] : td[e][j] = todo[e][j1] BY <1>9
  <2> QED BY <1>5, <1>6, <2>1, <2>2 DEF TodoOk
<1>11. \A d \in DOMAIN td : \A i \in DOMAIN td[d] : Before(file, Item, td[d][i])
  <2> TAKE d \in DOMAIN td
  <2> TAKE i \in DOMAIN td[d]
  <2>1. CASE d = D BY <1>1, <1>2, <1>6, <2>1 DEF ItemsOk
  <2>2. CASE d # D
    <3>1. td[d] = todo[d] /\ d \in DOMAIN todo BY <1>6, <2>2
    <3>2. d \in Nat /\ D \in Nat BY <1>1, <3>1
    <3>3. D < d
      <4>1. ~(d < D) BY <1>1, <3>1
      <4> QED BY <2>2, <3>2, <4>1
    <3> QED BY <1>1, <1>5, <1>8, <3>1, <3>3 DEF TodoOk
  <2> QED BY <2>1, <2>2
<1> QED BY <1>6, <1>7, <1>9, <1>10, <1>11 DEF D, s, t

\* So it is what may be left to do.
LEMMA PastSound ==
    ASSUME SInv, ~AllEmpty(todo), reading = <<>>, NEW td, td = Past
    PROVE  /\ SourcesOk(file, pairs, reading, td)
           /\ UpToSources(file, pairs, reading, td, leaf, chain, hand)
           /\ phase = "merge" => LevelsClean(file, promoted, td)
<1>1. /\ td \in Seq(Seq(ItemRec))
      /\ \A d \in DOMAIN td : ItemsOk(file, d, td[d])
      /\ \A d, e \in DOMAIN td : d < e =>
            \A i \in DOMAIN td[d], j \in DOMAIN td[e] : Before(file, td[d][i], td[e][j])
      /\ DOMAIN td = DOMAIN todo
      /\ \A d \in DOMAIN td : \A i \in DOMAIN td[d] : \E j \in DOMAIN todo[d] : td[d][i] = todo[d][j]
  BY PastFacts
<1>2. TodoOk(file, reading, td) BY <1>1 DEF TodoOk
<1>3. UpToTodo(file, td, leaf, chain, hand) BY <1>1 DEF SInv, InOrder, UpToSources, UpToTodo
<1>4. phase = "merge" => LevelsClean(file, promoted, td)
  BY <1>1 DEF SInv, CleanOk, LevelsClean, AllClean
<1> QED BY <1>2, <1>3, <1>4 DEF SInv, ReadingOk, SourcesOk, InOrder, UpToSources

\* A step that writes nothing and takes items.
LEMMA WalkMoves ==
    ASSUME SInv, PhaseOk', KeepOk', SourcesOk(file, pairs, reading', todo'),
           UpToSources(file, pairs, reading', todo', leaf, chain, hand),
           phase = "merge" => LevelsClean(file, promoted, todo'),
           freed \subseteq freed', phase = "merge" => promoted \cap freed' = {},
           UNCHANGED <<file, segments, phase, pairs, writer, promoted, dropped, pending>>
    PROVE  SInv'
<1>1. UNCHANGED <<file, upper, lower, phase, pairs, leaf, chain, hand, level, promoted, pending>>
  BY DEF segments, writer
<1>2. FileOk(file)' /\ RootsOk' /\ WritingOk' /\ ReadingOk' /\ InOrder'
  BY <1>1 DEF SInv, RootsOk, WritingOk, ReadingOk, InOrder
<1>3. CleanOk' BY <1>1 DEF SInv, CleanOk
<1>4. writes' \in Nat BY DEF SInv, segments
<1> QED BY <1>2, <1>3, <1>4 DEF SInv

\* SInv is kept when the survivors pass a promoted leaf.
LEMMA SkipLeafSound ==
    ASSUME SInv, SkipLeaf
    PROVE  SInv'
<1>1. /\ Ready /\ reading = <<>> /\ ~AllEmpty(todo) /\ todo' = Past /\ phase = "survivors"
      /\ UNCHANGED <<file, segments, phase, pairs, reading, keep, writer, merge>>
  BY DEF SkipLeaf, Walking
<1>2. UNCHANGED <<file, upper, lower, phase, pairs, reading, leaf, chain, hand, level, keep,
                  promoted, freed, dropped, pending>>
  BY <1>1 DEF segments, writer, merge
<1>3. SourcesOk(file, pairs, reading', todo')
      /\ UpToSources(file, pairs, reading', todo', leaf, chain, hand)
  BY <1>1, <1>2, PastSound
<1>4. PhaseOk' BY <1>1, <1>2 DEF SInv, PhaseOk
<1>5. KeepOk' BY <1>1, <1>2 DEF Ready, KeepOk
<1> QED BY <1>1, <1>2, <1>3, <1>4, <1>5, WalkMoves

\* An item is kept as it is: its key is in the page of the new parent.
LEMMA AsItemFacts ==
    ASSUME NEW f, NEW d, NEW c, ItemOk(f, d, c), NEW b, b = AsItem(c)
    PROVE  ItemOk(f, d, b) /\ b.location # "owned" /\ b.key = c.key /\ b.page = c.page
<1>1. c \in ItemRec BY DEF ItemOk
<1>2. CASE c.location # "owned"
  <2>1. b = c BY <1>2 DEF AsItem
  <2> QED BY <1>2, <2>1
<1>3. CASE c.location = "owned"
  <2>1. b = [c EXCEPT !.location = "inline", !.overflow = NoPage] BY <1>3 DEF AsItem
  <2>2. /\ b \in ItemRec /\ b.page = c.page /\ b.key = c.key /\ b.location = "inline"
        /\ b.leaves = c.leaves /\ b.tombstones = c.tombstones
    <3> DEFINE e == [c EXCEPT !.location = "inline"]
    <3>1. /\ e \in ItemRec /\ e.page = c.page /\ e.key = c.key /\ e.location = "inline"
          /\ e.leaves = c.leaves /\ e.tombstones = c.tombstones
      BY <1>1 DEF ItemRec
    <3>2. b = [e EXCEPT !.overflow = NoPage] BY <2>1
    <3> HIDE DEF e
    <3> QED BY <3>1, <3>2 DEF ItemRec, NoPage
  <2> HIDE <2>1
  <2>3. AgreesWith(f, d, b) BY <1>3, <2>2 DEF ItemOk, AgreesWith, LastItem
  <2>4. /\ b.location # "borrowed" => Small(b.key) /\ (d = 1 => LastItem(f, b.page).keyPage = NoPage)
        /\ b.location # "owned"
    BY <1>3, <2>2 DEF ItemOk
  <2> QED BY <2>2, <2>3, <2>4 DEF ItemOk
<1> QED BY <1>2, <1>3

\* SInv is kept when a child becomes part of the new tree as it is.
LEMMA KeepChildSound ==
    ASSUME SInv, KeepChild
    PROVE  SInv'
<1> DEFINE b == AsItem(Item)
           D == Depth
<1>1. /\ keep > 0 /\ hand = <<>> /\ leaf = <<>> /\ \A d \in 1..(D - 1) : chain[d] = <<>>
      /\ hand' = <<b>> /\ level' = D /\ todo' = Past /\ keep' = keep - 1
      /\ UNCHANGED <<file, segments, phase, pairs, reading, leaf, chain, merge>>
  BY DEF KeepChild
<1>2. UNCHANGED <<file, upper, lower, phase, pairs, reading, leaf, chain, promoted, freed, dropped, pending>>
  BY <1>1 DEF segments, merge
<1>3. /\ keep \in Nat /\ phase \in {"merge", "survivors"} /\ reading = <<>> /\ ~AllEmpty(todo)
      /\ keep <= Len(todo[D]) /\ D <= Len(chain)
      /\ \A i \in 1..keep : pairs # {} => todo[D][i].key < NextPair.key
      /\ phase = "survivors" => keep = 1 /\ ~OnLineage(Item)
  BY <1>1 DEF SInv, KeepOk
<1>4. /\ todo \in Seq(Seq(ItemRec)) /\ D \in DOMAIN todo /\ D \in Nat \ {0}
      /\ todo[D] # <<>> /\ todo[D] \in Seq(ItemRec) /\ ItemsOk(file, D, todo[D])
      /\ 1 \in DOMAIN todo[D] /\ Item = todo[D][1] /\ ItemOk(file, D, Item)
      /\ Item.key \in Int /\ Item.page \in DOMAIN file
      /\ \A e \in DOMAIN todo : e < D => todo[e] = <<>>
  BY <1>3, WalkFacts
<1>5. ItemOk(file, D, b) /\ b.location # "owned" /\ b.key = Item.key /\ b.page = Item.page
  BY <1>4, AsItemFacts
<1>6. /\ FileOk(file) /\ LeafOk(file, leaf) /\ LevelsOk(file, leaf, chain) /\ ShortTop(chain)
  BY DEF SInv, WritingOk, WriterOk
<1>7. chain \in Seq(Seq(ItemRec)) /\ D \in DOMAIN chain BY <1>3, <1>4, <1>6 DEF LevelsOk
<1> HIDE DEF b, D
<1>8. D = Depth BY DEF D
<1>9. HandOk(file, leaf, chain, b, D)
  <2>1. \A k \in KeysUnder(file, Item.page) : UpTo(leaf, chain, hand, k)
    BY <1>4, <1>8 DEF SInv, InOrder, UpToSources, UpToTodo
  <2>2. \A d \in DOMAIN chain : \A i \in DOMAIN chain[d] : Before(file, chain[d][i], b)
    BY <1>5, <2>1 DEF UpTo, Before
  <2>3. \A d \in DOMAIN chain : d < D => chain[d] = <<>> BY <1>1, <1>4, <1>7
  <2>4. \A j \in DOMAIN leaf : b.key < leaf[j].key BY <1>1
  <2> QED BY <1>5, <1>7, <2>2, <2>3, <2>4 DEF HandOk
<1>10. WritingOk'
  <2>1. WriterOk(file, leaf, chain, <<b>>, D) BY <1>6, <1>9 DEF WriterOk
  <2> QED BY <1>1, <1>2, <2>1 DEF WritingOk
<1>11. SourcesOk(file, pairs, reading, todo') /\ UpToSources(file, pairs, reading, todo', leaf, chain, hand)
       /\ (phase = "merge" => LevelsClean(file, promoted, todo'))
  BY <1>1, <1>3, PastSound
<1>12. ReadingOk' BY <1>2, <1>11 DEF ReadingOk
<1>13. UpToSources(file, pairs, reading, todo', leaf, chain, <<b>>)
  <2>1. \A y : UpTo(leaf, chain, hand, y) /\ Item.key < y => UpTo(leaf, chain, <<b>>, y)
    BY <1>5 DEF UpTo
  <2>2. \A d \in DOMAIN todo' : \A i \in DOMAIN todo'[d] : Before(file, Item, todo'[d][i])
    BY <1>1, <1>3, PastFacts
  <2>3. UpToTodo(file, todo', leaf, chain, <<b>>)
    BY <1>11, <2>1, <2>2 DEF UpToSources, UpToTodo, Before
  <2>4. \A p \in pairs : Item.key < p.key
    <3> TAKE p \in pairs
    <3>1. 1 \in 1..keep /\ pairs # {} BY <1>1, <1>3
    <3>2. Item.key < NextPair.key BY <1>3, <1>4, <3>1
    <3>3. SourceOk(file, pairs) BY <1>11 DEF SourcesOk
    <3>4. NextPair.key <= p.key /\ NextPair.key \in Int BY <3>1, <3>3, NextPairFacts
    <3>5. p.key \in Int BY <1>6, <1>11, KeysToCome
    <3> QED BY <1>4, <3>2, <3>4, <3>5
  <2>5. UpToPairs(pairs, leaf, chain, <<b>>) BY <1>11, <2>1, <2>4 DEF UpToSources, UpToPairs
  <2>6. UpToReading(reading, leaf, chain, <<b>>) BY <1>3 DEF UpToReading
  <2> QED BY <2>3, <2>5, <2>6 DEF UpToSources
<1>14. InOrder' BY <1>1, <1>2, <1>13 DEF InOrder
<1>15. PhaseOk' BY <1>2, <1>3 DEF SInv, PhaseOk
<1>16. KeepOk'
  <2>1. CASE keep = 1 BY <1>1, <2>1 DEF KeepOk
  <2>2. CASE keep > 1
    <3>1. phase = "merge" BY <1>3, <2>2
    <3>2. /\ todo' \in Seq(Seq(ItemRec)) /\ DOMAIN todo' = DOMAIN todo
          /\ todo'[D] = Tail(todo[D]) /\ \A d \in DOMAIN todo : d # D => todo'[d] = todo[d]
      BY <1>1, <1>3, <1>8, PastFacts
    <3>3. /\ Len(todo'[D]) = Len(todo[D]) - 1 /\ Len(todo[D]) \in Nat
          /\ \A i \in 1..Len(todo[D]) - 1 : todo'[D][i] = todo[D][i + 1]
      BY <1>4, <3>2, TailFacts
    <3>4. todo'[D] # <<>> BY <1>3, <2>2, <3>3
    <3>5. \A e \in DOMAIN todo' : e < D => todo'[e] = <<>> BY <1>4, <3>2
    <3>6. ~AllEmpty(todo') /\ Lowest(todo') = D BY <1>4, <3>2, <3>4, <3>5, LowestIs
    <3>7. Depth' = D BY <3>6 DEF Depth
    <3>8. \A i \in 1..keep - 1 : pairs # {} => todo'[D][i].key < NextPair.key
      <4> TAKE i \in 1..keep - 1
      <4>1. i \in 1..Len(todo[D]) - 1 /\ i + 1 \in 1..keep BY <1>3, <3>3
      <4> QED BY <1>3, <3>3, <4>1
    <3>9. keep - 1 <= Len(todo'[D]) /\ keep - 1 \in Nat BY <1>3, <2>2, <3>3
    <3>10. NextPair' = NextPair BY <1>2 DEF NextPair
    <3> QED BY <1>1, <1>2, <1>3, <3>1, <3>6, <3>7, <3>8, <3>9, <3>10 DEF KeepOk
  <2> QED BY <1>1, <1>3, <2>1, <2>2
<1>17. CleanOk'
  <2>1. Clean(file, promoted, Item.page)
    <3>1. CASE phase = "merge" BY <1>4, <3>1 DEF SInv, CleanOk, LevelsClean, AllClean
    <3>2. CASE phase = "survivors" BY <1>3, <3>2 DEF OnLineage, Clean
    <3> QED BY <1>3, <3>1, <3>2
  <2>2. DOMAIN hand' = {1} /\ hand'[1] = b BY <1>1
  <2>3. AllClean(file, promoted, hand') BY <1>5, <2>1, <2>2 DEF AllClean
  <2> QED BY <1>2, <1>11, <2>3 DEF SInv, CleanOk
<1>18. RootsOk' /\ FileOk(file') BY <1>2 DEF SInv, RootsOk
<1>19. writes' \in Nat BY <1>1 DEF SInv, segments
<1> QED BY <1>10, <1>12, <1>14, <1>15, <1>16, <1>17, <1>18, <1>19 DEF SInv

\* The places in a list are numbers.
LEMMA ListDomain ==
    ASSUME NEW S, NEW s \in Seq(S), NEW i \in DOMAIN s
    PROVE  i \in Nat /\ i # 0
  OBVIOUS

\* How many children are kept.
LEMMA KeepableFacts ==
    ASSUME SInv, Walking, NEW n, n = Keepable(Depth, todo[Depth])
    PROVE  /\ n \in Nat /\ n <= Len(todo[Depth])
           /\ \A i \in 1..n : pairs # {} => todo[Depth][i].key < NextPair.key
           /\ phase = "survivors" /\ n > 0 => n = 1 /\ ~OnLineage(Item)
           /\ phase \in {"merge", "survivors"}
<1>1. ~AllEmpty(todo) BY DEF Walking
<1> DEFINE s == todo[Depth]
           N == Len(s)
<1>2. /\ s # <<>> /\ s \in Seq(ItemRec) /\ ItemsOk(file, Depth, s)
      /\ Item = Head(s) /\ phase \in {"merge", "survivors"}
  BY <1>1, WalkFacts DEF Item
<1>3. N \in Nat /\ 1 <= N /\ DOMAIN s = 1..N BY <1>2
<1>4. ASSUME phase = "survivors"
      PROVE  n = 0 \/ (n = 1 /\ ~OnLineage(Item))
  BY <1>2, <1>4 DEF Keepable
<1>5. phase = "survivors" => pairs = {} BY DEF SInv, PhaseOk
<1>6. ASSUME phase = "merge"
      PROVE  n \in Nat /\ n <= N /\ \A i \in 1..n : pairs # {} => s[i].key < NextPair.key
  <2>1. n = Recyclable(Depth, s) BY <1>6 DEF Keepable
  <2> DEFINE Stops(k) == /\ \A i \in 1..k : s[i].key < NextPair.key
                         /\ k < Len(s) => s[k + 1].key >= NextPair.key
             first == CHOOSE k \in 0..Len(s) : Stops(k)
  <2>2. n = 0 \/ (n = 1 /\ pairs = {}) \/ (n = first /\ pairs # {}) BY <2>1 DEF Recyclable
  <2>3. ASSUME pairs # {}
        PROVE  first \in 0..N /\ \A i \in 1..first : s[i].key < NextPair.key
    <3>1. NextPair.key \in Int BY <2>3, NextPairFacts DEF SInv, ReadingOk, SourcesOk
    <3>2. \A i \in 1..N : s[i].key \in Int BY <1>2, <1>3, ItemKeys DEF SInv, ItemsOk
    <3> DEFINE S == {k \in 0..N : k < N => s[k + 1].key >= NextPair.key}
    <3>3. N \in S /\ S \subseteq 0..N /\ S # {} BY <1>3
    <3>4. PICK k \in S : \A m \in 0..k - 1 : m \notin S
      <4>1. 0 \in Int /\ N \in Int BY <1>3
      <4> HIDE DEF S, N
      <4> QED BY <3>3, <4>1, LeastNumber
    <3>5. \A i \in 1..k : s[i].key < NextPair.key
      <4> TAKE i \in 1..k
      <4>1. i - 1 \in 0..k - 1 /\ i - 1 \in 0..N /\ i - 1 < N /\ i \in 1..N BY <1>3
      <4>2. ~(s[(i - 1) + 1].key >= NextPair.key) BY <3>4, <4>1
      <4>3. (i - 1) + 1 = i BY <4>1
      <4> QED BY <3>1, <3>2, <4>1, <4>2, <4>3
    <3>6. k \in 0..Len(s) /\ Stops(k) BY <3>5
    <3> QED BY <3>6
  <2> HIDE DEF first
  <2> QED BY <1>3, <2>2, <2>3
<1> QED BY <1>2, <1>3, <1>4, <1>5, <1>6

\* SInv is kept when it turns out how many children can be kept.
LEMMA RecycleChildrenSound ==
    ASSUME SInv, RecycleChildren
    PROVE  SInv'
<1> DEFINE D == Depth
<1>1. /\ Walking /\ keep' = Keepable(D, todo[D]) /\ keep' > 0 /\ chain' = Lengthened(D)
      /\ UNCHANGED <<file, segments, phase, pairs, reading, todo, leaf, hand, level, merge>>
  BY DEF RecycleChildren
<1>2. UNCHANGED <<file, upper, lower, phase, pairs, reading, todo, leaf, hand, level, promoted, freed,
                  dropped, pending>>
  BY <1>1 DEF segments, merge
<1>3. reading = <<>> /\ ~AllEmpty(todo) /\ hand = <<>> BY <1>1 DEF Walking, Ready
<1>4. D \in DOMAIN todo /\ D \in Nat \ {0} BY <1>3, WalkFacts
<1>5. /\ keep' \in Nat /\ keep' <= Len(todo[D])
      /\ \A i \in 1..keep' : pairs # {} => todo[D][i].key < NextPair.key
      /\ phase = "survivors" => keep' = 1 /\ ~OnLineage(Item)
      /\ phase \in {"merge", "survivors"}
  BY <1>1, KeepableFacts
<1> HIDE DEF D
<1>7. LevelsOk(file, leaf, chain) /\ ShortTop(chain) /\ LeafOk(file, leaf)
  BY DEF SInv, WritingOk, WriterOk
<1> DEFINE n == IF D > Len(chain) THEN D ELSE Len(chain)
<1>8. n \in Nat /\ n >= Len(chain) /\ D <= n BY <1>4, <1>7 DEF LevelsOk
<1>9. chain' = [d \in 1..n |-> IF d <= Len(chain) THEN chain[d] ELSE <<>>] BY <1>1 DEF Lengthened
<1> HIDE DEF n
<1>10. /\ LevelsOk(file, leaf, chain') /\ Len(chain') = n /\ ShortTop(chain')
       /\ \A d \in DOMAIN chain : chain'[d] = chain[d]
       /\ \A d \in DOMAIN chain' : d \notin DOMAIN chain => chain'[d] = <<>>
  BY <1>7, <1>8, <1>9, LevelsAdded
<1>11. WritingOk' BY <1>2, <1>3, <1>7, <1>10 DEF WritingOk, WriterOk
<1>12. \A y : UpTo(leaf, chain, hand, y) => UpTo(leaf, chain', hand, y) BY <1>10 DEF UpTo
<1>13. InOrder' BY <1>2, <1>12 DEF SInv, InOrder, UpToSources, UpToPairs, UpToReading, UpToTodo
<1>14. LevelsClean(file, promoted, chain') BY <1>10 DEF SInv, CleanOk, LevelsClean, AllClean
<1>15. CleanOk' BY <1>2, <1>14 DEF SInv, CleanOk
<1>16. PhaseOk' BY <1>2, <1>5 DEF SInv, PhaseOk
<1>17. KeepOk'
  <2>1. Depth' = Depth /\ NextPair' = NextPair /\ Item' = Item /\ Depth' = D
    BY <1>2 DEF Depth, NextPair, Item, D
  <2>2. ~OnLineage(Item) => ~OnLineage(Item)' BY <1>2, <2>1 DEF OnLineage
  <2> QED BY <1>2, <1>3, <1>5, <1>8, <1>10, <2>1, <2>2 DEF KeepOk
<1>18. RootsOk' /\ FileOk(file') /\ ReadingOk' BY <1>2 DEF SInv, RootsOk, ReadingOk
<1>19. writes' \in Nat BY <1>1 DEF SInv, segments
<1> QED BY <1>11, <1>13, <1>15, <1>16, <1>17, <1>18, <1>19 DEF SInv

\* The page of an item of depth 1 is a leaf, that of a higher one a parent.
LEMMA ItemPage ==
    ASSUME NEW f, FileOk(f), NEW d \in Nat \ {0}, NEW c, ItemOk(f, d, c)
    PROVE  /\ c.page \in DOMAIN f /\ IsNode(f, c.page) /\ f[c.page].depth = d - 1
           /\ d = 1 => /\ IsLeaf(f, c.page) /\ PairsOk(f, f[c.page].items)
                       /\ \A i \in DOMAIN f[c.page].items : f[c.page].items[i].key \in KeysUnder(f, c.page)
           /\ d > 1 => /\ IsInner(f, c.page) /\ ItemsOk(f, d - 1, f[c.page].items)
                       /\ \A i \in DOMAIN f[c.page].items :
                             /\ KeysUnder(f, f[c.page].items[i].page) \subseteq KeysUnder(f, c.page)
                             /\ Below(f, f[c.page].items[i].page) \subseteq Below(f, c.page)
                       /\ \A q \in OwnedOverflows(f[c.page]) : IsOverflow(f, q)
<1>1. c.page \in DOMAIN f /\ IsNode(f, c.page) /\ f[c.page].depth = d - 1 BY DEF ItemOk, AgreesWith
<1>2. Forest(f) /\ PageOk(f, c.page) BY <1>1 DEF FileOk
<1> DEFINE n == c.page
<1>3. ASSUME d = 1
      PROVE  /\ IsLeaf(f, n) /\ PairsOk(f, f[n].items)
             /\ \A i \in DOMAIN f[n].items : f[n].items[i].key \in KeysUnder(f, n)
  <2>1. IsLeaf(f, n) BY <1>1, <1>3, NodeFacts
  <2>2. PairsOk(f, f[n].items) BY <1>2, <2>1 DEF PageOk, LeafOk
  <2>3. KeysUnder(f, n) = {f[n].items[i].key : i \in DOMAIN f[n].items}
    BY <1>2, <2>1, PairsUnderFacts
  <2> QED BY <2>1, <2>2, <2>3
<1>4. ASSUME d > 1
      PROVE  /\ IsInner(f, n) /\ ItemsOk(f, d - 1, f[n].items)
             /\ \A i \in DOMAIN f[n].items :
                   /\ KeysUnder(f, f[n].items[i].page) \subseteq KeysUnder(f, n)
                   /\ Below(f, f[n].items[i].page) \subseteq Below(f, n)
             /\ \A q \in OwnedOverflows(f[n]) : IsOverflow(f, q)
  <2>1. f[n].depth > 0 BY <1>1, <1>4
  <2>2. IsInner(f, n) BY <1>1, <2>1, NodeFacts
  <2>3. ItemsOk(f, f[n].depth, f[n].items) BY <1>2, <2>2 DEF PageOk
  <2>4. \A i \in DOMAIN f[n].items : f[n].items[i].page \in Children(f, n) BY DEF Children
  <2>5. KeysUnder(f, n) = UNION {KeysUnder(f, m) : m \in Children(f, n)}
    BY <1>2, <2>2, PairsUnderFacts
  <2>6. Below(f, n) = {n} \cup UNION {Below(f, m) : m \in Children(f, n)}
    BY <1>1, <1>2, <2>2, BelowFacts
  <2>7. \A i \in DOMAIN f[n].items : /\ KeysUnder(f, f[n].items[i].page) \subseteq KeysUnder(f, n)
                                     /\ Below(f, f[n].items[i].page) \subseteq Below(f, n)
    BY <2>4, <2>5, <2>6
  <2>8. \A q \in OwnedOverflows(f[n]) : IsOverflow(f, q)
    <3> SUFFICES ASSUME NEW i \in DOMAIN f[n].items, NEW q \in Overflows(f[n].depth, f[n].items[i])
                 PROVE  IsOverflow(f, q)
      BY DEF OwnedOverflows
    <3>1. ItemOk(f, f[n].depth, f[n].items[i]) /\ f[n].depth # 0 BY <2>1, <2>3 DEF ItemsOk
    <3> QED BY <3>1 DEF Overflows, PageOf, ItemOk
  <2> QED BY <1>1, <2>2, <2>3, <2>7, <2>8
<1> QED BY <1>1, <1>3, <1>4

\* SInv is kept when a child is taken apart: its items are the next.
LEMMA RewriteChildSound ==
    ASSUME SInv, RewriteChild
    PROVE  SInv'
<1> DEFINE D == Depth
           n == Item.page
           td == Past
           s == file[n].items
<1>1. /\ Ready /\ reading = <<>> /\ ~AllEmpty(todo)
      /\ UNCHANGED <<file, segments, phase, pairs, keep, writer, promoted, before, dropped, pending>>
  BY DEF RewriteChild, Walking
<1>2. UNCHANGED <<file, upper, lower, phase, pairs, leaf, chain, hand, keep, promoted, dropped, pending>>
  BY <1>1 DEF segments, writer
<1>3. IF D > 1
      THEN /\ freed' = freed \cup {n} \cup OwnedOverflows(file[n])
           /\ todo' = [td EXCEPT ![D - 1] = s]
           /\ reading' = reading
      ELSE /\ phase = "merge" /\ freed' = freed \cup {n}
           /\ todo' = td /\ reading' = s
  BY DEF RewriteChild, Free
<1>4. /\ D \in DOMAIN todo /\ D \in Nat \ {0} /\ ItemOk(file, D, Item)
      /\ 1 \in DOMAIN todo[D] /\ Item = todo[D][1]
      /\ \A e \in DOMAIN todo : e < D => todo[e] = <<>>
      /\ phase \in {"merge", "survivors"} /\ Item.key \in Int
  BY <1>1, WalkFacts
<1>5. /\ td \in Seq(Seq(ItemRec)) /\ DOMAIN td = DOMAIN todo
      /\ \A d \in DOMAIN todo : d # D => td[d] = todo[d]
      /\ \A d \in DOMAIN td : \A i \in DOMAIN td[d] : Before(file, Item, td[d][i])
  BY <1>1, PastFacts
<1>6. /\ SourcesOk(file, pairs, reading, td)
      /\ UpToSources(file, pairs, reading, td, leaf, chain, hand)
      /\ phase = "merge" => LevelsClean(file, promoted, td)
  BY <1>1, PastSound
<1>7. FileOk(file) /\ Forest(file) BY DEF SInv, FileOk
<1>8. \A k \in KeysUnder(file, n) : UpTo(leaf, chain, hand, k) /\ k <= Item.key /\ k \in Int
  BY <1>4, <1>7, ItemKeys DEF SInv, InOrder, UpToSources, UpToTodo
<1>9. phase = "merge" => Clean(file, promoted, n) BY <1>4 DEF SInv, CleanOk, LevelsClean, AllClean
<1>10. TodoOk(file, reading, td) /\ SourceOk(file, pairs) BY <1>6 DEF SourcesOk
<1>11. n \in Below(file, n) BY <1>4, <1>7, ItemPage, BelowNodes
<1>12. KeepOk' BY <1>1, <1>2 DEF Ready, KeepOk
<1>13. ASSUME D > 1
       PROVE  SInv'
  <2>1. /\ n \in DOMAIN file /\ IsInner(file, n) /\ ItemsOk(file, D - 1, s)
        /\ \A i \in DOMAIN s : /\ KeysUnder(file, s[i].page) \subseteq KeysUnder(file, n)
                               /\ Below(file, s[i].page) \subseteq Below(file, n)
        /\ \A q \in OwnedOverflows(file[n]) : IsOverflow(file, q)
    BY <1>4, <1>7, <1>13, ItemPage
  <2>2. freed' = freed \cup {n} \cup OwnedOverflows(file[n])
        /\ todo' = [td EXCEPT ![D - 1] = s] /\ reading' = reading
    BY <1>3, <1>13
  <2>3. D - 1 \in DOMAIN td /\ D - 1 # D /\ D - 1 \in Nat BY <1>4, <1>5, <1>13
  <2>4. s \in Seq(ItemRec) BY <2>1 DEF ItemsOk
  <2> HIDE DEF D, td, s, n
  <2>5. /\ todo' \in Seq(Seq(ItemRec)) /\ DOMAIN todo' = DOMAIN td
        /\ todo'[D - 1] = s /\ \A d \in DOMAIN td : d # D - 1 => todo'[d] = td[d]
    BY <1>5, <2>2, <2>3, <2>4, LevelChanged
  <2>6. \A d \in DOMAIN td : d < D - 1 => td[d] = <<>>
    <3> TAKE d \in DOMAIN td
    <3> HAVE d < D - 1
    <3>1. d \in Nat /\ d < D /\ d # D
      <4>1. d \in Nat BY <1>5, ListDomain
      <4> QED BY <1>4, <4>1
    <3> QED BY <1>4, <1>5, <3>1
  <2>7. \A d \in DOMAIN todo' : ItemsOk(file, d, todo'[d]) BY <1>10, <2>1, <2>5 DEF TodoOk
  <2>8. \A d, e \in DOMAIN todo' : d < e =>
           \A i \in DOMAIN todo'[d], j \in DOMAIN todo'[e] : Before(file, todo'[d][i], todo'[e][j])
    <3> TAKE d, e \in DOMAIN todo'
    <3> HAVE d < e
    <3> TAKE i \in DOMAIN todo'[d], j \in DOMAIN todo'[e]
    <3>1. d \in Nat /\ e \in Nat BY <2>5, ListDomain
    <3>2. CASE d = D - 1
      <4>1. e # D - 1 /\ todo'[e] = td[e] /\ e \in DOMAIN td /\ todo'[d] = s
        BY <2>3, <2>5, <3>1, <3>2
      <4>2. Before(file, Item, td[e][j]) BY <1>5, <4>1
      <4>3. ItemOk(file, D - 1, s[i]) BY <2>1, <4>1 DEF ItemsOk
      <4>4. s[i].key \in Int /\ s[i].key \in KeysUnder(file, n) BY <1>7, <2>1, <4>1, <4>3, ItemKeys
      <4>5. s[i].key <= Item.key BY <1>8, <4>4
      <4>6. \A k \in KeysUnder(file, td[e][j].page) : s[i].key < k
        <5> TAKE k \in KeysUnder(file, td[e][j].page)
        <5>1. Item.key < k /\ k \in Int
          <6>1. ItemOk(file, e, td[e][j]) BY <1>10, <4>1 DEF TodoOk, ItemsOk
          <6> QED BY <1>7, <4>2, <6>1, ItemKeys DEF Before
        <5> QED BY <1>4, <4>4, <4>5, <5>1
      <4> QED BY <4>1, <4>6 DEF Before
    <3>3. CASE d # D - 1
      <4>1. todo'[d] = td[d] /\ d \in DOMAIN td BY <2>5, <3>3
      <4>2. ~(d < D - 1) BY <2>6, <4>1
      <4>3. e # D - 1 BY <2>3, <3>1, <3>3, <4>2
      <4>4. todo'[e] = td[e] /\ e \in DOMAIN td BY <2>5, <4>3
      <4> QED BY <1>10, <4>1, <4>4 DEF TodoOk
    <3> QED BY <3>2, <3>3
  <2>9. SourcesOk(file, pairs, reading', todo')
    <3>1. TodoOk(file, reading, todo') BY <1>1, <2>5, <2>7, <2>8 DEF TodoOk
    <3> QED BY <1>6, <2>2, <3>1 DEF SourcesOk
  <2>10. UpToSources(file, pairs, reading', todo', leaf, chain, hand)
    <3>1. UpToTodo(file, todo', leaf, chain, hand)
      <4> SUFFICES ASSUME NEW d \in DOMAIN todo', NEW i \in DOMAIN todo'[d],
                          NEW k \in KeysUnder(file, todo'[d][i].page)
                   PROVE  UpTo(leaf, chain, hand, k)
        BY DEF UpToTodo
      <4>1. CASE d = D - 1 BY <1>8, <2>1, <2>5, <4>1
      <4>2. CASE d # D - 1 BY <1>6, <2>5, <4>2 DEF UpToSources, UpToTodo
      <4> QED BY <4>1, <4>2
    <3> QED BY <1>6, <2>2, <3>1 DEF UpToSources
  <2>11. phase = "merge" => LevelsClean(file, promoted, todo')
    <3> SUFFICES ASSUME phase = "merge", NEW d \in DOMAIN todo', NEW i \in DOMAIN todo'[d]
                 PROVE  Clean(file, promoted, todo'[d][i].page)
      BY DEF LevelsClean, AllClean
    <3>1. CASE d = D - 1 BY <1>9, <2>1, <2>5, <3>1 DEF Clean
    <3>2. CASE d # D - 1 BY <1>6, <2>5, <3>2 DEF LevelsClean, AllClean
    <3> QED BY <3>1, <3>2
  <2>12. freed \subseteq freed' /\ (phase = "merge" => promoted \cap freed' = {})
    <3>1. \A q \in promoted : IsLeaf(file, q) /\ ~IsOverflow(file, q)
      BY DEF SInv, CleanOk, IsLeaf, LeafNode, IsOverflow, Overflow
    <3>2. phase = "merge" => n \notin promoted BY <1>9, <1>11 DEF Clean
    <3> QED BY <2>1, <2>2, <3>1, <3>2 DEF SInv, CleanOk
  <2>13. PhaseOk' BY <1>1, <1>2, <1>4, <2>2 DEF SInv, PhaseOk
  <2> QED BY <1>1, <1>12, <2>9, <2>10, <2>11, <2>12, <2>13, WalkMoves
<1>14. ASSUME ~(D > 1)
       PROVE  SInv'
  <2>1. D = 1 BY <1>4, <1>14
  <2>2. /\ n \in DOMAIN file /\ IsLeaf(file, n) /\ PairsOk(file, s)
        /\ \A i \in DOMAIN s : s[i].key \in KeysUnder(file, n)
    <3>1. ItemOk(file, 1, Item) BY <1>4, <2>1
    <3> QED BY <1>7, <3>1, ItemPage
  <2>3. phase = "merge" /\ freed' = freed \cup {n} /\ todo' = td /\ reading' = s BY <1>3, <1>14
  <2> HIDE DEF D, td, s, n
  <2>4. \A d \in DOMAIN td : \A i \in DOMAIN td[d], j \in DOMAIN s : Before(file, s[j], td[d][i])
    <3> TAKE d \in DOMAIN td
    <3> TAKE i \in DOMAIN td[d], j \in DOMAIN s
    <3>1. s[j].key \in KeysUnder(file, n) BY <2>2
    <3>2. s[j].key <= Item.key /\ s[j].key \in Int BY <1>8, <3>1
    <3>3. Before(file, Item, td[d][i]) /\ ItemOk(file, d, td[d][i])
      BY <1>5, <1>10 DEF TodoOk, ItemsOk
    <3>4. \A k \in KeysUnder(file, td[d][i].page) : s[j].key < k
      <4> TAKE k \in KeysUnder(file, td[d][i].page)
      <4>1. Item.key < k /\ k \in Int BY <1>7, <3>3, ItemKeys DEF Before
      <4> QED BY <1>4, <3>2, <4>1
    <3> QED BY <3>4 DEF Before
  <2>5. SourcesOk(file, pairs, reading', todo')
    <3>1. TodoOk(file, s, td) BY <1>10, <2>4 DEF TodoOk
    <3> QED BY <1>10, <2>2, <2>3, <3>1 DEF SourcesOk
  <2>6. UpToSources(file, pairs, reading', todo', leaf, chain, hand)
    <3>1. UpToReading(s, leaf, chain, hand) BY <1>8, <2>2 DEF UpToReading
    <3> QED BY <1>6, <2>3, <3>1 DEF UpToSources
  <2>7. LevelsClean(file, promoted, todo') BY <1>6, <2>3
  <2>8. freed \subseteq freed' /\ promoted \cap freed' = {}
    <3>1. n \notin promoted BY <1>9, <1>11, <2>3 DEF Clean
    <3> QED BY <2>3, <3>1 DEF SInv, CleanOk
  <2>9. PhaseOk' BY <1>1, <1>2, <2>3 DEF SInv, PhaseOk
  <2> QED BY <1>1, <1>12, <2>5, <2>6, <2>7, <2>8, <2>9, WalkMoves
<1> QED BY <1>13, <1>14

-----------------------------------------------------------------------------
(* What is promoted.                                                       *)

\* The numbers up to N are finitely many.
LEMMA FiniteNumbers ==
    ASSUME NEW N \in Nat
    PROVE  IsFiniteSet(1..N)
<1>1. 1 \in Int /\ N \in Int OBVIOUS
<1> QED BY <1>1, FS_Interval

\* Where most tombstones are is one of the places.
LEMMA MostFacts ==
    ASSUME NEW N \in Nat, N >= 1, NEW counts \in [1..N -> Nat]
    PROVE  MostTombstones(counts) \subseteq 1..N
<1> DEFINE V == {counts[i] : i \in 1..N}
<1>1. CASE \A i \in DOMAIN counts : counts[i] = 0 BY <1>1 DEF MostTombstones
<1>2. CASE ~ \A i \in DOMAIN counts : counts[i] = 0
  <2>1. IsFiniteSet(V)
    <3>1. IsFiniteSet(1..N) BY FiniteNumbers
    <3> QED BY <3>1, FiniteImage
  <2>2. V \subseteq Int /\ V # {} /\ \A i \in 1..N : counts[i] \in V OBVIOUS
  <2>3. PICK v \in V : \A w \in V : w <= v
    <3> HIDE DEF V
    <3> QED BY <2>1, <2>2, GreatestOfFinite
  <2> DEFINE S == {i \in 1..N : counts[i] = v}
  <2>4. S \subseteq 1..N /\ S # {} OBVIOUS
  <2>5. PICK i \in S : \A k \in 1..i - 1 : k \notin S
    <3>1. 1 \in Int /\ N \in Int OBVIOUS
    <3> HIDE DEF S
    <3> QED BY <2>4, <3>1, LeastNumber
  <2>6. i \in 1..N /\ counts[i] = v BY <2>5
  <2>7. \A j \in 1..N : counts[j] <= counts[i] /\ counts[j] \in Nat BY <2>2, <2>3, <2>6
  <2>8. \A j \in 1..N : j < i => counts[j] < counts[i]
    <3> TAKE j \in 1..N
    <3> HAVE j < i
    <3>1. j \in 1..i - 1 BY <2>6
    <3>2. counts[j] # v BY <2>5, <3>1
    <3> QED BY <2>6, <2>7, <3>2
  <2>9. MostTombstones(counts)
          = {CHOOSE k \in DOMAIN counts :
               /\ \A j \in DOMAIN counts : counts[j] <= counts[k]
               /\ \A j \in DOMAIN counts : j < k => counts[j] < counts[k]}
    BY <1>2 DEF MostTombstones
  <2> QED BY <2>6, <2>7, <2>8, <2>9
<1> QED BY <1>1, <1>2

\* A range of children of a page.
LEMMA RangeFacts ==
    ASSUME NEW items \in Seq(ItemRec), items # <<>>, NEW leaves, leaves \in ChooseRange(items)
    PROVE  IsFiniteSet(leaves) /\ leaves \subseteq ItemPages(items)
<1> DEFINE want == IF Len(items) <= LeavesToPromote THEN Len(items) ELSE LeavesToPromote
           M == Len(items) - want + 1
           row == [i \in 1..M |-> [j \in 1..want |-> items[i + j - 1].tombstones]]
           sums == [i \in 1..M |-> Sum([j \in 1..want |-> items[i + j - 1].tombstones])]
<1>1. want \in Nat /\ want >= 1 /\ want <= Len(items) /\ Len(items) \in Nat BY TreesAssumption
<1>2. M \in Nat /\ M >= 1 BY <1>1
<1>3. \A i \in 1..M, j \in 1..want : i + j - 1 \in 1..Len(items) BY <1>1
<1>4. \A i \in 1..M, j \in 1..want : items[i + j - 1] \in ItemRec /\ items[i + j - 1].tombstones \in Nat
  BY <1>3, Fields, Element
<1>5. \A i \in 1..M : [j \in 1..want |-> items[i + j - 1].tombstones] \in Seq(Nat)
  <2> SUFFICES ASSUME NEW i \in 1..M
               PROVE  [j \in 1..want |-> items[i + j - 1].tombstones] \in Seq(Nat)
    OBVIOUS
  <2> DEFINE h == [j \in 1..want |-> items[i + j - 1].tombstones]
  <2> HIDE DEF want, M
  <2>1. h \in [1..want -> Nat] BY <1>4
  <2> HIDE DEF h
  <2>2. h \in Seq(Nat) BY <1>1, <2>1
  <2> QED BY <2>2 DEF h
<1>6. sums \in [1..M -> Nat]
  <2>1. \A i \in 1..M : Sum([j \in 1..want |-> items[i + j - 1].tombstones]) \in Nat
    BY <1>5, SumFacts
  <2> HIDE DEF want, M
  <2> QED BY <2>1
<1>7. MostTombstones(sums) \subseteq 1..M
  <2> HIDE DEF want, M, sums
  <2> QED BY <1>2, <1>6, MostFacts
<1>8. PICK i \in MostTombstones(sums) : leaves = {items[i + j - 1].page : j \in 1..want}
  BY DEF ChooseRange
<1>9. i \in 1..M BY <1>7, <1>8
<1>10. leaves \subseteq ItemPages(items)
  <2>1. \A j \in 1..want : i + j - 1 \in DOMAIN items BY <1>3, <1>9
  <2> HIDE DEF want, M, sums
  <2> QED BY <1>8, <2>1 DEF ItemPages
<1>11. IsFiniteSet(leaves)
  <2> DEFINE h == [j \in 1..want |-> items[i + j - 1].page]
  <2>1. IsFiniteSet(1..want) BY <1>1, FiniteNumbers
  <2>2. IsFiniteSet({h[j] : j \in 1..want})
    <3> HIDE DEF h, want
    <3> QED BY <2>1, FiniteImage
  <2>3. {h[j] : j \in 1..want} = leaves
    <3> HIDE DEF want, M, sums
    <3> QED BY <1>8
  <2> QED BY <2>2, <2>3
<1> QED BY <1>10, <1>11

\* Leaves of one parent have different keys.
LEMMA LeavesApart ==
    ASSUME NEW f, FileOk(f), NEW s, ItemsOk(f, 1, s), NEW leaves, IsFiniteSet(leaves),
           leaves \subseteq ItemPages(s)
    PROVE  SourceOk(f, ItemsOf(f, leaves)) /\ \A n \in leaves : IsLeaf(f, n)
<1>1. \A n \in leaves : \E i \in DOMAIN s : n = s[i].page BY DEF ItemPages
<1>2. \A i \in DOMAIN s : ItemOk(f, 1, s[i]) /\ i \in Nat BY ListDomain DEF ItemsOk
<1>3. \A i \in DOMAIN s : /\ IsLeaf(f, s[i].page) /\ PairsOk(f, f[s[i].page].items)
                          /\ \A a \in DOMAIN f[s[i].page].items :
                                f[s[i].page].items[a].key \in KeysUnder(f, s[i].page)
  BY <1>2, ItemPage
<1>4. \A n \in leaves : IsLeaf(f, n) /\ PairsOk(f, f[n].items) BY <1>1, <1>3
<1>5. IsFiniteSet(ItemsOf(f, leaves))
  <2> DEFINE its == [n \in leaves |-> {f[n].items[i] : i \in DOMAIN f[n].items}]
             T == {its[n] : n \in leaves}
  <2>1. IsFiniteSet(T)
    <3> HIDE DEF its
    <3> QED BY FiniteImage
  <2>2. \A x \in T : IsFiniteSet(x)
    <3> SUFFICES ASSUME NEW n \in leaves
                 PROVE  IsFiniteSet({f[n].items[i] : i \in DOMAIN f[n].items})
      OBVIOUS
    <3> DEFINE t == f[n].items
    <3>1. t \in Seq(PairRec) BY <1>4 DEF PairsOk
    <3> HIDE DEF t
    <3>2. IsFiniteSet(DOMAIN t)
      <4>1. DOMAIN t = 1..Len(t) /\ Len(t) \in Int BY <3>1
      <4> QED BY <4>1, FS_Interval
    <3>3. IsFiniteSet({t[i] : i \in DOMAIN t}) BY <3>2, FiniteImage
    <3> QED BY <3>3 DEF t
  <2>3. IsFiniteSet(UNION T)
    <3> HIDE DEF T
    <3> QED BY <2>1, <2>2, FS_UNION
  <2>4. T = {{f[n].items[i] : i \in DOMAIN f[n].items} : n \in leaves} OBVIOUS
  <2> QED BY <2>3, <2>4 DEF ItemsOf
<1>6. \A p \in ItemsOf(f, leaves) : \E i \in DOMAIN s : \E a \in DOMAIN f[s[i].page].items :
         p = f[s[i].page].items[a]
  BY <1>1 DEF ItemsOf
<1>7. \A p \in ItemsOf(f, leaves) : PairOk(f, p) BY <1>3, <1>6 DEF PairsOk
<1>8. ASSUME NEW i \in DOMAIN s, NEW j \in DOMAIN s, i < j,
             NEW a \in DOMAIN f[s[i].page].items, NEW b \in DOMAIN f[s[j].page].items
      PROVE  f[s[i].page].items[a].key < f[s[j].page].items[b].key
  <2>1. Before(f, s[i], s[j]) BY <1>8 DEF ItemsOk
  <2>2. f[s[i].page].items[a].key \in KeysUnder(f, s[i].page)
        /\ f[s[j].page].items[b].key \in KeysUnder(f, s[j].page)
    BY <1>3
  <2> DEFINE k == f[s[i].page].items[a].key
             m == f[s[j].page].items[b].key
  <2>3. k \in Int /\ k <= s[i].key /\ s[i].key \in Int /\ m \in Int /\ s[i].key < m
    BY <1>2, <2>1, <2>2, ItemKeys DEF Before
  <2> HIDE DEF k, m
  <2>4. k < m BY <2>3
  <2> QED BY <2>4 DEF k, m
<1>9. ASSUME NEW p \in ItemsOf(f, leaves), NEW q \in ItemsOf(f, leaves), p.key = q.key
      PROVE  p = q
  <2>10. PICK i \in DOMAIN s : \E a \in DOMAIN f[s[i].page].items : p = f[s[i].page].items[a]
    BY <1>6
  <2>1. PICK a \in DOMAIN f[s[i].page].items : p = f[s[i].page].items[a] BY <2>10
  <2>11. PICK j \in DOMAIN s : \E b \in DOMAIN f[s[j].page].items : q = f[s[j].page].items[b]
    BY <1>6
  <2>2. PICK b \in DOMAIN f[s[j].page].items : q = f[s[j].page].items[b] BY <2>11
  <2>3. p.key \in Int BY <1>7, Fields, PairsAssumption DEF PairOk
  <2>4. ~(i < j) /\ ~(j < i) BY <1>8, <1>9, <2>1, <2>2, <2>3
  <2>5. i = j BY <1>2, <2>4
  <2>6. PairsOk(f, f[s[i].page].items) BY <1>3
  <2>7. a \in Nat /\ b \in Nat BY <2>2, <2>5, <2>6, ListDomain DEF PairsOk
  <2> DEFINE t == f[s[i].page].items
  <2>12. p = t[a] /\ q = t[b] /\ a \in DOMAIN t /\ b \in DOMAIN t BY <2>1, <2>2, <2>5
  <2>13. Ascending(t) BY <2>6 DEF PairsOk
  <2> HIDE DEF t
  <2>8. ~(a < b) /\ ~(b < a) BY <1>9, <2>3, <2>12, <2>13 DEF Ascending
  <2>9. a = b BY <2>7, <2>8
  <2> QED BY <2>9, <2>12
<1> QED BY <1>4, <1>5, <1>7, <1>9 DEF SourceOk

\* The leaves that can be promoted.
LEMMA PromoteFacts ==
    ASSUME NEW f, FileOk(f), NEW root, IsNode(f, root), NEW leaves, leaves \in ToPromote(f, root)
    PROVE  /\ leaves \subseteq Below(f, root) /\ \A n \in leaves : IsLeaf(f, n)
           /\ SourceOk(f, ItemsOf(f, leaves))
           /\ \/ IsLeaf(f, root) /\ leaves = {root}
              \/ \E n \in Below(f, root) : IsInner(f, n) /\ leaves \subseteq Children(f, n)
<1>1. root \in DOMAIN f /\ Forest(f) BY DEF IsNode, IsLeaf, IsInner, FileOk
<1>2. CASE IsInner(f, root)
  <2>1. PICK n \in Parents(f, root) : leaves \in ChooseRange(f[n].items)
    BY <1>1, <1>2, NodeFacts DEF ToPromote
  <2>2. n \in Below(f, root) /\ f[n].depth = 1 BY <2>1 DEF Parents
  <2>3. n \in DOMAIN f /\ IsNode(f, n) /\ Below(f, n) \subseteq Below(f, root)
    BY <1>1, <2>2, BelowNodes
  <2>4. IsInner(f, n) BY <2>2, <2>3, NodeFacts
  <2> DEFINE s == f[n].items
  <2>5. ItemsOk(f, 1, s) /\ s # <<>> BY <2>2, <2>3, <2>4 DEF FileOk, PageOk
  <2>6. s \in Seq(ItemRec) /\ leaves \in ChooseRange(s) BY <2>1, <2>5 DEF ItemsOk
  <2>7. ItemPages(s) = Children(f, n) BY DEF ItemPages, Children
  <2> HIDE DEF s
  <2>8. IsFiniteSet(leaves) /\ leaves \subseteq ItemPages(s) BY <2>5, <2>6, RangeFacts
  <2>9. SourceOk(f, ItemsOf(f, leaves)) /\ \A m \in leaves : IsLeaf(f, m) BY <2>5, <2>8, LeavesApart
  <2>10. \A c \in Children(f, n) : c \in Below(f, n)
    <3> TAKE c \in Children(f, n)
    <3>1. c \in DOMAIN f BY <1>1, <2>4, ChildFacts
    <3>2. c \in Below(f, c) BY <1>1, <3>1, BelowNodes
    <3> QED BY <1>1, <2>3, <2>4, <3>2, BelowFacts
  <2> QED BY <2>2, <2>3, <2>4, <2>7, <2>8, <2>9, <2>10
<1>3. CASE IsLeaf(f, root)
  <2>1. leaves = {root} BY <1>1, <1>3, NodeFacts DEF ToPromote, IsNode
  <2>2. root \in Below(f, root) BY <1>1, BelowNodes
  <2> DEFINE t == f[root].items
  <2>3. PairsOk(f, t) BY <1>1, <1>3 DEF FileOk, PageOk, LeafOk
  <2>4. t \in Seq(PairRec) BY <2>3 DEF PairsOk
  <2>5. ItemsOf(f, leaves) = {t[i] : i \in DOMAIN t} BY <2>1 DEF ItemsOf
  <2> HIDE DEF t
  <2>6. IsFiniteSet({t[i] : i \in DOMAIN t})
    <3>1. DOMAIN t = 1..Len(t) /\ Len(t) \in Int BY <2>4
    <3>2. IsFiniteSet(DOMAIN t) BY <3>1, FS_Interval
    <3> QED BY <3>2, FiniteImage
  <2>7. ASSUME NEW a \in DOMAIN t, NEW b \in DOMAIN t, t[a].key = t[b].key
        PROVE  a = b
    <3>1. a \in Nat /\ b \in Nat /\ t[a].key \in Int
      BY <2>3, <2>4, ListDomain, Fields, PairsAssumption DEF PairsOk, PairOk
    <3>2. ~(a < b) /\ ~(b < a) BY <2>3, <2>7, <3>1 DEF PairsOk, Ascending
    <3> QED BY <3>1, <3>2
  <2>8. SourceOk(f, ItemsOf(f, leaves)) BY <2>3, <2>5, <2>6, <2>7 DEF SourceOk, PairsOk
  <2> QED BY <1>3, <2>1, <2>2, <2>8
<1> QED BY <1>2, <1>3 DEF IsNode

-----------------------------------------------------------------------------
(* Segments begin and end.                                                 *)

\* An empty writer.
LEMMA EmptyWriter ==
    ASSUME NEW f
    PROVE  /\ \A l : WriterOk(f, <<>>, NewChain, <<>>, l)
           /\ \A y : UpTo(<<>>, NewChain, <<>>, y)
           /\ \A ps, rd, td : UpToSources(f, ps, rd, td, <<>>, NewChain, <<>>)
           /\ \A pr : LevelsClean(f, pr, NewChain) /\ AllClean(f, pr, <<>>)
<1>1. LeafOk(f, <<>>)
  <2>1. <<>> \in Seq(PairRec) /\ LeafSize(<<>>) = 0 BY LeafSizes
  <2> QED BY <2>1, TreesAssumption DEF LeafOk, PairsOk, Ascending
<1>2. /\ NewChain \in Seq(Seq(ItemRec)) /\ Len(NewChain) = 2 /\ DOMAIN NewChain = {1, 2}
      /\ NewChain[1] = <<>> /\ NewChain[2] = <<>>
  BY DEF NewChain
<1>3. \A d \in DOMAIN NewChain : NewChain[d] = <<>> BY <1>2
<1>4. LevelsOk(f, <<>>, NewChain) BY <1>2, <1>3, OneItem DEF LevelsOk
<1>5. ShortTop(NewChain) BY <1>2 DEF ShortTop
<1>6. \A l : WriterOk(f, <<>>, NewChain, <<>>, l) BY <1>1, <1>4, <1>5 DEF WriterOk
<1>7. \A y : UpTo(<<>>, NewChain, <<>>, y) BY <1>3 DEF UpTo
<1>8. \A pr : LevelsClean(f, pr, NewChain) /\ AllClean(f, pr, <<>>)
  BY <1>3 DEF LevelsClean, AllClean
<1> QED BY <1>6, <1>7, <1>8 DEF UpToSources, UpToPairs, UpToReading, UpToTodo

\* Nothing to do.
LEMMA NothingToDo ==
    ASSUME NEW f
    PROVE  /\ SourceOk(f, {}) /\ PairsOk(f, <<>>) /\ \A rd : TodoOk(f, rd, <<>>)
           /\ \A pr : LevelsClean(f, pr, <<>>)
<1>1. <<>> \in Seq(PairRec) /\ <<>> \in Seq(Seq(ItemRec)) OBVIOUS
<1> QED BY <1>1, FS_EmptySet DEF SourceOk, PairsOk, Ascending, TodoOk, LevelsClean

\* SInv is kept when pairs are to be written as a new segment.
LEMMA WriteSound ==
    ASSUME SInv, Write
    PROVE  SInv'
<1>1. /\ phase = "idle" /\ upper = NoPage /\ writes < Len(WriteBounds)
      /\ phase' = "write" /\ writes' = writes + 1
      /\ UNCHANGED <<file, upper, lower, lost, held, reading, todo, keep, writer, merge>>
  BY DEF Write
<1>2. PICK p \in [Keys -> WriteBounds[writes + 1].entries \cup {Absent}] :
         /\ IsFiniteSet(KeysOf(p))
         /\ pairs' = {Boxed(k, p[k]) : k \in KeysOf(p)}
  BY DEF Write
<1>3. /\ UNCHANGED <<file, upper, lower, reading, todo, keep, leaf, chain, hand, level, promoted,
                    freed, dropped, pending>>
  BY <1>1 DEF writer, merge
<1>4. /\ reading = <<>> /\ todo = <<>> /\ Unmerged
      /\ leaf = <<>> /\ chain = NewChain /\ hand = <<>> /\ keep = 0
  BY <1>1 DEF SInv, PhaseOk
<1>5. writes' \in Nat /\ writes + 1 \in DOMAIN WriteBounds BY <1>1, TreesAssumption DEF SInv
<1>6. WriteBounds[writes + 1].entries \subseteq Values \cup {Tombstone}
  <2>1. WriteBounds[writes + 1] \in [pairs : Nat, entries : SUBSET (Values \cup {Tombstone})]
    BY <1>5, TreesAssumption, Element
  <2> QED BY <2>1
<1>7. SourceOk(file, pairs')
  <2>1. \A k \in KeysOf(p) : k \in Keys /\ p[k] \in Values \cup {Tombstone} BY <1>2, <1>6 DEF KeysOf
  <2>2. \A k \in KeysOf(p) : PairOk(file, Boxed(k, p[k])) /\ Boxed(k, p[k]).key = k
    BY <2>1 DEF PairOk, PairRec, Boxed, NoPage
  <2> DEFINE h == [k \in KeysOf(p) |-> Boxed(k, p[k])]
  <2>3. IsFiniteSet({h[k] : k \in KeysOf(p)})
    <3> HIDE DEF h
    <3> QED BY <1>2, FiniteImage
  <2>4. {h[k] : k \in KeysOf(p)} = pairs' BY <1>2
  <2> HIDE DEF h
  <2>5. IsFiniteSet(pairs') BY <2>3, <2>4
  <2>6. \A q \in pairs' : \E k \in KeysOf(p) : q = Boxed(k, p[k]) BY <1>2
  <2>7. \A q \in pairs' : PairOk(file, q) /\ q = Boxed(q.key, p[q.key]) BY <2>2, <2>6
  <2>8. \A q, r \in pairs' : q.key = r.key => q = r BY <2>7
  <2> QED BY <2>5, <2>7, <2>8 DEF SourceOk
<1>8. ReadingOk' BY <1>3, <1>7 DEF SInv, ReadingOk, SourcesOk
<1>9. InOrder' BY <1>3, <1>4, EmptyWriter DEF InOrder
<1>10. PhaseOk' BY <1>1, <1>3, <1>4 DEF PhaseOk, Unmerged
<1>11. KeepOk' /\ WritingOk' /\ RootsOk' BY <1>3, <1>4 DEF SInv, KeepOk, WritingOk, RootsOk
<1>12. CleanOk' BY <1>1, <1>3, <1>4 DEF SInv, CleanOk, Unmerged
<1> QED BY <1>3, <1>5, <1>8, <1>9, <1>10, <1>11, <1>12 DEF SInv

\* The root of what was written.
LEMMA RootFacts ==
    ASSUME SInv, HasRoot
    PROVE  /\ leaf = <<>> /\ hand = <<>> /\ Root \in Nat /\ RootOk(file, Root)
           /\ RootClean(file, promoted, Root)
<1>1. leaf = <<>> /\ hand = <<>> BY DEF HasRoot
<1>2. CASE AllEmpty(chain) BY <1>1, <1>2 DEF Root, RootOk, RootClean, NoPage
<1>3. CASE ~AllEmpty(chain)
  <2> DEFINE d == Lowest(chain)
             c == chain[d][1]
  <2>1. LevelsOk(file, leaf, chain) /\ chain \in Seq(Seq(ItemRec))
    BY DEF SInv, WritingOk, WriterOk, LevelsOk
  <2>2. d \in DOMAIN chain /\ chain[d] # <<>> BY <1>3, <2>1, LowestFacts
  <2>3. ItemsOk(file, d, chain[d]) /\ 1 \in DOMAIN chain[d]
    <3>1. ItemsOk(file, d, chain[d]) BY <2>1, <2>2 DEF LevelsOk, LevelOk
    <3>2. chain[d] \in Seq(ItemRec) BY <3>1 DEF ItemsOk
    <3> QED BY <2>2, <3>1, <3>2, TailFacts
  <2>4. ItemOk(file, d, c) /\ Clean(file, promoted, c.page)
    BY <2>2, <2>3 DEF ItemsOk, SInv, CleanOk, LevelsClean, AllClean
  <2>5. Root = c.page BY <1>3 DEF Root
  <2>6. c \in ItemRec BY <2>4 DEF ItemOk
  <2>7. c.page \in Nat BY <2>6, Fields
  <2> QED BY <1>1, <2>4, <2>5, <2>7 DEF RootOk, RootClean, ItemOk
<1> QED BY <1>2, <1>3

\* SInv is kept when the new segment is in place.
LEMMA EndWriteSound ==
    ASSUME SInv, EndWrite
    PROVE  SInv'
<1>1. /\ phase = "write" /\ IsWritten /\ phase' = "idle" /\ upper' = Root /\ chain' = NewChain
      /\ UNCHANGED <<file, lower, lost, writes, sources, leaf, hand, level, merge>>
  BY DEF EndWrite
<1>2. UNCHANGED <<file, lower, writes, pairs, reading, todo, keep, leaf, hand, level, promoted,
                  freed, dropped, pending>>
  BY <1>1 DEF sources, merge
<1>3. /\ leaf = <<>> /\ hand = <<>> /\ Root \in Nat /\ RootOk(file, Root)
  BY <1>1, RootFacts DEF IsWritten
<1>4. pairs = {} /\ reading = <<>> /\ todo = <<>> /\ Unmerged
  BY <1>1 DEF IsWritten, NothingLeft, SInv, PhaseOk
<1>5. keep = 0 BY <1>1 DEF SInv, KeepOk
<1>6. PhaseOk' BY <1>1, <1>2, <1>3, <1>4, <1>5 DEF PhaseOk, Unmerged
<1>7. WritingOk' /\ InOrder' BY <1>1, <1>2, <1>3, EmptyWriter DEF WritingOk, InOrder
<1>8. KeepOk' /\ ReadingOk' BY <1>2, <1>5 DEF KeepOk, SInv, ReadingOk
<1>9. RootsOk' BY <1>1, <1>2, <1>3 DEF SInv, RootsOk
<1>10. CleanOk' BY <1>1, <1>2, <1>3, EmptyWriter DEF SInv, CleanOk
<1> QED BY <1>2, <1>6, <1>7, <1>8, <1>9, <1>10 DEF SInv

\* A tree that begins to be taken apart.
LEMMA TakenFacts ==
    ASSUME FileOk(file), NEW root, RootOk(file, root)
    PROVE  /\ TodoOk(file, <<>>, Taken(root))
           /\ \A d \in DOMAIN Taken(root) : \A i \in DOMAIN Taken(root)[d] :
                 Below(file, Taken(root)[d][i].page) \subseteq Below(file, root)
           /\ ~(root # NoPage /\ IsParent(file, root)) => Taken(root) = <<>>
           /\ root # NoPage /\ ~IsParent(file, root) => IsLeaf(file, root) /\ PairsOk(file, file[root].items)
           /\ \A q \in FreedWith(root) : q = root \/ IsOverflow(file, q)
           /\ FreedWith(root) = {} \/ root # NoPage
<1>1. Forest(file) BY DEF FileOk
<1>2. ASSUME ~(root # NoPage /\ IsParent(file, root))
      PROVE  Taken(root) = <<>> /\ \A q \in FreedWith(root) : q = root
  BY <1>2 DEF Taken, FreedWith
<1>3. ASSUME root # NoPage, ~IsParent(file, root)
      PROVE  IsLeaf(file, root) /\ PairsOk(file, file[root].items)
  <2>1. IsNode(file, root) /\ root \in DOMAIN file BY <1>3 DEF RootOk, IsNode, IsLeaf, IsInner
  <2>2. IsLeaf(file, root) BY <1>3, <2>1, NodeFacts DEF IsNode
  <2> QED BY <2>1, <2>2 DEF FileOk, PageOk, LeafOk
<1>4. ASSUME root # NoPage, IsParent(file, root)
      PROVE  /\ TodoOk(file, <<>>, Taken(root))
             /\ \A d \in DOMAIN Taken(root) : \A i \in DOMAIN Taken(root)[d] :
                   Below(file, Taken(root)[d][i].page) \subseteq Below(file, root)
             /\ \A q \in FreedWith(root) : q = root \/ IsOverflow(file, q)
  <2> DEFINE N == file[root].depth
             s == file[root].items
             td == [d \in 1..N |-> IF d = N THEN s ELSE <<>>]
  <2>1. IsNode(file, root) /\ root \in DOMAIN file BY <1>4 DEF RootOk, IsNode, IsLeaf, IsInner
  <2>2. IsInner(file, root) BY <1>4, <2>1, NodeFacts
  <2>3. N \in Nat /\ N >= 1 BY <1>1, <2>2, ChildFacts
  <2>4. ItemsOk(file, N, s) BY <2>1, <2>2 DEF FileOk, PageOk
  <2>5. Taken(root) = td BY <1>4 DEF Taken
  <2>6. \A i \in DOMAIN s : s[i].page \in Children(file, root) BY <1>1, <2>2, ChildFacts
  <2>7. \A i \in DOMAIN s : Below(file, s[i].page) \subseteq Below(file, root)
    BY <1>1, <2>1, <2>2, <2>6, BelowFacts
  <2>8. \A q \in FreedWith(root) : q = root \/ IsOverflow(file, q)
    <3> SUFFICES ASSUME NEW q \in OwnedOverflows(file[root])
                 PROVE  IsOverflow(file, q)
      BY DEF FreedWith
    <3>1. PICK i \in DOMAIN s : q \in Overflows(N, s[i]) BY DEF OwnedOverflows
    <3>2. ItemOk(file, N, s[i]) BY <2>4 DEF ItemsOk
    <3> QED BY <2>3, <3>1, <3>2 DEF Overflows, PageOf, ItemOk
  <2> HIDE DEF N, s
  <2>9. \A d \in 1..N : (d = N => td[d] = s) /\ (d # N => td[d] = <<>>) OBVIOUS
  <2>10. td \in Seq(Seq(ItemRec)) /\ DOMAIN td = 1..N
    <3>1. s \in Seq(ItemRec) BY <2>4 DEF ItemsOk
    <3>2. td \in [1..N -> Seq(ItemRec)] BY <3>1
    <3> HIDE DEF td
    <3> QED BY <2>3, <3>2
  <2> HIDE DEF td
  <2>11. \A d \in DOMAIN td : ItemsOk(file, d, td[d])
    <3>1. \A d : ItemsOk(file, d, <<>>) BY OneItem DEF LevelOk
    <3> QED BY <2>4, <2>9, <2>10, <3>1
  <2>12. \A d, e \in DOMAIN td : d < e =>
            \A i \in DOMAIN td[d], j \in DOMAIN td[e] : Before(file, td[d][i], td[e][j])
    <3> TAKE d, e \in DOMAIN td
    <3> HAVE d < e
    <3>1. d # N BY <2>3, <2>10
    <3>2. td[d] = <<>> BY <2>9, <2>10, <3>1
    <3> QED BY <3>2
  <2>13. TodoOk(file, <<>>, td) BY <2>10, <2>11, <2>12 DEF TodoOk
  <2>14. \A d \in DOMAIN td : \A i \in DOMAIN td[d] : Below(file, td[d][i].page) \subseteq Below(file, root)
    <3> TAKE d \in DOMAIN td
    <3>1. td[d] = s \/ td[d] = <<>> BY <2>9, <2>10
    <3> QED BY <2>7, <3>1
  <2> QED BY <2>5, <2>8, <2>13, <2>14
<1>5. TodoOk(file, <<>>, <<>>) BY NothingToDo
<1>6. FreedWith(root) = {} \/ root # NoPage BY DEF FreedWith
<1>7. CASE root # NoPage /\ IsParent(file, root) BY <1>4, <1>6, <1>7
<1>8. CASE ~(root # NoPage /\ IsParent(file, root)) BY <1>2, <1>3, <1>5, <1>6, <1>8
<1> QED BY <1>7, <1>8

\* SInv is kept when leaves are promoted, when the trees have no page in common.
LEMMA BeginMergeSound ==
    ASSUME SInv, BeginMerge, Apart(file, upper, lower)
    PROVE  SInv'
<1>1. /\ phase = "idle" /\ upper # NoPage /\ phase' = "merge" /\ todo' = Taken(lower)
      /\ reading' = IF lower # NoPage /\ ~IsParent(file, lower) THEN file[lower].items ELSE <<>>
      /\ freed' = freed \cup FreedWith(lower)
      /\ UNCHANGED <<file, segments, keep, writer, dropped, pending>>
  BY DEF BeginMerge, Free
<1>2. PICK leaves \in ToPromote(file, upper) : promoted' = leaves /\ pairs' = ItemsOf(file, leaves)
  BY DEF BeginMerge
<1>3. UNCHANGED <<file, upper, lower, writes, keep, leaf, chain, hand, level, dropped, pending>>
  BY <1>1 DEF segments, writer
<1>4. /\ reading = <<>> /\ todo = <<>> /\ Unmerged
      /\ leaf = <<>> /\ chain = NewChain /\ hand = <<>> /\ keep = 0
  BY <1>1 DEF SInv, PhaseOk
<1>5. FileOk(file) /\ Forest(file) /\ RootOk(file, upper) /\ RootOk(file, lower)
  BY DEF SInv, FileOk, RootsOk
<1>6. IsNode(file, upper) BY <1>1, <1>5 DEF RootOk
<1>7. /\ promoted' \subseteq Below(file, upper) /\ \A n \in promoted' : IsLeaf(file, n)
      /\ SourceOk(file, pairs')
  BY <1>2, <1>5, <1>6, PromoteFacts
<1>8. /\ TodoOk(file, <<>>, todo')
      /\ \A d \in DOMAIN todo' : \A i \in DOMAIN todo'[d] :
            Below(file, todo'[d][i].page) \subseteq Below(file, lower)
      /\ ~(lower # NoPage /\ IsParent(file, lower)) => todo' = <<>>
      /\ lower # NoPage /\ ~IsParent(file, lower) => IsLeaf(file, lower) /\ PairsOk(file, file[lower].items)
      /\ \A q \in FreedWith(lower) : q = lower \/ IsOverflow(file, q)
      /\ FreedWith(lower) = {} \/ lower # NoPage
  BY <1>1, <1>5, TakenFacts
<1>9. PairsOk(file, reading') /\ TodoOk(file, reading', todo')
  <2>1. CASE lower # NoPage /\ ~IsParent(file, lower) BY <1>1, <1>8, <2>1, NothingToDo
  <2>2. CASE ~(lower # NoPage /\ ~IsParent(file, lower))
    <3>1. reading' = <<>> BY <1>1, <2>2
    <3> QED BY <1>8, <3>1, NothingToDo
  <2> QED BY <2>1, <2>2
<1>10. ReadingOk' BY <1>3, <1>7, <1>9 DEF ReadingOk, SourcesOk
<1>11. WritingOk' /\ InOrder' BY <1>3, <1>4, EmptyWriter DEF WritingOk, InOrder
<1>12. PhaseOk' BY <1>1, <1>3, <1>4 DEF PhaseOk, Unmerged
<1>13. KeepOk' /\ RootsOk' BY <1>3, <1>4 DEF KeepOk, SInv, RootsOk
<1>14. lower # NoPage => lower \in Below(file, lower) /\ Below(file, lower) \cap promoted' = {}
  <2> SUFFICES ASSUME lower # NoPage
               PROVE  lower \in Below(file, lower) /\ Below(file, lower) \cap promoted' = {}
    OBVIOUS
  <2>1. lower \in DOMAIN file BY <1>5 DEF RootOk, IsNode, IsLeaf, IsInner
  <2> QED BY <1>1, <1>5, <1>7, <2>1, BelowNodes DEF Apart
<1>15. LevelsClean(file, promoted', todo')
  <2> SUFFICES ASSUME NEW d \in DOMAIN todo', NEW i \in DOMAIN todo'[d]
               PROVE  Clean(file, promoted', todo'[d][i].page)
    BY DEF LevelsClean, AllClean
  <2>1. lower # NoPage BY <1>8
  <2> QED BY <1>8, <1>14, <2>1 DEF Clean
<1>16. promoted' \cap freed' = {}
  <2>1. \A q \in promoted' : ~IsOverflow(file, q) BY <1>7 DEF IsLeaf, LeafNode, IsOverflow, Overflow
  <2>2. freed = {} BY <1>4 DEF Unmerged
  <2> QED BY <1>1, <1>8, <1>14, <2>1, <2>2
<1>17. CleanOk'
  <2>1. RootClean(file, promoted', pending.upper) /\ RootClean(file, promoted', pending.lower)
    BY <1>4 DEF Unmerged, NoSegments, RootClean
  <2> QED BY <1>1, <1>3, <1>4, <1>7, <1>15, <1>16, <2>1, EmptyWriter DEF CleanOk
<1> QED BY <1>3, <1>5, <1>10, <1>11, <1>12, <1>13, <1>17 DEF SInv

\* SInv is kept when the lower tree is done and the rest of the upper one is written.
LEMMA BeginSurvivorsSound ==
    ASSUME SInv, BeginSurvivors
    PROVE  SInv'
<1>1. /\ phase = "merge" /\ IsWritten /\ phase' = "survivors" /\ chain' = NewChain /\ todo' = Taken(upper)
      /\ pending' = [pending EXCEPT !.lower = Root, !.panicked = ~RootIsWritten(Root)]
      /\ freed' = freed \cup (promoted \cup (IF IsParent(file, upper) THEN FreedWith(upper) ELSE {}))
      /\ UNCHANGED <<file, segments, pairs, reading, keep, leaf, hand, level, promoted, before, dropped>>
  BY DEF BeginSurvivors, Free
<1>2. UNCHANGED <<file, upper, lower, writes, pairs, reading, keep, leaf, hand, level, promoted, dropped>>
  BY <1>1 DEF segments
<1>3. /\ leaf = <<>> /\ hand = <<>> /\ Root \in Nat /\ RootOk(file, Root)
      /\ RootClean(file, promoted, Root)
  BY <1>1, RootFacts DEF IsWritten
<1>4. pairs = {} /\ reading = <<>> /\ AllEmpty(todo) /\ pending = NoSegments
  BY <1>1 DEF IsWritten, NothingLeft, SInv, PhaseOk
<1>5. keep = 0 BY <1>4 DEF SInv, KeepOk
<1>6. /\ pending' \in [upper : Nat, lower : Nat, panicked : BOOLEAN]
      /\ pending'.upper = NoPage /\ pending'.lower = Root
  <2> DEFINE one == [pending EXCEPT !.lower = Root]
  <2>1. one \in [upper : Nat, lower : Nat, panicked : BOOLEAN] /\ one.upper = NoPage /\ one.lower = Root
    BY <1>3, <1>4 DEF NoSegments, NoPage
  <2>2. pending' = [one EXCEPT !.panicked = ~RootIsWritten(Root)] BY <1>1
  <2>3. (~RootIsWritten(Root)) \in BOOLEAN BY Zenon DEF RootIsWritten
  <2> HIDE DEF one
  <2> QED BY <2>1, <2>2, <2>3
<1>7. FileOk(file) /\ RootOk(file, upper) /\ RootOk(file, lower) BY DEF SInv, RootsOk
<1>8. TodoOk(file, <<>>, todo') BY <1>1, <1>7, TakenFacts
<1>9. ReadingOk' BY <1>2, <1>4, <1>8, NothingToDo DEF ReadingOk, SourcesOk
<1>10. WritingOk' /\ InOrder' BY <1>1, <1>2, <1>3, EmptyWriter DEF WritingOk, InOrder
<1>11. PhaseOk' BY <1>1, <1>2, <1>4, <1>6 DEF PhaseOk
<1>12. KeepOk' BY <1>2, <1>5 DEF KeepOk
<1>13. RootsOk' BY <1>2, <1>3, <1>6, <1>7 DEF RootsOk, RootOk
<1>14. CleanOk'
  <2>1. promoted \subseteq freed' BY <1>1
  <2>2. RootClean(file, promoted, NoPage) BY DEF RootClean
  <2> QED BY <1>1, <1>2, <1>3, <1>6, <2>1, <2>2, EmptyWriter DEF SInv, CleanOk
<1> QED BY <1>2, <1>7, <1>9, <1>10, <1>11, <1>12, <1>13, <1>14 DEF SInv

\* SInv is kept when both trees are written.
LEMMA EndMergeSound ==
    ASSUME SInv, EndMerge
    PROVE  SInv'
<1>1. /\ phase = "survivors" /\ IsWritten /\ phase' = "prepared" /\ chain' = NewChain
      /\ pending' = [pending EXCEPT !.upper = Root]
      /\ UNCHANGED <<file, segments, sources, leaf, hand, level, promoted, before, freed, refreed, dropped>>
  BY DEF EndMerge
<1>2. UNCHANGED <<file, upper, lower, writes, pairs, reading, todo, keep, leaf, hand, level,
                  promoted, freed, dropped>>
  BY <1>1 DEF segments, sources
<1>3. /\ leaf = <<>> /\ hand = <<>> /\ Root \in Nat /\ RootOk(file, Root)
      /\ RootClean(file, promoted, Root)
  BY <1>1, RootFacts DEF IsWritten
<1>4. pairs = {} /\ reading = <<>> /\ AllEmpty(todo) BY <1>1 DEF IsWritten, NothingLeft
<1>5. keep = 0 BY <1>4 DEF SInv, KeepOk
<1>6. /\ pending' \in [upper : Nat, lower : Nat, panicked : BOOLEAN]
      /\ pending'.upper = Root /\ pending'.lower = pending.lower
  BY <1>1, <1>3 DEF SInv, RootsOk
<1>7. ReadingOk' BY <1>2 DEF SInv, ReadingOk
<1>8. WritingOk' /\ InOrder' BY <1>1, <1>2, <1>3, EmptyWriter DEF WritingOk, InOrder
<1>9. PhaseOk' BY <1>1, <1>2, <1>3, <1>4, <1>5 DEF PhaseOk
<1>10. KeepOk' BY <1>2, <1>5 DEF KeepOk
<1>11. RootsOk' BY <1>2, <1>3, <1>6 DEF SInv, RootsOk
<1>12. CleanOk' BY <1>1, <1>2, <1>3, <1>6, EmptyWriter DEF SInv, CleanOk
<1> QED BY <1>2, <1>7, <1>8, <1>9, <1>10, <1>11, <1>12 DEF SInv

-----------------------------------------------------------------------------
(* The pages that are referred to.                                         *)

\* A pair refers to its overflows, an item to the child and to an overflow it owns.
LEMMA RefsFacts ==
    /\ \A p : (Refs(0, p) = {p.keyPage, p.valuePage} \ {NoPage}) /\ Overflows(0, p) = Refs(0, p)
    /\ \A d \in Nat \ {0} : \A c :
         /\ Refs(d, c) = ({c.page} \cup (IF c.location = "owned" THEN {c.overflow} ELSE {})) \ {NoPage}
         /\ Overflows(d, c) = (IF c.location = "owned" THEN {c.overflow} ELSE {}) \ {NoPage}
         /\ Refs(d, c) = Refs(1, c)
<1>1. ASSUME NEW p
      PROVE  (Refs(0, p) = {p.keyPage, p.valuePage} \ {NoPage}) /\ Overflows(0, p) = Refs(0, p)
  <2>1. PageOf(0, p, "child") = NoPage /\ PageOf(0, p, "key") = p.keyPage
        /\ PageOf(0, p, "value") = p.valuePage
    BY DEF PageOf
  <2> QED BY <2>1 DEF Refs, What, Overflows
<1>2. ASSUME NEW d \in Nat \ {0}, NEW c
      PROVE  /\ Refs(d, c) = ({c.page} \cup (IF c.location = "owned" THEN {c.overflow} ELSE {})) \ {NoPage}
             /\ Overflows(d, c) = (IF c.location = "owned" THEN {c.overflow} ELSE {}) \ {NoPage}
  <2>1. /\ PageOf(d, c, "child") = c.page
        /\ PageOf(d, c, "key") = IF c.location = "owned" THEN c.overflow ELSE NoPage
        /\ PageOf(d, c, "value") = NoPage
    BY DEF PageOf
  <2> QED BY <2>1 DEF Refs, What, Overflows
<1> QED BY <1>1, <1>2

\* What a node of a sound file refers to.
LEMMA NodeRefs ==
    ASSUME NEW f, FileOk(f), NEW n, IsNode(f, n)
    PROVE  /\ IsInner(f, n) => \A i \in DOMAIN f[n].items :
                 /\ f[n].items[i].page \in NodePages(f, n)
                 /\ f[n].items[i].location = "owned" => f[n].items[i].overflow \in NodePages(f, n)
           /\ IsLeaf(f, n) => \A i \in DOMAIN f[n].items :
                 /\ f[n].items[i].keyPage # NoPage => f[n].items[i].keyPage \in NodePages(f, n)
                 /\ f[n].items[i].valuePage # NoPage => f[n].items[i].valuePage \in NodePages(f, n)
           /\ \A q \in NodePages(f, n) : q \in DOMAIN f /\ (IsOverflow(f, q) \/ (q \in Children(f, n) /\ IsInner(f, n)))
<1>1. n \in DOMAIN f /\ Forest(f) /\ PageOk(f, n) BY DEF IsNode, IsLeaf, IsInner, FileOk
<1>2. CASE IsInner(f, n)
  <2> DEFINE d == f[n].depth
             s == f[n].items
  <2>1. d \in Nat \ {0} /\ s \in Seq(ItemRec) /\ ~IsLeaf(f, n) BY <1>1, <1>2, NodeFacts, ChildFacts
  <2>2. \A i \in DOMAIN s : ItemOk(f, d, s[i]) /\ s[i].page \in Children(f, n)
    BY <1>1, <1>2 DEF PageOk, ItemsOk, Children
  <2>3. \A i \in DOMAIN s : s[i].page \in DOMAIN f /\ s[i].page # NoPage
                            /\ (s[i].location = "owned" => IsOverflow(f, s[i].overflow)
                                                           /\ s[i].overflow \in DOMAIN f /\ s[i].overflow # NoPage)
    BY <1>1, <2>2 DEF ItemOk, IsOverflow, IsNode, IsLeaf, IsInner, Forest
  <2> HIDE DEF d, s
  <2>4. \A i \in DOMAIN s : Refs(d, s[i]) = ({s[i].page} \cup (IF s[i].location = "owned" THEN {s[i].overflow} ELSE {})) \ {NoPage}
    BY <2>1, RefsFacts
  <2>5. NodePages(f, n) = PagesOf(d, s) BY DEF NodePages, d, s
  <2>6. \A i \in DOMAIN s : s[i].page \in PagesOf(d, s)
                            /\ (s[i].location = "owned" => s[i].overflow \in PagesOf(d, s))
    BY <2>3, <2>4 DEF PagesOf
  <2>7. \A q \in PagesOf(d, s) : q \in DOMAIN f /\ (IsOverflow(f, q) \/ q \in Children(f, n))
    BY <2>2, <2>3, <2>4 DEF PagesOf
  <2> QED BY <1>2, <2>1, <2>5, <2>6, <2>7 DEF s
<1>3. CASE IsLeaf(f, n)
  <2> DEFINE s == f[n].items
  <2>1. f[n].depth = 0 /\ ~IsInner(f, n) BY <1>1, <1>3, NodeFacts
  <2>2. \A i \in DOMAIN s : PairOk(f, s[i]) BY <1>1, <1>3 DEF PageOk, LeafOk, PairsOk
  <2>3. NodePages(f, n) = PagesOf(0, s) BY <2>1 DEF NodePages
  <2> HIDE DEF s
  <2>4. \A i \in DOMAIN s : Refs(0, s[i]) = {s[i].keyPage, s[i].valuePage} \ {NoPage} BY RefsFacts
  <2>5. \A i \in DOMAIN s : /\ s[i].keyPage # NoPage => s[i].keyPage \in PagesOf(0, s)
                            /\ s[i].valuePage # NoPage => s[i].valuePage \in PagesOf(0, s)
    BY <2>4 DEF PagesOf
  <2>6. \A q \in PagesOf(0, s) : q \in DOMAIN f /\ IsOverflow(f, q)
    BY <2>2, <2>4 DEF PagesOf, PairOk, IsOverflow
  <2> QED BY <2>1, <2>3, <2>5, <2>6 DEF s
<1> QED BY <1>2, <1>3 DEF IsNode

\* Pages are taken out of a file that no other page refers to.
LEMMA FileShrinks ==
    ASSUME NEW f, FileOk(f), NEW out, NEW g, DOMAIN g = DOMAIN f \ out, \A q \in DOMAIN g : g[q] = f[q],
           \A n \in DOMAIN g : IsNode(f, n) => NodePages(f, n) \cap out = {}
    PROVE  FileOk(g) /\ Extends(f, g) /\ \A n \in DOMAIN g : IsNode(g, n) <=> IsNode(f, n)
<1>1. DOMAIN g = DOMAIN f \ out /\ \A n \in DOMAIN g : g[n] = f[n] OBVIOUS
<1>2. Extends(f, g) BY <1>1 DEF Extends
<1>3. Forest(f) /\ \A n \in DOMAIN f : PageOk(f, n) BY DEF FileOk
<1>4. \A n \in DOMAIN g : /\ IsLeaf(f, n) <=> IsLeaf(g, n)
                          /\ IsInner(f, n) <=> IsInner(g, n)
                          /\ IsNode(f, n) <=> IsNode(g, n)
                          /\ IsOverflow(f, n) <=> IsOverflow(g, n)
                          /\ Children(f, n) = Children(g, n)
  BY <1>2, PagesStay
<1>5. \A n \in DOMAIN g : IsNode(f, n) => \A q \in NodePages(f, n) : q \in DOMAIN g
  BY <1>1, NodeRefs
<1>6. \A n \in DOMAIN g : IsInner(f, n) => \A i \in DOMAIN f[n].items : f[n].items[i].page \in DOMAIN g
  BY <1>5, NodeRefs DEF IsNode
<1>7. Forest(g)
  <2>1. IsFiniteSet(DOMAIN g) /\ DOMAIN g \subseteq Nat \ {NoPage}
    BY <1>1, <1>3, FS_Subset DEF Forest
  <2>2. \A n \in DOMAIN g : IsNode(g, n) \/ g[n] = Overflow BY <1>1, <1>3, <1>4 DEF Forest
  <2>3. ASSUME NEW n \in DOMAIN g, IsInner(g, n), NEW c \in Children(g, n)
        PROVE  IsNode(g, c) /\ g[c].depth = g[n].depth - 1
    <3>1. IsInner(f, n) /\ c \in Children(f, n) /\ n \in DOMAIN f BY <1>1, <1>4, <2>3
    <3>2. c \in DOMAIN g BY <1>6, <3>1 DEF Children
    <3>3. IsNode(f, c) /\ f[c].depth = f[n].depth - 1 BY <1>3, <3>1 DEF Forest
    <3> QED BY <1>1, <1>4, <3>2, <3>3
  <2> QED BY <2>1, <2>2, <2>3 DEF Forest
<1>8. ASSUME NEW n \in DOMAIN g
      PROVE  PageOk(g, n)
  <2> DEFINE s == f[n].items
             d == f[n].depth
  <2>1. n \in DOMAIN f /\ PageOk(f, n) /\ g[n] = f[n] BY <1>1, <1>3, <1>8
  <2>2. ASSUME IsLeaf(g, n)
        PROVE  LeafOk(g, s)
    <3>1. IsLeaf(f, n) /\ IsNode(f, n) /\ LeafOk(f, s) BY <1>4, <1>8, <2>1, <2>2 DEF PageOk, IsNode
    <3>2. \A i \in DOMAIN s : PairOk(f, s[i]) /\ (s[i].keyPage # NoPage => s[i].keyPage \in DOMAIN g)
                              /\ (s[i].valuePage # NoPage => s[i].valuePage \in DOMAIN g)
      BY <1>5, <1>8, <3>1, NodeRefs DEF LeafOk, PairsOk
    <3> HIDE DEF s
    <3>3. \A i \in DOMAIN s : PairOk(g, s[i]) BY <1>4, <3>2 DEF PairOk
    <3> QED BY <3>1, <3>3 DEF LeafOk, PairsOk
  <2>3. ASSUME IsInner(g, n)
        PROVE  ItemsOk(g, d, s)
    <3>1. IsInner(f, n) /\ IsNode(f, n) /\ ItemsOk(f, d, s)
      BY <1>4, <1>8, <2>1, <2>3 DEF PageOk, IsNode
    <3>2. \A i \in DOMAIN s : /\ ItemOk(f, d, s[i]) /\ s[i].page \in DOMAIN g
                              /\ s[i].location = "owned" => s[i].overflow \in DOMAIN g
      BY <1>5, <1>8, <3>1, NodeRefs DEF ItemsOk
    <3> HIDE DEF s, d
    <3>3. \A i \in DOMAIN s : KeysUnder(g, s[i].page) = KeysUnder(f, s[i].page)
      BY <1>2, <1>3, <1>7, <3>2, TreesStay
    <3>4. ASSUME NEW i \in DOMAIN s
          PROVE  ItemOk(g, d, s[i])
      <4>1. g[s[i].page] = f[s[i].page] /\ s[i].page \in DOMAIN g /\ IsNode(g, s[i].page)
        BY <1>1, <1>4, <3>2 DEF ItemOk
      <4>2. AgreesWith(g, d, s[i]) BY <3>2, <4>1 DEF ItemOk, AgreesWith
      <4>3. LastItem(g, s[i].page) = LastItem(f, s[i].page) BY <4>1 DEF LastItem
      <4>4. s[i].location = "owned" => IsOverflow(g, s[i].overflow) BY <1>4, <3>2 DEF ItemOk
      <4> QED BY <3>2, <4>1, <4>2, <4>3, <4>4 DEF ItemOk
    <3> QED BY <3>1, <3>3, <3>4 DEF ItemsOk, Before
  <2> QED BY <1>4, <1>8, <2>1, <2>2, <2>3 DEF PageOk
<1> QED BY <1>2, <1>4, <1>7, <1>8 DEF FileOk

\* A merge is committed, of which the pages that stay do not refer to freed ones.
LEMMA CommitMergeSound ==
    ASSUME SInv, CommitMerge,
           \A n \in DOMAIN file \ freed : IsNode(file, n) => NodePages(file, n) \cap freed = {},
           pending.upper \notin freed, pending.lower \notin freed
    PROVE  SInv' /\ FileOk(file') /\ Extends(file, file')
<1>1. /\ phase = "prepared" /\ phase' = "idle"
      /\ upper' = pending.upper /\ lower' = pending.lower
      /\ file' = [q \in DOMAIN file \ freed |-> file[q]]
      /\ promoted' = {} /\ freed' = {} /\ dropped' = {} /\ pending' = NoSegments
      /\ todo' = <<>>
      /\ UNCHANGED <<writes, pairs, reading, keep, writer, refreed>>
  BY DEF CommitMerge
<1>2. UNCHANGED <<leaf, chain, hand, level>> BY <1>1 DEF writer
<1>3. /\ pairs = {} /\ reading = <<>>
      /\ leaf = <<>> /\ chain = NewChain /\ hand = <<>> /\ keep = 0
  BY <1>1 DEF SInv, PhaseOk
<1>4. FileOk(file) /\ RootOk(file, pending.upper) /\ RootOk(file, pending.lower)
  BY DEF SInv, RootsOk
<1>5. DOMAIN file' = DOMAIN file \ freed BY <1>1
<1>6. FileOk(file') /\ Extends(file, file') /\ \A n \in DOMAIN file' : IsNode(file', n) <=> IsNode(file, n)
  <2> DEFINE g == [q \in DOMAIN file \ freed |-> file[q]]
  <2>1. DOMAIN g = DOMAIN file \ freed /\ file' = g /\ \A q \in DOMAIN g : g[q] = file[q] BY <1>1
  <2>2. \A n \in DOMAIN g : IsNode(file, n) => NodePages(file, n) \cap freed = {} BY <2>1
  <2> HIDE DEF g
  <2>3. FileOk(g) /\ Extends(file, g) /\ \A n \in DOMAIN g : IsNode(g, n) <=> IsNode(file, n)
    BY <1>4, <2>1, <2>2, FileShrinks
  <2> QED BY <2>1, <2>3
<1>7. \A root : RootOk(file, root) /\ root \notin freed => RootOk(file', root)
  BY <1>5, <1>6 DEF RootOk, IsNode, IsLeaf, IsInner
<1>8. RootsOk'
  <2>1. pending' \in [upper : Nat, lower : Nat, panicked : BOOLEAN] /\ pending'.upper = NoPage
        /\ pending'.lower = NoPage
    BY <1>1 DEF NoSegments, NoPage
  <2> QED BY <1>1, <1>4, <1>7, <2>1 DEF RootsOk, RootOk
<1>9. PhaseOk' BY <1>1, <1>2, <1>3 DEF PhaseOk, Unmerged
<1>10. KeepOk' BY <1>1, <1>3 DEF KeepOk
<1>11. WritingOk' /\ InOrder' BY <1>2, <1>3, EmptyWriter DEF WritingOk, InOrder
<1>12. ReadingOk' BY <1>1, <1>3, NothingToDo DEF ReadingOk, SourcesOk
<1>13. CleanOk'
  <2>1. LevelsClean(file', promoted', chain') /\ AllClean(file', promoted', hand')
    BY <1>2, <1>3, EmptyWriter
  <2>2. RootClean(file', promoted', pending'.upper) /\ RootClean(file', promoted', pending'.lower)
    BY <1>1 DEF RootClean, Clean
  <2> QED BY <1>1, <2>1, <2>2 DEF CleanOk
<1>14. writes' \in Nat BY <1>1 DEF SInv
<1> QED BY <1>6, <1>8, <1>9, <1>10, <1>11, <1>12, <1>13, <1>14 DEF SInv

-----------------------------------------------------------------------------
(* Who has which page: the lists of the writer, what is still to be        *)
(* written, the roots, the freed and the lost pages, and the nodes that    *)
(* are not promoted or freed.                                              *)

\* Holders of different names are different.
LEMMA OneHolder ==
    \A k, l, n, m : At(k, n) = At(l, m) => k = l /\ n = m
  BY DEF At

\* Which holders there are.
LEMMA HolderFacts ==
    /\ \A k \in {"leaf", "reading", "hand", "pairs", "freed", "lost"} : At(k, 0) \in Holders
    /\ At("root", 1) \in Holders /\ At("root", 2) \in Holders
    /\ \A n \in Nat : At("chain", n) \in Holders /\ At("todo", n) \in Holders /\ At("node", n) \in Holders
    /\ \A h \in Holders :
         \/ \E k \in {"leaf", "reading", "hand", "pairs", "freed", "lost"} : h = At(k, 0)
         \/ h = At("root", 1) \/ h = At("root", 2)
         \/ \E n \in Nat : h = At("chain", n) \/ h = At("todo", n) \/ h = At("node", n)
  BY DEF Holders, At

\* What Owned says of each holder.
LEMMA OwnedParts ==
    ASSUME NEW f, NEW hs, NEW lf, NEW ch, NEW hd, NEW ps, NEW rd, NEW td, NEW pr, NEW fr, NEW lo
    PROVE  OwnedAre(Owned(f, hs, lf, ch, hd, ps, rd, td, pr, fr, lo),
                    f, hs, lf, ch, hd, ps, rd, td, pr, fr, lo)
<1> DEFINE H == Owned(f, hs, lf, ch, hd, ps, rd, td, pr, fr, lo)
<1>1. /\ H[At("leaf", 0)] = PagesOf(0, lf) /\ H[At("reading", 0)] = PagesOf(0, rd)
      /\ H[At("hand", 0)] = PagesOf(1, hd) /\ H[At("pairs", 0)] = PairsPages(ps)
      /\ H[At("freed", 0)] = fr /\ H[At("lost", 0)] = lo
  BY HolderFacts DEF Owned, At
<1>2. H[At("root", 1)] = RootPages(hs, pr \cap fr, 1) /\ H[At("root", 2)] = RootPages(hs, pr \cap fr, 2)
  BY HolderFacts DEF Owned, At
<1>3. ASSUME NEW d \in Nat
      PROVE  H[At("chain", d)] = LevelPages(ch, d)
  <2> DEFINE h == At("chain", d)
  <2>1. h \in Holders /\ h[1] = "chain" /\ h[2] = d BY HolderFacts DEF At
  <2> HIDE DEF h
  <2>2. H[h] = LevelPages(ch, d) BY <2>1 DEF Owned
  <2> QED BY <2>2 DEF h
<1>4. ASSUME NEW d \in Nat
      PROVE  H[At("todo", d)] = TodoPages(td, pr \cap fr, d)
  <2> DEFINE h == At("todo", d)
  <2>1. h \in Holders /\ h[1] = "todo" /\ h[2] = d BY HolderFacts DEF At
  <2> HIDE DEF h
  <2>2. H[h] = TodoPages(td, pr \cap fr, d) BY <2>1 DEF Owned
  <2> QED BY <2>2 DEF h
<1>5. ASSUME NEW n \in Nat
      PROVE  H[At("node", n)] = LivePages(f, pr, fr, n)
  <2> DEFINE h == At("node", n)
  <2>1. h \in Holders /\ h[1] = "node" /\ h[2] = n BY HolderFacts DEF At
  <2> HIDE DEF h
  <2>2. H[h] = LivePages(f, pr, fr, n) BY <2>1 DEF Owned
  <2> QED BY <2>2 DEF h
<1> QED BY <1>1, <1>2, <1>3, <1>4, <1>5 DEF OwnedAre

\* SameBut says of all the others that they have the same.
LEMMA OtherHolders ==
    ASSUME NEW H, NEW G, NEW S, SameBut(S, H, G)
    PROVE  \A h \in Holders \ S : G[h] = H[h]
<1> SUFFICES ASSUME NEW h \in Holders, h \notin S
             PROVE  G[h] = H[h]
  OBVIOUS
<1>1. CASE \E k \in {"leaf", "reading", "hand", "pairs", "freed", "lost"} : h = At(k, 0)
  BY <1>1 DEF SameBut
<1>2. CASE h = At("root", 1) \/ h = At("root", 2) BY <1>2 DEF SameBut
<1>3. CASE \E n \in Nat : h = At("chain", n) \/ h = At("todo", n) \/ h = At("node", n)
  BY <1>3 DEF SameBut
<1> QED BY <1>1, <1>2, <1>3, HolderFacts

\* When some holders exchange pages, every page has one holder afterwards.
LEMMA MovePages ==
    ASSUME NEW S, NEW H, NEW G, NEW D, NEW E, Partition(H, D), SameBut(S, H, G), Exchange(S, H, G, D, E)
    PROVE  Partition(G, E)
<1>4. \A h \in Holders \ S : G[h] = H[h] BY OtherHolders
<1>1. ASSUME NEW h \in Holders, NEW q \in G[h]
      PROVE  q \in E
  BY <1>1, <1>4 DEF Partition, Exchange
<1>2. ASSUME NEW q \in E
      PROVE  \E h \in Holders : q \in G[h]
  <2>1. CASE q \in D
    <3>1. PICK h \in Holders : q \in H[h] BY <2>1 DEF Partition
    <3> QED BY <3>1, <1>4 DEF Exchange
  <2> QED BY <1>2, <2>1 DEF Exchange
<1>3. ASSUME NEW h \in Holders, NEW g \in Holders, h # g
      PROVE  G[h] \cap G[g] = {}
  <2>1. ASSUME NEW a \in S, NEW b \in Holders \ S
        PROVE  G[a] \cap G[b] = {}
    <3> SUFFICES ASSUME NEW q \in G[a], q \in G[b]
                 PROVE  FALSE
      OBVIOUS
    <3>1. q \in H[b] /\ q \in D BY <2>1, <1>4 DEF Partition, Exchange
    <3>2. PICK c \in S : q \in H[c] BY <2>1, <3>1 DEF Exchange
    <3> QED BY <2>1, <3>1, <3>2 DEF Partition, Exchange
  <2>2. CASE h \in S /\ g \in S BY <1>3, <2>2 DEF Exchange
  <2>3. CASE h \notin S /\ g \notin S BY <1>3, <2>3, <1>4 DEF Partition, Exchange
  <2> QED BY <1>3, <2>1, <2>2, <2>3
<1> QED BY <1>1, <1>2, <1>3 DEF Partition

\* What two lists have that differ by an item.
LEMMA PagesTail ==
    ASSUME NEW S, NEW s \in Seq(S), s # <<>>, NEW d
    PROVE  /\ PagesOf(d, s) = Refs(d, Head(s)) \cup PagesOf(d, Tail(s))
           /\ Distinct(d, s) => /\ Distinct(d, Tail(s)) /\ Single(d, Head(s))
                                /\ Refs(d, Head(s)) \cap PagesOf(d, Tail(s)) = {}
           /\ ItemPages(s) = {Head(s).page} \cup ItemPages(Tail(s))
           /\ Once(s) => Once(Tail(s)) /\ Head(s).page \notin ItemPages(Tail(s))
<1> DEFINE t == Tail(s)
           N == Len(s)
<1>1. /\ Head(s) = s[1] /\ 1 \in DOMAIN s /\ DOMAIN t = 1..N - 1 /\ DOMAIN s = 1..N /\ N \in Nat
      /\ \A i \in DOMAIN t : t[i] = s[i + 1] /\ i + 1 \in DOMAIN s /\ 1 < i + 1 /\ i \in Nat
  BY TailFacts
<1> HIDE DEF t, N
<1>2. \A i \in DOMAIN s : i # 1 => i - 1 \in DOMAIN t /\ t[i - 1] = s[i]
  <2> TAKE i \in DOMAIN s
  <2> HAVE i # 1
  <2>1. i \in Nat /\ i >= 1 /\ i <= N /\ i - 1 \in DOMAIN t BY <1>1
  <2>2. t[i - 1] = s[(i - 1) + 1] BY <1>1, <2>1
  <2> QED BY <2>1, <2>2
<1>3. PagesOf(d, s) = Refs(d, Head(s)) \cup PagesOf(d, t) BY <1>1, <1>2 DEF PagesOf
<1>4. ItemPages(s) = {Head(s).page} \cup ItemPages(t) BY <1>1, <1>2 DEF ItemPages
<1>5. ASSUME Distinct(d, s)
      PROVE  /\ Distinct(d, t) /\ Single(d, Head(s))
             /\ Refs(d, Head(s)) \cap PagesOf(d, t) = {}
  <2>1. \A i \in DOMAIN t : Single(d, t[i]) /\ Refs(d, s[1]) \cap Refs(d, t[i]) = {}
    BY <1>1, <1>5 DEF Distinct
  <2>2. \A i, j \in DOMAIN t : i # j => Refs(d, t[i]) \cap Refs(d, t[j]) = {}
    <3> TAKE i, j \in DOMAIN t
    <3> HAVE i # j
    <3>1. i + 1 # j + 1 /\ i + 1 \in DOMAIN s /\ j + 1 \in DOMAIN s BY <1>1
    <3> QED BY <1>1, <1>5, <3>1 DEF Distinct
  <2>3. Distinct(d, t) BY <2>1, <2>2 DEF Distinct
  <2>4. Refs(d, s[1]) \cap PagesOf(d, t) = {} BY <2>1 DEF PagesOf
  <2> QED BY <1>1, <1>5, <2>3, <2>4 DEF Distinct
<1>6. ASSUME Once(s)
      PROVE  Once(t) /\ Head(s).page \notin ItemPages(t)
  <2>1. \A i \in DOMAIN t : s[1].page # t[i].page BY <1>1, <1>6 DEF Once
  <2>2. \A i, j \in DOMAIN t : i # j => t[i].page # t[j].page
    <3> TAKE i, j \in DOMAIN t
    <3> HAVE i # j
    <3>1. i + 1 # j + 1 /\ i + 1 \in DOMAIN s /\ j + 1 \in DOMAIN s BY <1>1
    <3> QED BY <1>1, <1>6, <3>1 DEF Once
  <2> QED BY <1>1, <2>1, <2>2 DEF Once, ItemPages
<1> QED BY <1>3, <1>4, <1>5, <1>6 DEF t

\* A list that gets an item has the pages of the item too.
LEMMA PagesAppended ==
    ASSUME NEW S, NEW s \in Seq(S), NEW c \in S, NEW d
    PROVE  /\ PagesOf(d, Append(s, c)) = PagesOf(d, s) \cup Refs(d, c)
           /\ Distinct(d, s) /\ Single(d, c) /\ Refs(d, c) \cap PagesOf(d, s) = {}
                => Distinct(d, Append(s, c))
<1> DEFINE t == Append(s, c)
           N == Len(s)
<1>1. /\ N \in Nat /\ DOMAIN s = 1..N /\ DOMAIN t = 1..N + 1 /\ t[N + 1] = c
      /\ \A i \in DOMAIN s : t[i] = s[i]
  OBVIOUS
<1> HIDE DEF t, N
<1>2. N + 1 \in DOMAIN t /\ \A i \in DOMAIN t : i \in DOMAIN s \/ i = N + 1 BY <1>1
<1>3. \A i \in DOMAIN s : i \in DOMAIN t BY <1>1
<1>4. PagesOf(d, t) = PagesOf(d, s) \cup Refs(d, c) BY <1>1, <1>2, <1>3 DEF PagesOf
<1>5. ASSUME Distinct(d, s), Single(d, c), Refs(d, c) \cap PagesOf(d, s) = {}
      PROVE  Distinct(d, t)
  <2>1. \A i \in DOMAIN t : Single(d, t[i]) BY <1>1, <1>2, <1>5 DEF Distinct
  <2>2. \A i \in DOMAIN s : Refs(d, s[i]) \cap Refs(d, c) = {} BY <1>5 DEF PagesOf
  <2> QED BY <1>1, <1>2, <1>5, <2>1, <2>2 DEF Distinct
<1> QED BY <1>4, <1>5 DEF t

\* An empty list, and one item.
LEMMA FewPages ==
    ASSUME NEW d
    PROVE  /\ PagesOf(d, <<>>) = {} /\ Distinct(d, <<>>) /\ Once(<<>>) /\ ItemPages(<<>>) = {}
           /\ \A c : PagesOf(d, <<c>>) = Refs(d, c) /\ (Single(d, c) <=> Distinct(d, <<c>>))
<1>1. PagesOf(d, <<>>) = {} /\ Distinct(d, <<>>) /\ Once(<<>>) /\ ItemPages(<<>>) = {}
  BY DEF PagesOf, Distinct, Once, ItemPages
<1>2. ASSUME NEW c
      PROVE  PagesOf(d, <<c>>) = Refs(d, c) /\ (Single(d, c) <=> Distinct(d, <<c>>))
  <2> DEFINE s == <<c>>
  <2>1. DOMAIN s = {1} /\ s[1] = c OBVIOUS
  <2> HIDE DEF s
  <2>2. PagesOf(d, s) = Refs(d, c) /\ (Single(d, c) <=> Distinct(d, s))
    BY <2>1 DEF PagesOf, Distinct
  <2> QED BY <2>2 DEF s
<1> QED BY <1>1, <1>2

\* When a pair or an item refers to no page twice.
LEMMA SingleFacts ==
    /\ \A p : Single(0, p) <=> (p.keyPage = p.valuePage => p.keyPage = NoPage)
    /\ \A d \in Nat \ {0} : \A c :
         /\ Single(d, c) <=> (c.location = "owned" /\ c.overflow = c.page => c.page = NoPage)
         /\ Single(d, c) <=> Single(1, c)
<1>1. ASSUME NEW p
      PROVE  Single(0, p) <=> (p.keyPage = p.valuePage => p.keyPage = NoPage)
  <2>1. PageOf(0, p, "child") = NoPage /\ PageOf(0, p, "key") = p.keyPage
        /\ PageOf(0, p, "value") = p.valuePage
    BY DEF PageOf
  <2> QED BY <2>1 DEF Single, What
<1>2. ASSUME NEW d \in Nat \ {0}, NEW c
      PROVE  Single(d, c) <=> (c.location = "owned" /\ c.overflow = c.page => c.page = NoPage)
  <2>1. /\ PageOf(d, c, "child") = c.page
        /\ PageOf(d, c, "key") = IF c.location = "owned" THEN c.overflow ELSE NoPage
        /\ PageOf(d, c, "value") = NoPage
    BY DEF PageOf
  <2> QED BY <2>1 DEF Single, What
<1> QED BY <1>1, <1>2

\* What the nodes have when more pages, none of them promoted, are freed.
LEMMA FreeMore ==
    ASSUME NEW f, NEW pr, NEW fr, NEW x, pr \cap x = {}
    PROVE  FreedMore(f, pr, fr, x, fr \cup x)
<1>1. pr \cap (fr \cup x) = pr \cap fr OBVIOUS
<1>2. \A n : n \notin x => LivePages(f, pr, fr \cup x, n) = LivePages(f, pr, fr, n)
  BY <1>1 DEF LivePages
<1>3. \A n : n \in x => LivePages(f, pr, fr \cup x, n) = {} BY DEF LivePages
<1>4. \A n : IsOverflow(f, n) => ~IsNode(f, n)
  BY DEF IsOverflow, IsNode, IsLeaf, IsInner, LeafNode, ParentNode, Overflow
<1>5. NodesDistinct(f, pr, fr) => NodesDistinct(f, pr, fr \cup x) BY DEF NodesDistinct
<1> QED BY <1>1, <1>2, <1>3, <1>4, <1>5 DEF LivePages, FreedMore

\* What the nodes have stays theirs when pages are written.
LEMMA NodesStay ==
    ASSUME NEW f, NEW g, Extends(g, f), NEW pr, NEW fr
    PROVE  /\ \A n \in DOMAIN f : LivePages(g, pr, fr, n) = LivePages(f, pr, fr, n)
           /\ \A n : n \notin DOMAIN f => LivePages(f, pr, fr, n) = {}
           /\ \A n : ~IsNode(g, n) => LivePages(g, pr, fr, n) = {}
           /\ NodesDistinct(f, pr, fr) /\ (\A n \in DOMAIN g \ DOMAIN f :
                IsNode(g, n) /\ n \notin pr \cup fr => Distinct(g[n].depth, g[n].items))
                => NodesDistinct(g, pr, fr)
           /\ \A n : IsOverflow(f, n) => IsOverflow(g, n)
<1>1. \A n \in DOMAIN f : (IsNode(g, n) <=> IsNode(f, n)) /\ g[n] = f[n] /\ n \in DOMAIN g
                          /\ (IsOverflow(f, n) <=> IsOverflow(g, n))
  BY PagesStay
<1>2. \A n : (IsNode(f, n) \/ IsOverflow(f, n) => n \in DOMAIN f) /\ (IsNode(g, n) => n \in DOMAIN g)
  BY DEF IsNode, IsLeaf, IsInner, IsOverflow
<1>3. \A n \in DOMAIN f : LivePages(g, pr, fr, n) = LivePages(f, pr, fr, n)
  BY <1>1 DEF LivePages, NodePages
<1>4. \A n : n \notin DOMAIN f => LivePages(f, pr, fr, n) = {} BY <1>2 DEF LivePages
<1>5. \A n : ~IsNode(g, n) => LivePages(g, pr, fr, n) = {} BY DEF LivePages
<1>6. ASSUME NodesDistinct(f, pr, fr),
             \A n \in DOMAIN g \ DOMAIN f :
                IsNode(g, n) /\ n \notin pr \cup fr => Distinct(g[n].depth, g[n].items)
      PROVE  NodesDistinct(g, pr, fr)
  <2> SUFFICES ASSUME NEW n, IsNode(g, n), n \notin pr \cup fr
               PROVE  Distinct(g[n].depth, g[n].items)
    BY DEF NodesDistinct
  <2>1. CASE n \in DOMAIN f BY <1>1, <1>6, <2>1 DEF NodesDistinct
  <2> QED BY <1>2, <1>6, <2>1
<1> QED BY <1>1, <1>2, <1>3, <1>4, <1>5, <1>6

\* A leaf or a parent that is written has the pages it refers to.
LEMMA NewNode ==
    ASSUME NEW f, Forest(f), NEW node, NEW g, g = WritePage(f, node), NEW new, new = NextPage(f),
           node \in LeafNode \/ node \in ParentNode, NEW pr, NEW fr, pr \subseteq DOMAIN f, fr \subseteq DOMAIN f,
           PagesOf(node.depth, node.items) \cap fr = {}
    PROVE  NodeAdded(f, g, new, node, pr, fr)
<1>1. Extends(g, f) /\ DOMAIN g = DOMAIN f \cup {new} /\ g[new] = node BY WritePageFacts
<1>2. new \in Nat /\ new # NoPage /\ new \notin DOMAIN f BY NextPageFacts
<1>3. IsNode(g, new) BY <1>1 DEF IsNode, IsLeaf, IsInner
<1>4. LivePages(g, pr, fr, new) = PagesOf(node.depth, node.items)
  BY <1>1, <1>2, <1>3 DEF LivePages, NodePages
<1>5. \A n \in DOMAIN f : LivePages(g, pr, fr, n) = LivePages(f, pr, fr, n) BY <1>1, NodesStay
<1>6. \A n : n \notin DOMAIN f => LivePages(f, pr, fr, n) = {} BY <1>1, NodesStay
<1>7. \A n : ~IsNode(g, n) => LivePages(g, pr, fr, n) = {} BY <1>1, NodesStay
<1>8. \A n : n \notin DOMAIN g => ~IsNode(g, n) BY DEF IsNode, IsLeaf, IsInner
<1>9. \A n : n # new => LivePages(g, pr, fr, n) = LivePages(f, pr, fr, n)
  BY <1>1, <1>5, <1>6, <1>7, <1>8
<1>10. ASSUME NodesDistinct(f, pr, fr), Distinct(node.depth, node.items)
       PROVE  NodesDistinct(g, pr, fr)
  <2>1. \A n \in DOMAIN g \ DOMAIN f : g[n] = node BY <1>1
  <2>2. \A n \in DOMAIN g \ DOMAIN f :
           IsNode(g, n) /\ n \notin pr \cup fr => Distinct(g[n].depth, g[n].items)
    BY <1>10, <2>1
  <2> QED BY <1>1, <1>10, <2>2, NodesStay
<1>11. \A n : IsOverflow(f, n) => IsOverflow(g, n) BY <1>1, NodesStay
<1> QED BY <1>1, <1>2, <1>4, <1>6, <1>9, <1>10, <1>11 DEF NodeAdded

\* All parents refer to pages alike.
LEMMA AnyDepth ==
    ASSUME NEW d \in Nat \ {0}, NEW s
    PROVE  PagesOf(d, s) = PagesOf(1, s) /\ (Distinct(d, s) <=> Distinct(1, s))
<1>1. \A c : Refs(d, c) = Refs(1, c) /\ (Single(d, c) <=> Single(1, c)) BY RefsFacts, SingleFacts
<1>2. PagesOf(d, s) = PagesOf(1, s) BY <1>1 DEF PagesOf
<1>3. Distinct(d, s) <=> Distinct(1, s) BY <1>1 DEF Distinct
<1> QED BY <1>2, <1>3

\* A parent refers to its children and to the overflows it owns.
LEMMA InnerPages ==
    ASSUME NEW f, FileOk(f), NEW n, IsInner(f, n), NEW s, s = f[n].items
    PROVE  /\ NodePages(f, n) = OwnedOverflows(f[n]) \cup ItemPages(s)
           /\ \A q \in OwnedOverflows(f[n]) : IsOverflow(f, q)
           /\ Distinct(f[n].depth, s) => Once(s) /\ OwnedOverflows(f[n]) \cap ItemPages(s) = {}
<1> DEFINE d == f[n].depth
<1>1. n \in DOMAIN f /\ Forest(f) /\ PageOk(f, n) BY DEF IsInner, FileOk
<1>2. d \in Nat \ {0} /\ ItemsOk(f, d, s) BY <1>1, ChildFacts DEF PageOk
<1>3. \A i \in DOMAIN s : ItemOk(f, d, s[i]) /\ s[i].page # NoPage /\ ~IsOverflow(f, s[i].page)
  <2>1. \A i \in DOMAIN s : ItemOk(f, d, s[i]) BY <1>2 DEF ItemsOk
  <2> QED
    BY <1>1, <2>1 DEF ItemOk, IsNode, IsLeaf, IsInner, Forest, IsOverflow, LeafNode, ParentNode, Overflow
<1>4. NodePages(f, n) = PagesOf(d, s) BY DEF NodePages
<1>5. OwnedOverflows(f[n]) = UNION {Overflows(d, s[i]) : i \in DOMAIN s} BY DEF OwnedOverflows
<1> HIDE DEF d
<1>6. \A i \in DOMAIN s : /\ Refs(d, s[i]) = {s[i].page} \cup Overflows(d, s[i])
                          /\ \A q \in Overflows(d, s[i]) : IsOverflow(f, q)
  <2> TAKE i \in DOMAIN s
  <2>1. /\ Refs(d, s[i]) = ({s[i].page} \cup (IF s[i].location = "owned" THEN {s[i].overflow} ELSE {})) \ {NoPage}
        /\ Overflows(d, s[i]) = (IF s[i].location = "owned" THEN {s[i].overflow} ELSE {}) \ {NoPage}
    BY <1>2, RefsFacts
  <2>2. s[i].location = "owned" => IsOverflow(f, s[i].overflow) BY <1>3 DEF ItemOk
  <2> QED BY <1>3, <2>1, <2>2
<1>7. NodePages(f, n) = OwnedOverflows(f[n]) \cup ItemPages(s)
  <2>1. \A q : q \in NodePages(f, n) <=> \E i \in DOMAIN s : q \in Refs(d, s[i]) BY <1>4 DEF PagesOf
  <2>2. \A q : q \in OwnedOverflows(f[n]) <=> \E i \in DOMAIN s : q \in Overflows(d, s[i]) BY <1>5
  <2>3. \A q : q \in ItemPages(s) <=> \E i \in DOMAIN s : q = s[i].page BY DEF ItemPages
  <2>4. \A i \in DOMAIN s : \A q : q \in Refs(d, s[i]) <=> q = s[i].page \/ q \in Overflows(d, s[i])
    BY <1>6
  <2> SUFFICES ASSUME NEW q
               PROVE  q \in NodePages(f, n) <=> q \in OwnedOverflows(f[n]) \/ q \in ItemPages(s)
    OBVIOUS
  <2>5. q \in NodePages(f, n) <=> \E i \in DOMAIN s : q = s[i].page \/ q \in Overflows(d, s[i])
    BY <2>1, <2>4
  <2> QED BY <2>2, <2>3, <2>5
<1>8. \A q \in OwnedOverflows(f[n]) : IsOverflow(f, q) BY <1>5, <1>6
<1>9. ASSUME Distinct(d, s)
      PROVE  Once(s) /\ OwnedOverflows(f[n]) \cap ItemPages(s) = {}
  <2>1. \A i, j \in DOMAIN s : i # j => s[i].page # s[j].page
    <3>1. \A i \in DOMAIN s : s[i].page \in Refs(d, s[i]) BY <1>6
    <3>2. \A i, j \in DOMAIN s : i # j => Refs(d, s[i]) \cap Refs(d, s[j]) = {} BY <1>9 DEF Distinct
    <3> QED BY <3>1, <3>2
  <2>2. OwnedOverflows(f[n]) \cap ItemPages(s) = {} BY <1>3, <1>8 DEF ItemPages
  <2> QED BY <2>1, <2>2 DEF Once
<1> QED BY <1>7, <1>8, <1>9 DEF d

\* Nobody has anything else.
LEMMA SamePages ==
    ASSUME NEW H, NEW G, NEW D, Partition(H, D), SameBut({}, H, G)
    PROVE  Partition(G, D)
<1>1. \A h \in Holders : G[h] = H[h] BY OtherHolders
<1> QED BY <1>1 DEF Partition

-----------------------------------------------------------------------------
(* How pages go from one holder to another.                                *)

\* The first pair of the leaf that is rewritten becomes one to be put.
LEMMA ReadingToPairs ==
    ASSUME NEW f, NEW hs, NEW lf, NEW ch, NEW hd, NEW ps, NEW rd, NEW td, NEW pr, NEW fr, NEW lo,
           Owning(f, hs, lf, ch, hd, ps, rd, td, pr, fr, lo),
           rd \in Seq(PairRec), rd # <<>>, Head(rd) \notin ps
    PROVE  Owning(f, hs, lf, ch, hd, ps \cup {Head(rd)}, Tail(rd), td, pr, fr, lo)
<1> DEFINE p == Head(rd)
           t == Tail(rd)
           pp == ps \cup {p}
           H == Owned(f, hs, lf, ch, hd, ps, rd, td, pr, fr, lo)
           G == Owned(f, hs, lf, ch, hd, pp, t, td, pr, fr, lo)
           S == {At("pairs", 0), At("reading", 0)}
<1>1. OwnedAre(H, f, hs, lf, ch, hd, ps, rd, td, pr, fr, lo) BY OwnedParts
<1>2. OwnedAre(G, f, hs, lf, ch, hd, pp, t, td, pr, fr, lo) BY OwnedParts
<1>3. Partition(H, DOMAIN f) BY DEF Owning
<1>4. S \subseteq Holders /\ At("pairs", 0) \in S /\ At("reading", 0) \in S BY HolderFacts
<1>5. \A h \in S : h = At("pairs", 0) \/ h = At("reading", 0) OBVIOUS
<1>7. /\ PagesOf(0, rd) = Refs(0, p) \cup PagesOf(0, t)
      /\ Distinct(0, t) /\ Single(0, p) /\ Refs(0, p) \cap PagesOf(0, t) = {}
  BY PagesTail DEF Owning
<1>8. p \notin ps OBVIOUS
<1> HIDE DEF H, G, S, p, t
<1>6. SameBut(S, H, G) BY <1>1, <1>2, <1>4 DEF OwnedAre, SameBut
<1>9. PairsPages(pp) = PairsPages(ps) \cup Refs(0, p) BY DEF PairsPages
<1>10. PagesOf(0, rd) \cap PairsPages(ps) = {}
  BY <1>1, <1>3, <1>4, OneHolder DEF OwnedAre, Partition
<1>11. /\ G[At("pairs", 0)] = PairsPages(ps) \cup Refs(0, p) /\ G[At("reading", 0)] = PagesOf(0, t)
       /\ H[At("pairs", 0)] = PairsPages(ps) /\ H[At("reading", 0)] = Refs(0, p) \cup PagesOf(0, t)
  BY <1>1, <1>2, <1>7, <1>9 DEF OwnedAre
<1>12. Partition(G, DOMAIN f)
  <2>1. Exchange(S, H, G, DOMAIN f, DOMAIN f)
    BY <1>3, <1>4, <1>5, <1>7, <1>10, <1>11 DEF Exchange, Partition
  <2> QED BY <1>3, <1>6, <2>1, MovePages
<1>13. PairsDistinct(pp)
  <2>1. \A a \in ps : Refs(0, a) \cap Refs(0, p) = {} BY <1>7, <1>10 DEF PairsPages
  <2> QED BY <1>7, <1>8, <2>1 DEF Owning, PairsDistinct
<1> QED BY <1>7, <1>12, <1>13 DEF Owning, G, t, p

\* A pair, with the overflows it needed, is put into the leaf.
LEMMA PairPut ==
    ASSUME NEW f, NEW hs, NEW lf, NEW ch, NEW hd, NEW ps, NEW rd, NEW td, NEW pr, NEW fr, NEW lo,
           Owning(f, hs, lf, ch, hd, ps, rd, td, pr, fr, lo),
           lf \in Seq(PairRec), NEW p \in ps, NEW q \in PairRec, NEW g, Extends(g, f),
           \A n \in DOMAIN g \ DOMAIN f : ~IsNode(g, n),
           Single(0, q), Refs(0, q) = Refs(0, p) \cup (DOMAIN g \ DOMAIN f)
    PROVE  Owning(g, hs, Append(lf, q), ch, hd, ps \ {p}, rd, td, pr, fr, lo)
<1> DEFINE s == Append(lf, q)
           pp == ps \ {p}
           H == Owned(f, hs, lf, ch, hd, ps, rd, td, pr, fr, lo)
           G == Owned(g, hs, s, ch, hd, pp, rd, td, pr, fr, lo)
           S == {At("pairs", 0), At("leaf", 0)}
<1>1. OwnedAre(H, f, hs, lf, ch, hd, ps, rd, td, pr, fr, lo) BY OwnedParts
<1>2. OwnedAre(G, g, hs, s, ch, hd, pp, rd, td, pr, fr, lo) BY OwnedParts
<1>3. Partition(H, DOMAIN f) BY DEF Owning
<1>4. S \subseteq Holders /\ At("pairs", 0) \in S /\ At("leaf", 0) \in S BY HolderFacts
<1>5. \A h \in S : h = At("pairs", 0) \/ h = At("leaf", 0) OBVIOUS
<1>7. /\ PagesOf(0, s) = PagesOf(0, lf) \cup Refs(0, q)
      /\ Distinct(0, lf) /\ Single(0, q) /\ Refs(0, q) \cap PagesOf(0, lf) = {} => Distinct(0, s)
  BY PagesAppended
<1>8. /\ PairsPages(ps) = PairsPages(pp) \cup Refs(0, p) /\ PairsPages(pp) \cap Refs(0, p) = {}
      /\ PairsDistinct(pp)
  BY DEF PairsPages, Owning, PairsDistinct
<1>9. \A n : LivePages(g, pr, fr, n) = LivePages(f, pr, fr, n)
  <2>1. \A n : IsNode(g, n) => n \in DOMAIN g BY DEF IsNode, IsLeaf, IsInner
  <2>2. \A n \in DOMAIN f : LivePages(g, pr, fr, n) = LivePages(f, pr, fr, n) BY NodesStay
  <2>3. \A n : n \notin DOMAIN f => LivePages(f, pr, fr, n) = {} BY NodesStay
  <2>4. \A n : ~IsNode(g, n) => LivePages(g, pr, fr, n) = {} BY NodesStay
  <2> QED BY <2>1, <2>2, <2>3, <2>4
<1> HIDE DEF H, G, S, s, pp
<1>6. SameBut(S, H, G) BY <1>1, <1>2, <1>4, <1>9 DEF OwnedAre, SameBut
<1>10. PagesOf(0, lf) \cap PairsPages(ps) = {}
  BY <1>1, <1>3, <1>4, OneHolder DEF OwnedAre, Partition
<1>11. /\ G[At("pairs", 0)] = PairsPages(pp) /\ G[At("leaf", 0)] = PagesOf(0, lf) \cup Refs(0, q)
       /\ H[At("pairs", 0)] = PairsPages(pp) \cup Refs(0, p) /\ H[At("leaf", 0)] = PagesOf(0, lf)
  BY <1>1, <1>2, <1>7, <1>8 DEF OwnedAre
<1>12. \A h \in S : \A a \in H[h] : a \in DOMAIN f BY <1>3, <1>4 DEF Partition
<1>13. Refs(0, q) \cap PagesOf(0, lf) = {} BY <1>4, <1>8, <1>10, <1>11, <1>12
<1>14. Partition(G, DOMAIN g)
  <2>1. Exchange(S, H, G, DOMAIN f, DOMAIN g)
    BY <1>4, <1>5, <1>8, <1>10, <1>11, <1>12 DEF Exchange, Extends
  <2> QED BY <1>3, <1>6, <2>1, MovePages
<1>15. NodesDistinct(g, pr, fr) /\ \A a \in lo : IsOverflow(g, a) BY NodesStay DEF Owning
<1> QED BY <1>7, <1>8, <1>13, <1>14, <1>15 DEF Owning, G, s, pp

\* The overflows of the first pair of that leaf are freed.
LEMMA ReadingToFreed ==
    ASSUME NEW f, NEW hs, NEW lf, NEW ch, NEW hd, NEW ps, NEW rd, NEW td, NEW pr, NEW fr, NEW lo,
           Owning(f, hs, lf, ch, hd, ps, rd, td, pr, fr, lo),
           rd \in Seq(PairRec), rd # <<>>, NEW x, x = Refs(0, Head(rd)), pr \cap x = {},
           \A q \in x : IsOverflow(f, q)
    PROVE  x \cap fr = {} /\ Owning(f, hs, lf, ch, hd, ps, Tail(rd), td, pr, fr \cup x, lo)
<1> DEFINE t == Tail(rd)
           ff == fr \cup x
           H == Owned(f, hs, lf, ch, hd, ps, rd, td, pr, fr, lo)
           G == Owned(f, hs, lf, ch, hd, ps, t, td, pr, ff, lo)
           S == {At("freed", 0), At("reading", 0)}
<1>1. OwnedAre(H, f, hs, lf, ch, hd, ps, rd, td, pr, fr, lo) BY OwnedParts
<1>2. OwnedAre(G, f, hs, lf, ch, hd, ps, t, td, pr, ff, lo) BY OwnedParts
<1>3. Partition(H, DOMAIN f) BY DEF Owning
<1>4. S \subseteq Holders /\ At("freed", 0) \in S /\ At("reading", 0) \in S BY HolderFacts
<1>5. \A h \in S : h = At("freed", 0) \/ h = At("reading", 0) OBVIOUS
<1>7. /\ PagesOf(0, rd) = x \cup PagesOf(0, t)
      /\ Distinct(0, t) /\ x \cap PagesOf(0, t) = {}
  BY PagesTail DEF Owning
<1>8. /\ pr \cap ff = pr \cap fr /\ NodesDistinct(f, pr, ff)
      /\ \A n : LivePages(f, pr, ff, n) = LivePages(f, pr, fr, n)
  <2>1. FreedMore(f, pr, fr, x, ff) BY FreeMore
  <2>2. NodesDistinct(f, pr, fr) BY DEF Owning
  <2> QED BY <2>1, <2>2 DEF FreedMore
<1> HIDE DEF H, G, S, t, ff
<1>6. SameBut(S, H, G) BY <1>1, <1>2, <1>4, <1>8 DEF OwnedAre, SameBut
<1>9. PagesOf(0, rd) \cap fr = {} BY <1>1, <1>3, <1>4, OneHolder DEF OwnedAre, Partition
<1>10. /\ G[At("freed", 0)] = fr \cup x /\ G[At("reading", 0)] = PagesOf(0, t)
       /\ H[At("freed", 0)] = fr /\ H[At("reading", 0)] = x \cup PagesOf(0, t)
  BY <1>1, <1>2, <1>7 DEF OwnedAre, ff
<1>11. Partition(G, DOMAIN f)
  <2>1. Exchange(S, H, G, DOMAIN f, DOMAIN f)
    BY <1>3, <1>4, <1>5, <1>7, <1>9, <1>10 DEF Exchange, Partition
  <2> QED BY <1>3, <1>6, <2>1, MovePages
<1>90. x \cap fr = {} BY <1>7, <1>9
<1> QED BY <1>90, <1>7, <1>8, <1>11 DEF Owning, G, t, ff

\* A pair is dropped with its overflows.
LEMMA PairToLost ==
    ASSUME NEW f, NEW hs, NEW lf, NEW ch, NEW hd, NEW ps, NEW rd, NEW td, NEW pr, NEW fr, NEW lo,
           Owning(f, hs, lf, ch, hd, ps, rd, td, pr, fr, lo),
           NEW p \in ps, \A q \in Refs(0, p) : IsOverflow(f, q)
    PROVE  Owning(f, hs, lf, ch, hd, ps \ {p}, rd, td, pr, fr, lo \cup Refs(0, p))
<1> DEFINE pp == ps \ {p}
           ll == lo \cup Refs(0, p)
           H == Owned(f, hs, lf, ch, hd, ps, rd, td, pr, fr, lo)
           G == Owned(f, hs, lf, ch, hd, pp, rd, td, pr, fr, ll)
           S == {At("pairs", 0), At("lost", 0)}
<1>1. OwnedAre(H, f, hs, lf, ch, hd, ps, rd, td, pr, fr, lo) BY OwnedParts
<1>2. OwnedAre(G, f, hs, lf, ch, hd, pp, rd, td, pr, fr, ll) BY OwnedParts
<1>3. Partition(H, DOMAIN f) BY DEF Owning
<1>4. S \subseteq Holders /\ At("pairs", 0) \in S /\ At("lost", 0) \in S BY HolderFacts
<1>5. \A h \in S : h = At("pairs", 0) \/ h = At("lost", 0) OBVIOUS
<1>7. /\ PairsPages(ps) = PairsPages(pp) \cup Refs(0, p) /\ PairsPages(pp) \cap Refs(0, p) = {}
      /\ PairsDistinct(pp)
  BY DEF PairsPages, Owning, PairsDistinct
<1>8. \A q \in ll : IsOverflow(f, q) BY DEF Owning
<1> HIDE DEF H, G, S, pp
<1>6. SameBut(S, H, G) BY <1>1, <1>2, <1>4 DEF OwnedAre, SameBut
<1>9. PairsPages(ps) \cap lo = {} BY <1>1, <1>3, <1>4, OneHolder DEF OwnedAre, Partition
<1>10. /\ G[At("pairs", 0)] = PairsPages(pp) /\ G[At("lost", 0)] = lo \cup Refs(0, p)
       /\ H[At("pairs", 0)] = PairsPages(pp) \cup Refs(0, p) /\ H[At("lost", 0)] = lo
  BY <1>1, <1>2, <1>7 DEF OwnedAre
<1>11. Partition(G, DOMAIN f)
  <2>1. Exchange(S, H, G, DOMAIN f, DOMAIN f)
    BY <1>3, <1>4, <1>5, <1>7, <1>9, <1>10 DEF Exchange, Partition
  <2> QED BY <1>3, <1>6, <2>1, MovePages
<1> QED BY <1>7, <1>8, <1>11 DEF Owning, G, pp

\* A leaf is written, and the item for its parent is in hand; next are the pairs of the next leaf.
LEMMA LeafToNode ==
    ASSUME NEW f, NEW hs, NEW lf, NEW ch, NEW hd, NEW ps, NEW rd, NEW td, NEW pr, NEW fr, NEW lo,
           Owning(f, hs, lf, ch, hd, ps, rd, td, pr, fr, lo),
           Forest(f), hd = <<>>, pr \subseteq DOMAIN f, NEW s \in Seq(PairRec), NEW next,
           PagesOf(0, lf) = PagesOf(0, s) \cup PagesOf(0, next), PagesOf(0, s) \cap PagesOf(0, next) = {},
           Distinct(0, s), Distinct(0, next), NEW node, node = [depth |-> 0, items |-> s],
           NEW g, g = WritePage(f, node), NEW new, new = NextPage(f),
           NEW c, Refs(1, c) = {new}, Single(1, c)
    PROVE  Owning(g, hs, next, ch, <<c>>, ps, rd, td, pr, fr, lo)
<1> DEFINE one == <<c>>
           H == Owned(f, hs, lf, ch, hd, ps, rd, td, pr, fr, lo)
           G == Owned(g, hs, next, ch, one, ps, rd, td, pr, fr, lo)
           S == {At("leaf", 0), At("hand", 0), At("node", new)}
<1>1. OwnedAre(H, f, hs, lf, ch, hd, ps, rd, td, pr, fr, lo) BY OwnedParts
<1>2. OwnedAre(G, g, hs, next, ch, one, ps, rd, td, pr, fr, lo) BY OwnedParts
<1>3. Partition(H, DOMAIN f) BY DEF Owning
<1>4. S \subseteq Holders /\ At("leaf", 0) \in S /\ At("hand", 0) \in S /\ At("node", new) \in S
  BY HolderFacts, NextPageFacts
<1>5. \A h \in S : h = At("leaf", 0) \/ h = At("hand", 0) \/ h = At("node", new) OBVIOUS
<1>10. node \in LeafNode /\ node.depth = 0 /\ node.items = s BY DEF LeafNode
<1>11. fr \subseteq DOMAIN f /\ PagesOf(0, lf) \cap fr = {} /\ PagesOf(1, hd) = {}
  BY <1>1, <1>3, HolderFacts, OneHolder, FewPages DEF OwnedAre, Partition
<1>7. /\ Extends(g, f) /\ DOMAIN g = DOMAIN f \cup {new} /\ new \in Nat /\ new \notin DOMAIN f
      /\ LivePages(g, pr, fr, new) = PagesOf(0, s)
      /\ LivePages(f, pr, fr, new) = {}
      /\ \A n : n # new => LivePages(g, pr, fr, n) = LivePages(f, pr, fr, n)
      /\ NodesDistinct(g, pr, fr) /\ \A q \in lo : IsOverflow(g, q)
  <2>1. /\ node \in LeafNode \/ node \in ParentNode
        /\ PagesOf(node.depth, node.items) \cap fr = {} /\ Distinct(node.depth, node.items)
        /\ NodesDistinct(f, pr, fr) /\ \A q \in lo : IsOverflow(f, q)
    BY <1>10, <1>11 DEF Owning
  <2>2. NodeAdded(f, g, new, node, pr, fr) BY <1>11, <2>1, NewNode
  <2> QED BY <1>10, <2>1, <2>2 DEF NodeAdded
<1>8. PagesOf(1, one) = {new} /\ Distinct(1, one) BY FewPages
<1> HIDE DEF H, G, S, one
<1>6. SameBut(S, H, G)
  <2>1. \A n \in Nat : n # new => G[At("node", n)] = H[At("node", n)]
    BY <1>1, <1>2, <1>7 DEF OwnedAre
  <2> QED BY <1>1, <1>2, <1>4, <2>1 DEF OwnedAre, SameBut
<1>9. /\ G[At("leaf", 0)] = PagesOf(0, next) /\ G[At("hand", 0)] = {new} /\ G[At("node", new)] = PagesOf(0, s)
      /\ H[At("leaf", 0)] = PagesOf(0, s) \cup PagesOf(0, next) /\ H[At("hand", 0)] = {} /\ H[At("node", new)] = {}
  BY <1>1, <1>2, <1>7, <1>8, <1>11 DEF OwnedAre
<1>12. Partition(G, DOMAIN g)
  <2>1. Exchange(S, H, G, DOMAIN f, DOMAIN g)
    BY <1>3, <1>4, <1>5, <1>7, <1>9 DEF Exchange, Partition, Extends
  <2> QED BY <1>3, <1>6, <2>1, MovePages
<1> QED BY <1>7, <1>8, <1>12 DEF Owning, G, one

\* A level is written, and the item for the level above is in hand; what was in hand is now the only item of the level.
LEMMA ParentToNode ==
    ASSUME NEW f, NEW hs, NEW lf, NEW ch, NEW hd, NEW ps, NEW rd, NEW td, NEW pr, NEW fr, NEW lo,
           Owning(f, hs, lf, ch, hd, ps, rd, td, pr, fr, lo),
           Forest(f), pr \subseteq DOMAIN f, ch \in Seq(Seq(ItemRec)), NEW d \in DOMAIN ch, NEW s \in Seq(ItemRec), s = ch[d],
           NEW node, node = [depth |-> d, items |-> s], NEW g, g = WritePage(f, node), NEW new, new = NextPage(f),
           NEW cc, DOMAIN cc = DOMAIN ch, cc[d] = hd, \A e \in DOMAIN ch : e # d => cc[e] = ch[e],
           NEW c, Refs(1, c) = {new}, Single(1, c)
    PROVE  Owning(g, hs, lf, cc, <<c>>, ps, rd, td, pr, fr, lo)
<1> DEFINE one == <<c>>
           H == Owned(f, hs, lf, ch, hd, ps, rd, td, pr, fr, lo)
           G == Owned(g, hs, lf, cc, one, ps, rd, td, pr, fr, lo)
           S == {At("hand", 0), At("chain", d), At("node", new)}
<1>1. OwnedAre(H, f, hs, lf, ch, hd, ps, rd, td, pr, fr, lo) BY OwnedParts
<1>2. OwnedAre(G, g, hs, lf, cc, one, ps, rd, td, pr, fr, lo) BY OwnedParts
<1>3. Partition(H, DOMAIN f) BY DEF Owning
<1>4. S \subseteq Holders /\ At("hand", 0) \in S /\ At("chain", d) \in S /\ At("node", new) \in S
  BY HolderFacts, NextPageFacts, ListDomain
<1>5. \A h \in S : h = At("hand", 0) \/ h = At("chain", d) \/ h = At("node", new) OBVIOUS
<1>10. /\ d \in Nat \ {0} /\ node \in ParentNode /\ node.depth = d /\ node.items = s
       /\ PagesOf(d, s) = PagesOf(1, s) /\ (Distinct(d, s) <=> Distinct(1, s)) /\ Distinct(1, s)
  <2>1. d \in Nat \ {0} BY ListDomain
  <2>2. node \in ParentNode /\ node.depth = d /\ node.items = s BY <2>1 DEF ParentNode
  <2>3. PagesOf(d, s) = PagesOf(1, s) /\ (Distinct(d, s) <=> Distinct(1, s)) BY <2>1, AnyDepth
  <2>4. Distinct(1, s) BY DEF Owning
  <2> QED BY <2>1, <2>2, <2>3, <2>4
<1>11. /\ H[At("hand", 0)] = PagesOf(1, hd) /\ H[At("chain", d)] = PagesOf(1, s) /\ fr \subseteq DOMAIN f
       /\ PagesOf(1, s) \cap fr = {} /\ PagesOf(1, s) \cap PagesOf(1, hd) = {}
  <2>1. H[At("hand", 0)] = PagesOf(1, hd) /\ H[At("chain", d)] = PagesOf(1, s) /\ H[At("freed", 0)] = fr
    BY <1>1, <1>10 DEF OwnedAre, LevelPages
  <2> QED BY <1>3, <1>10, <2>1, HolderFacts, OneHolder DEF Partition
<1>7. /\ Extends(g, f) /\ DOMAIN g = DOMAIN f \cup {new} /\ new \in Nat /\ new \notin DOMAIN f
      /\ LivePages(g, pr, fr, new) = PagesOf(1, s)
      /\ LivePages(f, pr, fr, new) = {}
      /\ \A n : n # new => LivePages(g, pr, fr, n) = LivePages(f, pr, fr, n)
      /\ NodesDistinct(g, pr, fr) /\ \A q \in lo : IsOverflow(g, q)
  <2>1. /\ node \in LeafNode \/ node \in ParentNode
        /\ PagesOf(node.depth, node.items) \cap fr = {} /\ Distinct(node.depth, node.items)
        /\ NodesDistinct(f, pr, fr) /\ \A q \in lo : IsOverflow(f, q)
    BY <1>10, <1>11 DEF Owning
  <2>2. NodeAdded(f, g, new, node, pr, fr) BY <1>11, <2>1, NewNode
  <2> QED BY <1>10, <2>1, <2>2 DEF NodeAdded
<1>8. PagesOf(1, one) = {new} /\ Distinct(1, one) BY FewPages
<1>9. LevelPages(cc, d) = PagesOf(1, hd) /\ \A n : n # d => LevelPages(cc, n) = LevelPages(ch, n)
  BY DEF LevelPages
<1> HIDE DEF H, G, S, one
<1>6. SameBut(S, H, G)
  <2>1. \A n \in Nat : n # d => G[At("chain", n)] = H[At("chain", n)]
    BY <1>1, <1>2, <1>9 DEF OwnedAre
  <2>2. \A n \in Nat : n # new => G[At("node", n)] = H[At("node", n)]
    BY <1>1, <1>2, <1>7 DEF OwnedAre
  <2> QED BY <1>1, <1>2, <1>4, <2>1, <2>2 DEF OwnedAre, SameBut
<1>12. /\ G[At("hand", 0)] = {new} /\ G[At("chain", d)] = PagesOf(1, hd) /\ G[At("node", new)] = PagesOf(1, s)
       /\ H[At("node", new)] = {}
  BY <1>1, <1>2, <1>7, <1>8, <1>9, <1>10 DEF OwnedAre
<1>13. Partition(G, DOMAIN g)
  <2>1. DOMAIN f \subseteq DOMAIN g /\ \A h \in S : \A a \in H[h] : a \in DOMAIN f
    BY <1>3, <1>4, <1>7 DEF Partition, Extends
  <2>2. \A h \in S : \A q \in G[h] : q \in DOMAIN g /\ (q \in DOMAIN f => \E a \in S : q \in H[a])
    BY <1>4, <1>5, <2>1, <1>7, <1>11, <1>12
  <2>3. \A h \in S : \A q \in H[h] : \E a \in S : q \in G[a] BY <1>4, <1>5, <1>7, <1>11, <1>12
  <2>4. \A q \in DOMAIN g \ DOMAIN f : \E a \in S : q \in G[a] BY <1>4, <1>7, <1>11, <1>12
  <2>5. \A h, a \in S : h # a => G[h] \cap G[a] = {} BY <1>4, <1>5, <2>1, <1>7, <1>11, <1>12
  <2>6. Exchange(S, H, G, DOMAIN f, DOMAIN g) BY <1>4, <2>1, <2>2, <2>3, <2>4, <2>5 DEF Exchange
  <2> QED BY <1>3, <1>6, <2>6, MovePages
<1>14. \A e \in DOMAIN cc : Distinct(1, cc[e]) BY DEF Owning
<1> QED BY <1>7, <1>8, <1>13, <1>14 DEF Owning, G, one

\* A level takes what the hand has, and the new overflows.
LEMMA HandToLevel ==
    ASSUME NEW f, NEW hs, NEW lf, NEW ch, NEW hd, NEW ps, NEW rd, NEW td, NEW pr, NEW fr, NEW lo,
           Owning(f, hs, lf, ch, hd, ps, rd, td, pr, fr, lo),
           ch \in Seq(Seq(ItemRec)), NEW d \in DOMAIN ch, NEW g, NEW cc, LevelGrows(ch, cc, d, hd, f, g)
    PROVE  Owning(g, hs, lf, cc, <<>>, ps, rd, td, pr, fr, lo)
<1>z. /\ Extends(g, f) /\ (\A n \in DOMAIN g \ DOMAIN f : ~IsNode(g, n))
       /\ DOMAIN ch \subseteq DOMAIN cc /\ (\A e \in DOMAIN ch : e # d => cc[e] = ch[e])
       /\ (\A e \in DOMAIN cc \ DOMAIN ch : cc[e] = <<>>)
       /\ PagesOf(1, cc[d]) = PagesOf(1, ch[d]) \cup PagesOf(1, hd) \cup (DOMAIN g \ DOMAIN f)
       /\ Distinct(1, cc[d])
  BY DEF LevelGrows
<1> USE <1>z
<1> DEFINE none == <<>>
           H == Owned(f, hs, lf, ch, hd, ps, rd, td, pr, fr, lo)
           G == Owned(g, hs, lf, cc, none, ps, rd, td, pr, fr, lo)
           S == {At("hand", 0), At("chain", d)}
<1>1. OwnedAre(H, f, hs, lf, ch, hd, ps, rd, td, pr, fr, lo) BY OwnedParts
<1>2. OwnedAre(G, g, hs, lf, cc, none, ps, rd, td, pr, fr, lo) BY OwnedParts
<1>3. Partition(H, DOMAIN f) BY DEF Owning
<1>4. S \subseteq Holders /\ At("hand", 0) \in S /\ At("chain", d) \in S BY HolderFacts, ListDomain
<1>5. \A h \in S : h = At("hand", 0) \/ h = At("chain", d) OBVIOUS
<1>10. d \in Nat /\ PagesOf(1, none) = {} /\ Distinct(1, none) BY ListDomain, FewPages
<1>7. \A n : LivePages(g, pr, fr, n) = LivePages(f, pr, fr, n)
  <2>1. \A n : IsNode(g, n) => n \in DOMAIN g BY DEF IsNode, IsLeaf, IsInner
  <2>2. \A n \in DOMAIN f : LivePages(g, pr, fr, n) = LivePages(f, pr, fr, n) BY NodesStay
  <2>3. \A n : n \notin DOMAIN f => LivePages(f, pr, fr, n) = {} BY NodesStay
  <2>4. \A n : ~IsNode(g, n) => LivePages(g, pr, fr, n) = {} BY NodesStay
  <2> QED BY <2>1, <2>2, <2>3, <2>4
<1>8. NodesDistinct(g, pr, fr) /\ \A a \in lo : IsOverflow(g, a) BY NodesStay DEF Owning
<1>9. /\ LevelPages(cc, d) = PagesOf(1, cc[d]) /\ LevelPages(ch, d) = PagesOf(1, ch[d])
      /\ \A n : n # d => LevelPages(cc, n) = LevelPages(ch, n)
  <2>1. PagesOf(1, <<>>) = {} BY FewPages
  <2> QED BY <2>1 DEF LevelPages
<1> HIDE DEF H, G, S, none
<1>6. SameBut(S, H, G) BY <1>1, <1>2, <1>4, <1>7, <1>9 DEF OwnedAre, SameBut
<1>12. /\ G[At("hand", 0)] = {} /\ G[At("chain", d)] = PagesOf(1, cc[d])
       /\ H[At("hand", 0)] = PagesOf(1, hd) /\ H[At("chain", d)] = PagesOf(1, ch[d])
  BY <1>1, <1>2, <1>9, <1>10 DEF OwnedAre
<1>13. Partition(G, DOMAIN g)
  <2>1. DOMAIN f \subseteq DOMAIN g /\ \A h \in S : \A a \in H[h] : a \in DOMAIN f
    BY <1>3, <1>4 DEF Partition, Extends
  <2>2. \A h \in S : \A q \in G[h] : q \in DOMAIN g /\ (q \in DOMAIN f => \E a \in S : q \in H[a])
    BY <1>4, <1>5, <2>1, <1>12
  <2>3. \A h \in S : \A q \in H[h] : \E a \in S : q \in G[a] BY <1>4, <1>5, <1>12
  <2>4. \A q \in DOMAIN g \ DOMAIN f : \E a \in S : q \in G[a] BY <1>4, <1>12
  <2>5. \A h, a \in S : h # a => G[h] \cap G[a] = {} BY <1>4, <1>5, <2>1, <1>12
  <2>6. Exchange(S, H, G, DOMAIN f, DOMAIN g) BY <1>4, <2>1, <2>2, <2>3, <2>4, <2>5 DEF Exchange
  <2> QED BY <1>3, <1>6, <2>6, MovePages
<1>14. \A e \in DOMAIN cc : Distinct(1, cc[e])
  <2>1. Distinct(1, <<>>) BY FewPages
  <2> QED BY <2>1 DEF Owning
<1> QED BY <1>8, <1>10, <1>13, <1>14 DEF Owning, G, none

\* A child that is kept comes into the hand.
LEMMA TodoToHand ==
    ASSUME NEW f, NEW hs, NEW lf, NEW ch, NEW hd, NEW ps, NEW rd, NEW td, NEW pr, NEW fr, NEW lo,
           Owning(f, hs, lf, ch, hd, ps, rd, td, pr, fr, lo),
           NEW d, NEW s, NEW tt, Passed(td, d, s, tt),
           hd = <<>>, NEW c, Refs(1, c) = {Head(s).page}, Single(1, c), Head(s).page \notin pr \cap fr
    PROVE  Owning(f, hs, lf, ch, <<c>>, ps, rd, tt, pr, fr, lo)
<1>z. td \in Seq(Seq(ItemRec)) /\ d \in DOMAIN td /\ s \in Seq(ItemRec) /\ s = td[d] /\ s # <<>>
      /\ DOMAIN tt = DOMAIN td /\ tt[d] = Tail(s) /\ (\A e \in DOMAIN td : e # d => tt[e] = td[e])
  BY DEF Passed
<1> USE <1>z
<1> DEFINE one == <<c>>
           n0 == Head(s).page
           t == Tail(s)
           gone == pr \cap fr
           H == Owned(f, hs, lf, ch, hd, ps, rd, td, pr, fr, lo)
           G == Owned(f, hs, lf, ch, one, ps, rd, tt, pr, fr, lo)
           S == {At("hand", 0), At("todo", d)}
<1>1. OwnedAre(H, f, hs, lf, ch, hd, ps, rd, td, pr, fr, lo) BY OwnedParts
<1>2. OwnedAre(G, f, hs, lf, ch, one, ps, rd, tt, pr, fr, lo) BY OwnedParts
<1>3. Partition(H, DOMAIN f) BY DEF Owning
<1>4. S \subseteq Holders /\ At("hand", 0) \in S /\ At("todo", d) \in S BY HolderFacts, ListDomain
<1>5. \A h \in S : h = At("hand", 0) \/ h = At("todo", d) OBVIOUS
<1>7. PagesOf(1, one) = {n0} /\ Distinct(1, one) /\ PagesOf(1, hd) = {} BY FewPages
<1>8. d \in Nat /\ Once(s) BY ListDomain DEF Owning
<1>9. ItemPages(s) = {n0} \cup ItemPages(t) /\ Once(t) /\ n0 \notin ItemPages(t) BY <1>8, PagesTail
<1>10. /\ TodoPages(td, gone, d) = ItemPages(s) \ gone /\ TodoPages(tt, gone, d) = ItemPages(t) \ gone
       /\ \A n : n # d => TodoPages(tt, gone, n) = TodoPages(td, gone, n)
  BY DEF TodoPages
<1> HIDE DEF H, G, S, one, t
<1>6. SameBut(S, H, G) BY <1>1, <1>2, <1>4, <1>10 DEF OwnedAre, SameBut
<1>11. /\ G[At("hand", 0)] = {n0} /\ G[At("todo", d)] = ItemPages(t) \ gone
       /\ H[At("hand", 0)] = {} /\ H[At("todo", d)] = ItemPages(s) \ gone
  BY <1>1, <1>2, <1>7, <1>8, <1>10 DEF OwnedAre
<1>12. n0 \notin gone OBVIOUS
<1> HIDE DEF n0, gone
<1>13. Partition(G, DOMAIN f)
  <2>1. \A h \in S : \A q \in G[h] : q \in DOMAIN f /\ (q \in DOMAIN f => \E a \in S : q \in H[a])
    BY <1>3, <1>4, <1>5, <1>9, <1>11, <1>12 DEF Partition
  <2>2. \A h \in S : \A q \in H[h] : \E a \in S : q \in G[a] BY <1>4, <1>5, <1>9, <1>11, <1>12
  <2>3. \A h, a \in S : h # a => G[h] \cap G[a] = {} BY <1>5, <1>9, <1>11, <1>12
  <2>4. Exchange(S, H, G, DOMAIN f, DOMAIN f) BY <1>4, <2>1, <2>2, <2>3 DEF Exchange
  <2> QED BY <1>3, <1>6, <2>4, MovePages
<1>14. \A e \in DOMAIN tt : Once(tt[e]) BY <1>9 DEF Owning, t
<1> QED BY <1>7, <1>13, <1>14 DEF Owning, G, one

\* A node that is rewritten is taken from what is left of its parent.
LEMMA TodoToRoot ==
    ASSUME NEW f, NEW hs, NEW lf, NEW ch, NEW hd, NEW ps, NEW rd, NEW td, NEW pr, NEW fr, NEW lo,
           Owning(f, hs, lf, ch, hd, ps, rd, td, pr, fr, lo),
           NEW d, NEW s, NEW tt, Passed(td, d, s, tt),
           NEW i \in {1, 2}, NEW kk, Between(hs, kk, i, Head(s).page),
           Head(s).page \notin pr \cap fr, Head(s).page # NoPage
    PROVE  Owning(f, kk, lf, ch, hd, ps, rd, tt, pr, fr, lo)
<1>z. td \in Seq(Seq(ItemRec)) /\ d \in DOMAIN td /\ s \in Seq(ItemRec) /\ s = td[d] /\ s # <<>>
      /\ DOMAIN tt = DOMAIN td /\ tt[d] = Tail(s) /\ (\A e \in DOMAIN td : e # d => tt[e] = td[e])
      /\ hs[i] = NoPage /\ kk[i] = Head(s).page /\ (\A j \in {1, 2} : j # i => kk[j] = hs[j])
  BY DEF Passed, Between
<1> USE <1>z
<1> DEFINE n0 == Head(s).page
           t == Tail(s)
           gone == pr \cap fr
           H == Owned(f, hs, lf, ch, hd, ps, rd, td, pr, fr, lo)
           G == Owned(f, kk, lf, ch, hd, ps, rd, tt, pr, fr, lo)
           S == {At("root", i), At("todo", d)}
<1>1. OwnedAre(H, f, hs, lf, ch, hd, ps, rd, td, pr, fr, lo) BY OwnedParts
<1>2. OwnedAre(G, f, kk, lf, ch, hd, ps, rd, tt, pr, fr, lo) BY OwnedParts
<1>3. Partition(H, DOMAIN f) BY DEF Owning
<1>4. S \subseteq Holders /\ At("root", i) \in S /\ At("todo", d) \in S BY HolderFacts, ListDomain
<1>5. \A h \in S : h = At("root", i) \/ h = At("todo", d) OBVIOUS
<1>7. \A j \in {1, 2} : j # i => RootPages(kk, gone, j) = RootPages(hs, gone, j) BY DEF RootPages
<1>8. d \in Nat /\ Once(s) BY ListDomain DEF Owning
<1>9. ItemPages(s) = {n0} \cup ItemPages(t) /\ Once(t) /\ n0 \notin ItemPages(t)
  <2>1. /\ ItemPages(s) = {Head(s).page} \cup ItemPages(t) /\ Once(t) /\ Head(s).page \notin ItemPages(t)
    BY <1>8, PagesTail
  <2> QED BY <2>1
<1>10. /\ TodoPages(td, gone, d) = ItemPages(s) \ gone /\ TodoPages(tt, gone, d) = ItemPages(t) \ gone
       /\ \A n : n # d => TodoPages(tt, gone, n) = TodoPages(td, gone, n)
  BY DEF TodoPages
<1> HIDE DEF H, G, S, t
<1>6. SameBut(S, H, G)
  <2>1. (At("root", 1) \notin S => G[At("root", 1)] = H[At("root", 1)]) /\ (At("root", 2) \notin S => G[At("root", 2)] = H[At("root", 2)])
    BY <1>1, <1>2, <1>4, <1>7 DEF OwnedAre
  <2>2. \A n \in Nat : n # d => G[At("todo", n)] = H[At("todo", n)]
    BY <1>1, <1>2, <1>10 DEF OwnedAre
  <2> QED BY <1>1, <1>2, <1>4, <2>1, <2>2 DEF OwnedAre, SameBut
<1>11. /\ G[At("root", i)] = {n0} /\ G[At("todo", d)] = ItemPages(t) \ gone
       /\ H[At("root", i)] = {} /\ H[At("todo", d)] = ItemPages(s) \ gone
  <2>1. G[At("root", i)] = RootPages(kk, gone, i) /\ H[At("root", i)] = RootPages(hs, gone, i)
    BY <1>1, <1>2 DEF OwnedAre
  <2>2. RootPages(kk, gone, i) = {n0} /\ RootPages(hs, gone, i) = {} BY DEF RootPages
  <2> QED BY <1>1, <1>2, <1>8, <1>10, <2>1, <2>2 DEF OwnedAre
<1>12. n0 \notin gone /\ n0 \in ItemPages(s) \ gone /\ \A h \in S : \A a \in H[h] : a \in DOMAIN f
  BY <1>3, <1>4, <1>9 DEF Partition
<1> HIDE DEF n0, gone
<1> HIDE <1>z
<1>13. Partition(G, DOMAIN f)
  <2>1. Exchange(S, H, G, DOMAIN f, DOMAIN f)
    BY <1>3, <1>4, <1>5, <1>9, <1>11, <1>12 DEF Exchange, Partition
  <2> QED BY <1>3, <1>6, <2>1, MovePages
<1>14. \A e \in DOMAIN tt : Once(tt[e]) BY <1>z, <1>9 DEF Owning, t
<1> QED BY <1>13, <1>14 DEF Owning, G

\* A parent that is rewritten is freed with its overflows; its children are next.
LEMMA RootToTodo ==
    ASSUME NEW f, NEW hs, NEW lf, NEW ch, NEW hd, NEW ps, NEW rd, NEW td, NEW pr, NEW fr, NEW lo,
           Owning(f, hs, lf, ch, hd, ps, rd, td, pr, fr, lo),
           FileOk(f), \A p \in pr : IsLeaf(f, p),
           NEW i \in {1, 2}, NEW n0 \in Nat, NEW kk, Between(kk, hs, i, n0),
           n0 # NoPage, IsInner(f, n0), NEW s, s = f[n0].items, NEW e \in Nat, NEW tt, TodoGrows(td, tt, e, s),
           NEW x, x = WithOverflows(f, n0)
    PROVE  Disjoint(x, fr) /\ Owning(f, kk, lf, ch, hd, ps, rd, tt, pr, fr \cup x, lo)
<1>z. kk[i] = NoPage /\ hs[i] = n0 /\ (\A j \in {1, 2} : j # i => kk[j] = hs[j]) BY DEF Between
<1>y. x = {n0} \cup OwnedOverflows(f[n0]) BY DEF WithOverflows
<1> USE <1>y
<1> USE <1>z
<1> DEFINE gone == pr \cap fr
           ff == fr \cup x
           gg == pr \cap ff
           H == Owned(f, hs, lf, ch, hd, ps, rd, td, pr, fr, lo)
           G == Owned(f, kk, lf, ch, hd, ps, rd, tt, pr, ff, lo)
           S == {At("root", i), At("todo", e), At("freed", 0), At("node", n0)}
<1>1. OwnedAre(H, f, hs, lf, ch, hd, ps, rd, td, pr, fr, lo) BY OwnedParts
<1>2. OwnedAre(G, f, kk, lf, ch, hd, ps, rd, tt, pr, ff, lo) BY OwnedParts
<1>3. Partition(H, DOMAIN f) BY DEF Owning
<1>4. S \subseteq Holders /\ At("root", i) \in S /\ At("todo", e) \in S /\ At("freed", 0) \in S /\ At("node", n0) \in S
  BY HolderFacts
<1>5. \A h \in S : h = At("root", i) \/ h = At("todo", e) \/ h = At("freed", 0) \/ h = At("node", n0)
  OBVIOUS
<1>20. n0 \notin pr /\ pr \cap x = {}
  <2>1. \A q \in OwnedOverflows(f[n0]) : IsOverflow(f, q) BY InnerPages
  <2>2. \A q : ~(IsLeaf(f, q) /\ IsOverflow(f, q)) /\ ~(IsLeaf(f, q) /\ IsInner(f, q))
    BY DEF IsLeaf, IsOverflow, Overflow, LeafNode, IsInner, ParentNode
  <2> QED BY <2>1, <2>2
<1>7. /\ \A j \in {1, 2} : j # i => RootPages(kk, gone, j) = RootPages(hs, gone, j)
      /\ RootPages(kk, gone, i) = {} /\ RootPages(hs, gone, i) = {n0}
  BY <1>20 DEF RootPages
<1>8. H[At("root", i)] = {n0} /\ H[At("freed", 0)] = fr
  <2>1. H[At("root", i)] = RootPages(hs, gone, i) BY <1>1 DEF OwnedAre
  <2> QED BY <1>1, <1>7, <2>1 DEF OwnedAre
<1>9. n0 \notin fr BY <1>3, <1>8, HolderFacts, OneHolder DEF Partition
<1>10. /\ NodePages(f, n0) = OwnedOverflows(f[n0]) \cup ItemPages(s)
       /\ \A q \in OwnedOverflows(f[n0]) : IsOverflow(f, q)
       /\ Once(s) /\ OwnedOverflows(f[n0]) \cap ItemPages(s) = {}
  <2>1. IsNode(f, n0) /\ NodesDistinct(f, pr, fr) BY DEF IsNode, Owning
  <2>2. Distinct(f[n0].depth, s) BY <1>9, <1>20, <2>1 DEF NodesDistinct
  <2> QED BY <2>2, InnerPages
<1>11. /\ pr \cap ff = gone /\ NodesDistinct(f, pr, ff)
       /\ \A n : n # n0 => LivePages(f, pr, ff, n) = LivePages(f, pr, fr, n)
       /\ LivePages(f, pr, ff, n0) = {}
       /\ LivePages(f, pr, fr, n0) = NodePages(f, n0) \ gone
  <2>1. FreedMore(f, pr, fr, x, ff) BY <1>20, FreeMore
  <2>2. NodesDistinct(f, pr, fr) BY DEF Owning
  <2>3. LivePages(f, pr, fr, n0) = NodePages(f, n0) \ gone BY <1>9, <1>20 DEF LivePages, IsNode
  <2> QED BY <1>10, <2>1, <2>2, <2>3 DEF FreedMore
<1>12. /\ TodoPages(td, gone, e) = {} /\ TodoPages(tt, gone, e) = ItemPages(s) \ gone
       /\ \A n : n # e => TodoPages(tt, gone, n) = TodoPages(td, gone, n)
  BY DEF TodoPages, TodoGrows
<1>30. /\ \A n \in Nat : /\ G[At("todo", n)] = TodoPages(tt, gg, n) /\ H[At("todo", n)] = TodoPages(td, gone, n)
       /\ \A j \in {1, 2} : G[At("root", j)] = RootPages(kk, gg, j) /\ H[At("root", j)] = RootPages(hs, gone, j)
  BY <1>1, <1>2 DEF OwnedAre
<1>31. gg = gone /\ gone \subseteq fr /\ gone \subseteq pr BY <1>11
<1> HIDE DEF H, G, S, ff, gone, gg
<1>6. SameBut(S, H, G) BY <1>1, <1>2, <1>4, <1>7, <1>11, <1>12, <1>30, <1>31 DEF OwnedAre, SameBut
<1>13. /\ G[At("root", i)] = {} /\ G[At("todo", e)] = ItemPages(s) \ gone /\ G[At("freed", 0)] = fr \cup x
       /\ G[At("node", n0)] = {} /\ H[At("todo", e)] = {} /\ H[At("node", n0)] = NodePages(f, n0) \ gone
  <2>1. G[At("root", i)] = RootPages(kk, gone, i) BY <1>30, <1>31
  <2>2. G[At("freed", 0)] = fr \cup x BY <1>2 DEF OwnedAre, ff
  <2>3. G[At("node", n0)] = {} /\ H[At("node", n0)] = NodePages(f, n0) \ gone
    BY <1>1, <1>2, <1>11 DEF OwnedAre
  <2> QED BY <1>7, <1>12, <1>30, <1>31, <2>1, <2>2, <2>3
<1>14. OwnedOverflows(f[n0]) \cap gone = {} /\ gone \subseteq fr BY <1>20, <1>31
<1>15. n0 \notin NodePages(f, n0) \ gone /\ fr \cap (NodePages(f, n0) \ gone) = {}
  BY <1>3, <1>4, <1>8, <1>13, OneHolder DEF Partition
<1> DEFINE own == OwnedOverflows(f[n0])
           kids == ItemPages(s)
<1>16. /\ H[At("node", n0)] = (own \cup kids) \ gone /\ own \cap kids = {} /\ own \cap gone = {} /\ gone \subseteq fr
       /\ n0 \notin (own \cup kids) \ gone /\ fr \cap ((own \cup kids) \ gone) = {} /\ x = {n0} \cup own
       /\ G[At("todo", e)] = kids \ gone
  BY <1>10, <1>13, <1>14, <1>15
<1> HIDE DEF own, kids
<1>17. Partition(G, DOMAIN f)
  <2>1. Exchange(S, H, G, DOMAIN f, DOMAIN f)
    BY <1>3, <1>4, <1>5, <1>8, <1>9, <1>13, <1>16 DEF Exchange, Partition
  <2> QED BY <1>3, <1>6, <2>1, MovePages
<1>18. \A n \in DOMAIN tt : Once(tt[n]) BY <1>10 DEF TodoGrows
<1>90. Disjoint(x, fr) BY <1>9, <1>16 DEF Disjoint
<1> QED BY <1>90, <1>11, <1>17, <1>18 DEF Owning, G, ff

\* A leaf that is rewritten is freed; its pairs are next.
LEMMA RootToReading ==
    ASSUME NEW f, NEW hs, NEW lf, NEW ch, NEW hd, NEW ps, NEW rd, NEW td, NEW pr, NEW fr, NEW lo,
           Owning(f, hs, lf, ch, hd, ps, rd, td, pr, fr, lo),
           FileOk(f), \A p \in pr : IsLeaf(f, p), Disjoint(pr, fr), rd = <<>>,
           NEW i \in {1, 2}, NEW n0 \in Nat, NEW kk, Between(kk, hs, i, n0),
           n0 # NoPage, IsLeaf(f, n0), n0 \notin pr, NEW s, s = f[n0].items
    PROVE  Disjoint(Alone(n0), fr) /\ Owning(f, kk, lf, ch, hd, ps, s, td, pr, fr \cup Alone(n0), lo)
<1>z. kk[i] = NoPage /\ hs[i] = n0 /\ (\A j \in {1, 2} : j # i => kk[j] = hs[j]) BY DEF Between
<1>y. pr \cap fr = {} BY DEF Disjoint
<1> USE <1>z, <1>y
<1> DEFINE gone == pr \cap fr
           ff == fr \cup {n0}
           gg == pr \cap ff
           H == Owned(f, hs, lf, ch, hd, ps, rd, td, pr, fr, lo)
           G == Owned(f, kk, lf, ch, hd, ps, s, td, pr, ff, lo)
           S == {At("root", i), At("reading", 0), At("freed", 0), At("node", n0)}
<1>1. OwnedAre(H, f, hs, lf, ch, hd, ps, rd, td, pr, fr, lo) BY OwnedParts
<1>2. OwnedAre(G, f, kk, lf, ch, hd, ps, s, td, pr, ff, lo) BY OwnedParts
<1>3. Partition(H, DOMAIN f) BY DEF Owning
<1>4. S \subseteq Holders /\ At("root", i) \in S /\ At("reading", 0) \in S /\ At("freed", 0) \in S /\ At("node", n0) \in S
  BY HolderFacts
<1>5. \A h \in S : h = At("root", i) \/ h = At("reading", 0) \/ h = At("freed", 0) \/ h = At("node", n0)
  OBVIOUS
<1>7. /\ \A j \in {1, 2} : j # i => RootPages(kk, gone, j) = RootPages(hs, gone, j)
      /\ RootPages(kk, gone, i) = {} /\ RootPages(hs, gone, i) = {n0}
  BY DEF RootPages
<1>8. H[At("root", i)] = {n0} /\ H[At("freed", 0)] = fr
  <2>1. H[At("root", i)] = RootPages(hs, gone, i) BY <1>1 DEF OwnedAre
  <2> QED BY <1>1, <1>7, <2>1 DEF OwnedAre
<1>9. n0 \notin fr BY <1>3, <1>8, HolderFacts, OneHolder DEF Partition
<1>10. Distinct(0, s) /\ NodePages(f, n0) = PagesOf(0, s)
  <2>1. IsNode(f, n0) /\ NodesDistinct(f, pr, fr) /\ f[n0].depth = 0
    BY DEF IsNode, Owning, IsLeaf, LeafNode
  <2> QED BY <1>9, <2>1 DEF NodesDistinct, NodePages
<1>11. /\ pr \cap ff = gone /\ NodesDistinct(f, pr, ff)
       /\ \A n : n # n0 => LivePages(f, pr, ff, n) = LivePages(f, pr, fr, n)
       /\ LivePages(f, pr, ff, n0) = {}
       /\ LivePages(f, pr, fr, n0) = NodePages(f, n0)
  <2>1. FreedMore(f, pr, fr, {n0}, ff) BY FreeMore
  <2>2. NodesDistinct(f, pr, fr) BY DEF Owning
  <2>3. LivePages(f, pr, fr, n0) = NodePages(f, n0) BY <1>9 DEF LivePages, IsNode
  <2> QED BY <2>1, <2>2, <2>3 DEF FreedMore
<1>12. PagesOf(0, rd) = {} BY FewPages
<1>30. /\ \A n \in Nat : /\ G[At("todo", n)] = TodoPages(td, gg, n) /\ H[At("todo", n)] = TodoPages(td, gone, n)
       /\ \A j \in {1, 2} : G[At("root", j)] = RootPages(kk, gg, j) /\ H[At("root", j)] = RootPages(hs, gone, j)
  BY <1>1, <1>2 DEF OwnedAre
<1>31. gg = gone /\ gone \subseteq fr /\ gone \subseteq pr BY <1>11
<1> HIDE DEF H, G, S, ff, gone, gg
<1>6. SameBut(S, H, G)
  <2>1. (At("root", 1) \notin S => G[At("root", 1)] = H[At("root", 1)]) /\ (At("root", 2) \notin S => G[At("root", 2)] = H[At("root", 2)])
    BY <1>1, <1>2, <1>4, <1>7, <1>30, <1>31 DEF OwnedAre
  <2>2. \A n \in Nat : n # n0 => G[At("node", n)] = H[At("node", n)]
    BY <1>1, <1>2, <1>11 DEF OwnedAre
  <2>3. \A n \in Nat : G[At("todo", n)] = H[At("todo", n)] BY <1>1, <1>2, <1>30, <1>31 DEF OwnedAre
  <2> QED BY <1>1, <1>2, <1>4, <2>1, <2>2, <2>3 DEF OwnedAre, SameBut
<1>13. /\ G[At("root", i)] = {} /\ G[At("reading", 0)] = PagesOf(0, s) /\ G[At("freed", 0)] = fr \cup {n0}
       /\ G[At("node", n0)] = {} /\ H[At("reading", 0)] = {} /\ H[At("node", n0)] = PagesOf(0, s)
  <2>1. G[At("root", i)] = RootPages(kk, gone, i) BY <1>30, <1>31
  <2> QED BY <1>1, <1>2, <1>7, <1>10, <1>11, <1>12, <2>1 DEF OwnedAre, ff
<1>14. n0 \notin PagesOf(0, s) /\ fr \cap PagesOf(0, s) = {}
  BY <1>3, <1>4, <1>8, <1>13, OneHolder DEF Partition
<1>15. Partition(G, DOMAIN f)
  <2>1. Exchange(S, H, G, DOMAIN f, DOMAIN f)
    BY <1>3, <1>4, <1>5, <1>8, <1>9, <1>13, <1>14 DEF Exchange, Partition
  <2> QED BY <1>3, <1>6, <2>1, MovePages
<1>90. Disjoint(Alone(n0), fr) /\ ff = fr \cup Alone(n0) BY <1>9 DEF Disjoint, ff, Alone
<1> QED BY <1>90, <1>10, <1>11, <1>15 DEF Owning, G

\* What a step changes where there are no pages.
LEMMA NothingMoves ==
    ASSUME NEW f, NEW hs, NEW lf, NEW ch, NEW hd, NEW ps, NEW rd, NEW td, NEW pr, NEW fr, NEW lo,
           Owning(f, hs, lf, ch, hd, ps, rd, td, pr, fr, lo), NEW kk, NEW cc, NEW pp, NEW tt,
           \A i \in {1, 2} : RootPages(kk, pr \cap fr, i) = RootPages(hs, pr \cap fr, i),
           \A n \in Nat : LevelPages(cc, n) = LevelPages(ch, n), \A d \in DOMAIN cc : Distinct(1, cc[d]),
           PairsPages(pp) = PairsPages(ps), PairsDistinct(pp),
           \A n \in Nat : TodoPages(tt, pr \cap fr, n) = TodoPages(td, pr \cap fr, n),
           \A d \in DOMAIN tt : Once(tt[d])
    PROVE  Owning(f, kk, lf, cc, hd, pp, rd, tt, pr, fr, lo)
<1> DEFINE H == Owned(f, hs, lf, ch, hd, ps, rd, td, pr, fr, lo)
           G == Owned(f, kk, lf, cc, hd, pp, rd, tt, pr, fr, lo)
<1>1. OwnedAre(H, f, hs, lf, ch, hd, ps, rd, td, pr, fr, lo) /\ OwnedAre(G, f, kk, lf, cc, hd, pp, rd, tt, pr, fr, lo)
  BY OwnedParts
<1>2. Partition(H, DOMAIN f) BY DEF Owning
<1> HIDE DEF H, G
<1>3. SameBut({}, H, G) BY <1>1 DEF OwnedAre, SameBut
<1>4. Partition(G, DOMAIN f) BY <1>2, <1>3, SamePages
<1> QED BY <1>4 DEF Owning, G

\* The only item of the chain becomes the root.
LEMMA ChainToRoot ==
    ASSUME NEW f, NEW hs, NEW lf, NEW ch, NEW hd, NEW ps, NEW rd, NEW td, NEW pr, NEW fr, NEW lo,
           Owning(f, hs, lf, ch, hd, ps, rd, td, pr, fr, lo),
           NEW i \in {1, 2}, NEW n0, n0 # NoPage, NEW kk, Between(hs, kk, i, n0),
           NEW d \in Nat, NEW cc, LevelPages(ch, d) = {n0}, LevelPages(cc, d) = {},
           \A n \in Nat : n # d => LevelPages(cc, n) = LevelPages(ch, n), \A e \in DOMAIN cc : Distinct(1, cc[e])
    PROVE  Owning(f, kk, lf, cc, hd, ps, rd, td, pr, fr, lo)
<1>20. hs[i] = NoPage /\ kk[i] = n0 /\ (\A j \in {1, 2} : j # i => kk[j] = hs[j]) BY DEF Between
<1> USE <1>20
<1> DEFINE gone == pr \cap fr
           H == Owned(f, hs, lf, ch, hd, ps, rd, td, pr, fr, lo)
           G == Owned(f, kk, lf, cc, hd, ps, rd, td, pr, fr, lo)
           S == {At("root", i), At("chain", d)}
<1>1. OwnedAre(H, f, hs, lf, ch, hd, ps, rd, td, pr, fr, lo) BY OwnedParts
<1>2. OwnedAre(G, f, kk, lf, cc, hd, ps, rd, td, pr, fr, lo) BY OwnedParts
<1>3. Partition(H, DOMAIN f) BY DEF Owning
<1>4. S \subseteq Holders /\ At("root", i) \in S /\ At("chain", d) \in S BY HolderFacts
<1>5. \A h \in S : h = At("root", i) \/ h = At("chain", d) OBVIOUS
<1>8. H[At("chain", d)] = {n0} /\ H[At("freed", 0)] = fr /\ G[At("chain", d)] = {}
  BY <1>1, <1>2 DEF OwnedAre
<1>9. n0 \notin fr BY <1>3, <1>8, HolderFacts, OneHolder DEF Partition
<1>7. /\ \A j \in {1, 2} : j # i => RootPages(kk, gone, j) = RootPages(hs, gone, j)
      /\ RootPages(kk, gone, i) = {n0} /\ RootPages(hs, gone, i) = {}
  BY <1>9 DEF RootPages
<1> HIDE DEF H, G, S
<1>6. SameBut(S, H, G) BY <1>1, <1>2, <1>4, <1>7 DEF OwnedAre, SameBut
<1>10. G[At("root", i)] = {n0} /\ H[At("root", i)] = {}
  <2>1. G[At("root", i)] = RootPages(kk, gone, i) /\ H[At("root", i)] = RootPages(hs, gone, i)
    BY <1>1, <1>2 DEF OwnedAre
  <2> QED BY <1>7, <2>1
<1>13. Partition(G, DOMAIN f)
  <2>1. Exchange(S, H, G, DOMAIN f, DOMAIN f)
    BY <1>3, <1>4, <1>5, <1>8, <1>10 DEF Exchange, Partition
  <2> QED BY <1>3, <1>6, <2>1, MovePages
<1> QED BY <1>13 DEF Owning, G

\* The pairs of the leaves that are promoted are to be put.
LEMMA Promote ==
    ASSUME NEW f, NEW hs, NEW lf, NEW ch, NEW hd, NEW rd, NEW td, NEW lo, FileOk(f),
           Owning(f, hs, lf, ch, hd, {}, rd, td, {}, {}, lo),
           NEW pr, \A n \in pr : IsLeaf(f, n), NEW ps, ps = ItemsOf(f, pr)
    PROVE  Owning(f, hs, lf, ch, hd, ps, rd, td, pr, {}, lo)
<1> DEFINE H == Owned(f, hs, lf, ch, hd, {}, rd, td, {}, {}, lo)
           G == Owned(f, hs, lf, ch, hd, ps, rd, td, pr, {}, lo)
           S == {At("pairs", 0)} \cup {At("node", n) : n \in pr}
           gone == pr \cap {}
           none == {} \cap {}
<1>1. OwnedAre(H, f, hs, lf, ch, hd, {}, rd, td, {}, {}, lo) /\ OwnedAre(G, f, hs, lf, ch, hd, ps, rd, td, pr, {}, lo)
  BY OwnedParts
<1>2. Partition(H, DOMAIN f) /\ NodesDistinct(f, {}, {}) BY DEF Owning
<1>3. \A n \in pr : n \in Nat /\ IsNode(f, n) /\ f[n].depth = 0 /\ n \in DOMAIN f
  BY DEF FileOk, Forest, IsNode, IsLeaf, LeafNode
<1>4. S \subseteq Holders BY <1>3, HolderFacts
<1>5. At("pairs", 0) \in S /\ (\A n \in pr : At("node", n) \in S)
      /\ \A h \in S : h = At("pairs", 0) \/ \E n \in pr : h = At("node", n)
  OBVIOUS
<1>6. \A n \in Nat : n \notin pr => LivePages(f, pr, {}, n) = LivePages(f, {}, {}, n)
  BY DEF LivePages
<1>7. \A n \in pr : LivePages(f, pr, {}, n) = {} /\ LivePages(f, {}, {}, n) = PagesOf(0, f[n].items)
  BY <1>3 DEF LivePages, NodePages
<1>8. PairsPages({}) = {} /\ (\A a : a \in PairsPages(ps) <=> \E n \in pr : a \in PagesOf(0, f[n].items))
  <2>1. \A p : p \in ps <=> \E n \in pr : \E i \in DOMAIN f[n].items : p = f[n].items[i]
    BY DEF ItemsOf
  <2> QED BY <2>1 DEF PairsPages, PagesOf
<1>9. gone = none OBVIOUS
<1>10. /\ \A n \in Nat : G[At("todo", n)] = TodoPages(td, gone, n) /\ H[At("todo", n)] = TodoPages(td, none, n)
       /\ \A i \in {1, 2} : G[At("root", i)] = RootPages(hs, gone, i) /\ H[At("root", i)] = RootPages(hs, none, i)
  BY <1>1 DEF OwnedAre
<1>11. /\ H[At("pairs", 0)] = {} /\ G[At("pairs", 0)] = PairsPages(ps)
       /\ \A n \in pr : G[At("node", n)] = {} /\ H[At("node", n)] = PagesOf(0, f[n].items)
  BY <1>1, <1>3, <1>7, <1>8 DEF OwnedAre
<1> HIDE DEF H, G, S, gone, none
<1>12. SameBut(S, H, G) BY <1>1, <1>5, <1>6, <1>9, <1>10 DEF OwnedAre, SameBut
<1>13. Partition(G, DOMAIN f)
  <2>1. Exchange(S, H, G, DOMAIN f, DOMAIN f)
    BY <1>2, <1>4, <1>5, <1>8, <1>11 DEF Exchange, Partition
  <2> QED BY <1>2, <1>12, <2>1, MovePages
<1>14. PairsDistinct(ps)
  <2>1. \A n \in pr : Distinct(0, f[n].items) BY <1>2, <1>3 DEF NodesDistinct
  <2>2. \A n, m \in pr : n # m => PagesOf(0, f[n].items) \cap PagesOf(0, f[m].items) = {}
    <3> TAKE n, m \in pr
    <3> HAVE n # m
    <3>1. At("node", n) \in Holders /\ At("node", m) \in Holders /\ At("node", n) # At("node", m)
      BY <1>4, <1>5, OneHolder
    <3> QED BY <1>2, <1>11, <3>1 DEF Partition
  <2>3. \A p \in ps : \E n \in pr : \E i \in DOMAIN f[n].items : p = f[n].items[i] BY DEF ItemsOf
  <2>4. \A n \in pr : \A i \in DOMAIN f[n].items : Refs(0, f[n].items[i]) \subseteq PagesOf(0, f[n].items)
    BY DEF PagesOf
  <2>5. ASSUME NEW p \in ps, NEW q \in ps, p # q
        PROVE  Refs(0, p) \cap Refs(0, q) = {}
    <3>1. PICK n \in pr : \E i \in DOMAIN f[n].items : p = f[n].items[i] BY <2>3
    <3>2. PICK i \in DOMAIN f[n].items : p = f[n].items[i] BY <3>1
    <3>3. PICK m \in pr : \E j \in DOMAIN f[m].items : q = f[m].items[j] BY <2>3
    <3>4. PICK j \in DOMAIN f[m].items : q = f[m].items[j] BY <3>3
    <3>5. CASE n = m BY <2>1, <2>5, <3>2, <3>4, <3>5 DEF Distinct
    <3>6. CASE n # m
      <4>1. Refs(0, p) \subseteq PagesOf(0, f[n].items) /\ Refs(0, q) \subseteq PagesOf(0, f[m].items)
        BY <2>4, <3>2, <3>4
      <4> QED BY <2>2, <3>6, <4>1
    <3> QED BY <3>5, <3>6
  <2>6. \A p \in ps : Single(0, p) BY <2>1, <2>3 DEF Distinct
  <2> QED BY <2>5, <2>6 DEF PairsDistinct
<1>15. NodesDistinct(f, pr, {}) BY <1>2 DEF NodesDistinct
<1> QED BY <1>13, <1>14, <1>15 DEF Owning, G

\* The promoted leaves are freed when their pairs have been written.
LEMMA FreePromoted ==
    ASSUME NEW f, NEW hs, NEW ch, NEW td, NEW pr, NEW fr, NEW lo, FileOk(f),
           Owning(f, hs, <<>>, ch, <<>>, {}, <<>>, td, pr, fr, lo), \A n \in pr : IsLeaf(f, n), pr \cap fr = {},
           \A n \in Nat : LevelPages(ch, n) = {}, \A z : \A n \in Nat : TodoPages(td, z, n) = {}
    PROVE  Owning(f, hs, <<>>, ch, <<>>, {}, <<>>, td, pr, fr \cup pr, lo)
<1> DEFINE ff == fr \cup pr
           H == Owned(f, hs, <<>>, ch, <<>>, {}, <<>>, td, pr, fr, lo)
           G == Owned(f, hs, <<>>, ch, <<>>, {}, <<>>, td, pr, ff, lo)
<1>1. OwnedAre(H, f, hs, <<>>, ch, <<>>, {}, <<>>, td, pr, fr, lo) /\ OwnedAre(G, f, hs, <<>>, ch, <<>>, {}, <<>>, td, pr, ff, lo)
  BY OwnedParts
<1>2. Partition(H, DOMAIN f) /\ \A q \in lo : q \notin pr
  BY DEF Owning, IsOverflow, Overflow, IsLeaf, LeafNode
<1>3. \A i : RootPages(hs, pr \cap ff, i) = RootPages(hs, pr \cap fr, i) \ pr BY DEF RootPages
<1>4. \A n : LivePages(f, pr, ff, n) = LivePages(f, pr, fr, n) \ pr BY DEF LivePages
<1>5. PagesOf(0, <<>>) = {} /\ PagesOf(1, <<>>) = {} /\ PairsPages({}) = {}
  BY FewPages DEF PairsPages
<1>20. lo \ pr = lo BY <1>2
<1>21. \A n \in Nat : G[At("chain", n)] = LevelPages(ch, n) /\ H[At("chain", n)] = LevelPages(ch, n)
  BY <1>1 DEF OwnedAre
<1>22. \A n \in Nat : G[At("todo", n)] = {} /\ H[At("todo", n)] = {}
  <2>1. \A n \in Nat : G[At("todo", n)] = TodoPages(td, pr \cap ff, n) /\ H[At("todo", n)] = TodoPages(td, pr \cap fr, n)
    BY <1>1 DEF OwnedAre
  <2> HIDE DEF G, H
  <2> QED BY <2>1
<1>23. \A n \in Nat : G[At("node", n)] = LivePages(f, pr, ff, n) /\ H[At("node", n)] = LivePages(f, pr, fr, n)
  BY <1>1 DEF OwnedAre
<1>24. \A i \in {1, 2} : G[At("root", i)] = RootPages(hs, pr \cap ff, i) /\ H[At("root", i)] = RootPages(hs, pr \cap fr, i)
  BY <1>1 DEF OwnedAre
<1> HIDE DEF G, H, ff
<1>6. \A h \in Holders : h = At("freed", 0) \/ G[h] = H[h] \ pr
  <2>1. /\ G[At("leaf", 0)] = H[At("leaf", 0)] \ pr /\ G[At("reading", 0)] = H[At("reading", 0)] \ pr
        /\ G[At("hand", 0)] = H[At("hand", 0)] \ pr /\ G[At("pairs", 0)] = H[At("pairs", 0)] \ pr
        /\ G[At("lost", 0)] = H[At("lost", 0)] \ pr
    BY <1>1, <1>5, <1>20 DEF OwnedAre
  <2>2. G[At("root", 1)] = H[At("root", 1)] \ pr /\ G[At("root", 2)] = H[At("root", 2)] \ pr
    BY <1>3, <1>24
  <2>3. \A n \in Nat : G[At("chain", n)] = H[At("chain", n)] \ pr BY <1>21
  <2>4. \A n \in Nat : G[At("todo", n)] = H[At("todo", n)] \ pr BY <1>22
  <2>5. \A n \in Nat : G[At("node", n)] = H[At("node", n)] \ pr BY <1>4, <1>23
  <2> QED BY <2>1, <2>2, <2>3, <2>4, <2>5, HolderFacts
<1>7. G[At("freed", 0)] = H[At("freed", 0)] \cup pr /\ At("freed", 0) \in Holders /\ pr \subseteq DOMAIN f
  BY <1>1, HolderFacts DEF OwnedAre, IsLeaf, ff
<1>8. Partition(G, DOMAIN f)
  <2>1. \A h \in Holders : \A q \in G[h] : q \in DOMAIN f BY <1>2, <1>6, <1>7 DEF Partition
  <2>2. \A q \in DOMAIN f : \E h \in Holders : q \in G[h] BY <1>2, <1>6, <1>7 DEF Partition
  <2>3. \A h, g \in Holders : h # g => G[h] \cap G[g] = {}
    <3> TAKE h, g \in Holders
    <3> HAVE h # g
    <3>1. H[h] \cap H[g] = {} BY <1>2 DEF Partition
    <3> QED BY <1>6, <1>7, <3>1
  <2> QED BY <2>1, <2>2, <2>3 DEF Partition
<1>9. NodesDistinct(f, pr, ff) BY DEF Owning, NodesDistinct, ff
<1> QED BY <1>8, <1>9 DEF Owning, G, ff

-----------------------------------------------------------------------------
(* What follows when nothing is being written.                             *)

\* A node that is not the root has a parent in the tree.
LEMMA HasParent ==
    ASSUME NEW f, Forest(f), NEW r \in DOMAIN f, NEW n \in Below(f, r), n # r
    PROVE  \E m \in Below(f, r) : IsInner(f, m) /\ n \in Children(f, m) /\ f[n].depth < f[m].depth
<1> DEFINE X == {m \in Below(f, r) : n \in Below(f, m) /\ m # n}
<1>1. r \in X /\ X \subseteq DOMAIN f BY BelowNodes
<1> HIDE DEF X
<1>2. PICK m \in X : \A k \in X : f[m].depth <= f[k].depth BY <1>1, LowestPage
<1>3. m \in DOMAIN f /\ m \in Below(f, r) /\ n \in Below(f, m) /\ m # n BY <1>1 DEF X
<1>4. IsInner(f, m) BY <1>3, BelowFacts
<1>5. PICK c \in Children(f, m) : n \in Below(f, c) BY <1>3, <1>4, BelowFacts
<1>6. f[c].depth = f[m].depth - 1 /\ c \in DOMAIN f /\ f[m].depth \in Nat BY <1>4, ChildFacts
<1>7. c \in Below(f, m) BY <1>3, <1>4, <1>6, BelowFacts, BelowNodes
<1>8. c \in Below(f, r) BY <1>3, <1>7, BelowNodes
<1>9. c \notin X BY <1>2, <1>6
<1>10. c = n BY <1>5, <1>8, <1>9 DEF X
<1> QED BY <1>3, <1>4, <1>5, <1>6, <1>10

\* When nothing is being written, pages are referred to, freed or lost.
LEMMA SettledPlaces ==
    ASSUME NEW f, NEW hs, NEW ch, NEW td, NEW pr, NEW fr, NEW lo, Settled(f, hs, ch, td, pr, fr, lo)
    PROVE  Placed(f, hs, pr, fr, lo)
<1> DEFINE H == Owned(f, hs, <<>>, ch, <<>>, {}, <<>>, td, pr, fr, lo)
<1>1. OwnedAre(H, f, hs, <<>>, ch, <<>>, {}, <<>>, td, pr, fr, lo) BY OwnedParts
<1>2. Partition(H, DOMAIN f) /\ NodesDistinct(f, pr, fr) /\ \A q \in lo : IsOverflow(f, q)
  BY DEF Settled, Owning
<1>3. FileOk(f) /\ Forest(f) /\ pr \subseteq fr BY DEF Settled, FileOk
<1>4. \A i \in {1, 2} : RootPages(hs, pr \cap fr, i) = {hs[i]} \ {NoPage}
  <2> TAKE i \in {1, 2}
  <2>1. hs[i] # NoPage => hs[i] \in DOMAIN f /\ Clean(f, pr, hs[i])
    BY DEF Settled, RootOk, RootClean, IsNode, IsLeaf, IsInner
  <2>2. hs[i] # NoPage => hs[i] \notin pr BY <1>3, <2>1, BelowNodes DEF Clean
  <2> QED BY <2>2 DEF RootPages
<1>5. \A n : Live(f, fr, n) => n \in Nat /\ n \in DOMAIN f
  BY <1>3 DEF Live, IsNode, IsLeaf, IsInner, Forest
<1>6. \A n \in Nat : LivePages(f, pr, fr, n) = IF Live(f, fr, n) THEN NodePages(f, n) \ pr ELSE {}
  BY <1>3 DEF LivePages, Live
<1>7. PagesOf(0, <<>>) = {} /\ PagesOf(1, <<>>) = {} /\ PairsPages({}) = {}
  BY FewPages DEF PairsPages
<1>8. /\ H[At("leaf", 0)] = {} /\ H[At("reading", 0)] = {} /\ H[At("hand", 0)] = {} /\ H[At("pairs", 0)] = {}
      /\ H[At("freed", 0)] = fr /\ H[At("lost", 0)] = lo
      /\ H[At("root", 1)] = {hs[1]} \ {NoPage} /\ H[At("root", 2)] = {hs[2]} \ {NoPage}
  BY <1>1, <1>4, <1>7 DEF OwnedAre
<1>9. \A n \in Nat : H[At("chain", n)] = {}
  <2>1. \A n \in Nat : H[At("chain", n)] = LevelPages(ch, n) BY <1>1 DEF OwnedAre
  <2> QED BY <2>1 DEF Settled
<1>10. \A n \in Nat : H[At("todo", n)] = {}
  <2>1. \A n \in Nat : H[At("todo", n)] = TodoPages(td, pr \cap fr, n) BY <1>1 DEF OwnedAre
  <2> QED BY <2>1 DEF Settled
<1>11. \A n \in Nat : H[At("node", n)] = IF Live(f, fr, n) THEN NodePages(f, n) \ pr ELSE {}
  <2>1. \A n \in Nat : H[At("node", n)] = LivePages(f, pr, fr, n) BY <1>1 DEF OwnedAre
  <2> QED BY <1>6, <2>1
<1> HIDE DEF H
<1>12. \A n : Live(f, fr, n) => \A q \in NodePages(f, n) \ pr : q \notin fr \cup lo /\ q # hs[1] /\ q # hs[2]
  <2> SUFFICES ASSUME NEW n, Live(f, fr, n), NEW q \in NodePages(f, n) \ pr
               PROVE  q \notin fr \cup lo /\ q # hs[1] /\ q # hs[2]
    OBVIOUS
  <2>1. q \in H[At("node", n)] /\ At("node", n) \in Holders /\ q \in DOMAIN f
    BY <1>2, <1>5, <1>11, HolderFacts DEF Partition
  <2>2. q # NoPage BY <1>3, <2>1 DEF Forest
  <2>3. \A g \in Holders : g # At("node", n) => q \notin H[g] BY <1>2, <2>1 DEF Partition
  <2> QED BY <1>8, <2>2, <2>3, HolderFacts, OneHolder
<1>13. \A n, m : Live(f, fr, n) /\ Live(f, fr, m) /\ n # m =>
         \A q \in NodePages(f, n) \ pr : q \notin NodePages(f, m)
  <2> SUFFICES ASSUME NEW n, NEW m, Live(f, fr, n), Live(f, fr, m), n # m, NEW q \in NodePages(f, n) \ pr
               PROVE  q \notin NodePages(f, m)
    OBVIOUS
  <2>1. q \in H[At("node", n)] /\ H[At("node", m)] = NodePages(f, m) \ pr BY <1>5, <1>11
  <2>2. At("node", n) \in Holders /\ At("node", m) \in Holders /\ At("node", n) # At("node", m)
    BY <1>5, HolderFacts, OneHolder
  <2> QED BY <1>2, <2>1, <2>2 DEF Partition
<1>14. \A n : Live(f, fr, n) => Distinct(f[n].depth, f[n].items)
  BY <1>2, <1>3 DEF NodesDistinct, Live
<1>15. hs[1] = hs[2] => hs[1] = NoPage BY <1>2, <1>8, HolderFacts, OneHolder DEF Partition
<1>16. \A i \in {1, 2} : hs[i] # NoPage => hs[i] \notin fr \cup lo
  <2> TAKE i \in {1, 2}
  <2>1. H[At("root", i)] = {hs[i]} \ {NoPage} /\ At("root", i) \in Holders BY <1>8, HolderFacts
  <2> QED BY <1>2, <1>8, <2>1, HolderFacts, OneHolder DEF Partition
<1>17. \A q \in DOMAIN f : \/ q \in fr \cup lo
                           \/ \E i \in {1, 2} : q = hs[i] /\ q # NoPage
                           \/ \E n : Live(f, fr, n) /\ q \in NodePages(f, n) \ pr
  <2> TAKE q \in DOMAIN f
  <2>1. PICK h \in Holders : q \in H[h] BY <1>2 DEF Partition
  <2>2. CASE \E n \in Nat : h = At("chain", n) \/ h = At("todo", n) \/ h = At("node", n)
    BY <1>9, <1>10, <1>11, <2>1, <2>2
  <2> QED BY <1>8, <2>1, <2>2, HolderFacts
<1>18. \A q \in lo : IsOverflow(f, q) /\ q \notin fr
  BY <1>2, <1>8, HolderFacts, OneHolder DEF Partition
<1> QED BY <1>12, <1>13, <1>14, <1>15, <1>16, <1>17, <1>18 DEF Placed

\* The nodes that are not freed are those under the roots, and all they refer to is there.
LEMMA SettledTrees ==
    ASSUME NEW f, NEW hs, NEW ch, NEW td, NEW pr, NEW fr, NEW lo, Settled(f, hs, ch, td, pr, fr, lo)
    PROVE  /\ \A i \in {1, 2} : hs[i] # NoPage => \A n \in Below(f, hs[i]) : Live(f, fr, n)
           /\ \A n : Live(f, fr, n) => \E i \in {1, 2} : hs[i] # NoPage /\ n \in Below(f, hs[i])
           /\ \A n : Live(f, fr, n) => NodePages(f, n) \cap fr = {}
           /\ Apart(f, hs[1], hs[2])
<1>1. Placed(f, hs, pr, fr, lo) BY SettledPlaces
<1>2. FileOk(f) /\ Forest(f) /\ pr \subseteq fr /\ \A n \in pr : IsLeaf(f, n) BY DEF Settled, FileOk
<1>3. \A i \in {1, 2} : hs[i] # NoPage => /\ hs[i] \in DOMAIN f /\ IsNode(f, hs[i])
                                          /\ hs[i] \in Below(f, hs[i]) /\ Below(f, hs[i]) \cap pr = {}
                                          /\ \A n \in Below(f, hs[i]) : IsNode(f, n) /\ n \in DOMAIN f
  <2> TAKE i \in {1, 2}
  <2> HAVE hs[i] # NoPage
  <2>1. IsNode(f, hs[i]) /\ Clean(f, pr, hs[i]) BY DEF Settled, RootOk, RootClean
  <2>2. hs[i] \in DOMAIN f BY <2>1 DEF IsNode, IsLeaf, IsInner
  <2> QED BY <1>2, <2>1, <2>2, BelowNodes DEF Clean
<1>4. \A n : IsInner(f, n) => \A c \in Children(f, n) : c \in NodePages(f, n) /\ c \in Below(f, n) /\ f[c].depth < f[n].depth
  <2> SUFFICES ASSUME NEW n, IsInner(f, n), NEW c \in Children(f, n)
               PROVE  c \in NodePages(f, n) /\ c \in Below(f, n) /\ f[c].depth < f[n].depth
    OBVIOUS
  <2>1. c \in NodePages(f, n) BY <1>2, NodeRefs DEF Children, IsNode
  <2>2. n \in DOMAIN f /\ c \in DOMAIN f /\ f[n].depth \in Nat /\ f[c].depth = f[n].depth - 1
    BY <1>2, ChildFacts
  <2> QED BY <1>2, <2>1, <2>2, BelowFacts, BelowNodes
<1>5. ASSUME NEW i \in {1, 2}, hs[i] # NoPage
      PROVE  \A n \in Below(f, hs[i]) : Live(f, fr, n)
  <2> DEFINE Bad == {n \in Below(f, hs[i]) : n \in fr}
  <2>1. Bad \subseteq DOMAIN f BY <1>3, <1>5
  <2> HIDE DEF Bad
  <2>2. ASSUME Bad # {}
        PROVE  FALSE
    <3>1. PICK n \in Bad : \A m \in Bad : f[m].depth <= f[n].depth BY <1>2, <2>1, <2>2, HighestPage
    <3>2. n \in Below(f, hs[i]) /\ n \in fr /\ n # hs[i] BY <1>1, <1>5 DEF Bad, Placed
    <3>3. PICK m \in Below(f, hs[i]) : IsInner(f, m) /\ n \in Children(f, m) /\ f[n].depth < f[m].depth
      BY <1>2, <1>3, <1>5, <3>2, HasParent
    <3>4. f[m].depth \in Int /\ f[n].depth \in Int BY <1>2, <1>3, <1>5, <3>2, <3>3, NodeFacts
    <3>5. m \notin fr BY <3>1, <3>3, <3>4 DEF Bad
    <3>6. Live(f, fr, m) /\ n \in NodePages(f, m) \ pr
      BY <1>3, <1>4, <1>5, <3>2, <3>3, <3>5 DEF Live
    <3> QED BY <1>1, <3>2, <3>6 DEF Placed
  <2> QED BY <1>3, <1>5, <2>2 DEF Bad, Live
<1>6. ASSUME NEW n0, Live(f, fr, n0)
      PROVE  \E i \in {1, 2} : hs[i] # NoPage /\ n0 \in Below(f, hs[i])
  <2> DEFINE Bad == {n \in DOMAIN f : Live(f, fr, n) /\ \A i \in {1, 2} : hs[i] # NoPage => n \notin Below(f, hs[i])}
  <2>1. Bad \subseteq DOMAIN f OBVIOUS
  <2> HIDE DEF Bad
  <2>2. ASSUME Bad # {}
        PROVE  FALSE
    <3>1. PICK n \in Bad : \A m \in Bad : f[m].depth <= f[n].depth BY <1>2, <2>1, <2>2, HighestPage
    <3>2. n \in DOMAIN f /\ Live(f, fr, n) /\ (\A i \in {1, 2} : hs[i] # NoPage => n \notin Below(f, hs[i]))
          /\ ~IsOverflow(f, n)
      BY DEF Bad, Live, IsNode, IsLeaf, IsInner, IsOverflow, Overflow, LeafNode, ParentNode
    <3>3. n \notin fr \cup lo /\ \A i \in {1, 2} : n # NoPage => n # hs[i]
      BY <1>1, <1>3, <3>2 DEF Placed, Live
    <3>4. PICK m : Live(f, fr, m) /\ n \in NodePages(f, m) \ pr BY <1>1, <3>2, <3>3 DEF Placed
    <3>5. IsInner(f, m) /\ n \in Children(f, m) BY <1>2, <3>2, <3>4, NodeRefs DEF Live
    <3>6. m \in DOMAIN f /\ f[n].depth < f[m].depth /\ n \in Below(f, m) BY <1>4, <3>5 DEF IsInner
    <3>7. f[m].depth \in Int /\ f[n].depth \in Int BY <3>2, <3>4, <3>6, NodeFacts DEF Live
    <3>8. m \notin Bad BY <3>1, <3>6, <3>7
    <3>9. PICK i \in {1, 2} : hs[i] # NoPage /\ m \in Below(f, hs[i]) BY <3>4, <3>6, <3>8 DEF Bad
    <3>10. n \in Below(f, hs[i]) BY <1>2, <1>3, <3>6, <3>9, BelowNodes
    <3> QED BY <3>2, <3>9, <3>10
  <2> QED BY <1>6, <2>2 DEF Bad, Live, IsNode, IsLeaf, IsInner
<1>7. ASSUME NEW n, Live(f, fr, n)
      PROVE  NodePages(f, n) \cap fr = {}
  <2> SUFFICES ASSUME NEW q \in NodePages(f, n)
               PROVE  q \notin fr
    OBVIOUS
  <2>1. IsOverflow(f, q) \/ (q \in Children(f, n) /\ IsInner(f, n)) BY <1>2, <1>7, NodeRefs DEF Live
  <2>2. CASE IsOverflow(f, q)
    <3>1. q \notin pr BY <1>2, <2>2 DEF IsLeaf, IsOverflow, Overflow, LeafNode
    <3> QED BY <1>1, <1>7, <3>1 DEF Placed
  <2>3. CASE q \in Children(f, n) /\ IsInner(f, n)
    <3>1. PICK i \in {1, 2} : hs[i] # NoPage /\ n \in Below(f, hs[i]) BY <1>6, <1>7
    <3>2. q \in Below(f, hs[i]) BY <1>2, <1>3, <1>4, <2>3, <3>1, BelowNodes
    <3> QED BY <1>5, <3>1, <3>2 DEF Live
  <2> QED BY <2>1, <2>2, <2>3
<1>8. ASSUME hs[1] # NoPage, hs[2] # NoPage
      PROVE  Below(f, hs[1]) \cap Below(f, hs[2]) = {}
  <2> DEFINE Bad == Below(f, hs[1]) \cap Below(f, hs[2])
  <2>1. Bad \subseteq DOMAIN f BY <1>3, <1>8
  <2> HIDE DEF Bad
  <2>2. ASSUME Bad # {}
        PROVE  FALSE
    <3>1. PICK n \in Bad : \A m \in Bad : f[m].depth <= f[n].depth BY <1>2, <2>1, <2>2, HighestPage
    <3>2. \A i \in {1, 2} : n \in Below(f, hs[i]) /\ hs[i] # NoPage BY <1>8 DEF Bad
    <3>3. ASSUME NEW i \in {1, 2}, n # hs[i]
          PROVE  \E m \in Below(f, hs[i]) : /\ Live(f, fr, m) /\ n \in NodePages(f, m) \ pr
                                            /\ f[n].depth < f[m].depth
      <4>1. PICK m \in Below(f, hs[i]) : IsInner(f, m) /\ n \in Children(f, m) /\ f[n].depth < f[m].depth
        BY <1>2, <1>3, <3>2, <3>3, HasParent
      <4> QED BY <1>3, <1>4, <1>5, <3>2, <4>1
    <3>4. n # hs[1] /\ n # hs[2] BY <1>1, <1>8, <3>3 DEF Placed
    <3>5. PICK m \in Below(f, hs[1]) : Live(f, fr, m) /\ n \in NodePages(f, m) \ pr /\ f[n].depth < f[m].depth
      BY <3>3, <3>4
    <3>6. PICK k \in Below(f, hs[2]) : Live(f, fr, k) /\ n \in NodePages(f, k) \ pr /\ f[n].depth < f[k].depth
      BY <3>3, <3>4
    <3>7. m = k BY <1>1, <3>5, <3>6 DEF Placed
    <3>8. f[m].depth \in Int /\ f[n].depth \in Int BY <1>2, <1>3, <3>2, <3>5, NodeFacts
    <3> QED BY <3>1, <3>5, <3>6, <3>7, <3>8 DEF Bad
  <2> QED BY <2>2 DEF Bad
<1> QED BY <1>5, <1>6, <1>7, <1>8 DEF Apart

\* A place that refers to a page: a root, or in an item of a node.
LEMMA ReferenceIs ==
    ASSUME NEW f, NEW hs, DOMAIN hs = {1, 2}, NEW r \in References(f, hs)
    PROVE  /\ r = [in |-> r.in, item |-> r.item, what |-> r.what]
           /\ \/ /\ r.in = NoPage /\ r.what = "root" /\ r.item \in {1, 2} /\ hs[r.item] # NoPage
                 /\ Target(f, hs, r) = hs[r.item]
              \/ \E i \in {1, 2} : /\ r.in \in Nodes(f, hs[i]) /\ r.item \in DOMAIN f[r.in].items /\ r.what \in What
                                   /\ PageOf(f[r.in].depth, f[r.in].items[r.item], r.what) # NoPage
                                   /\ Target(f, hs, r) = PageOf(f[r.in].depth, f[r.in].items[r.item], r.what)
<1>1. CASE r \in [in : {NoPage}, item : DOMAIN hs, what : {"root"}] /\ hs[r.item] # NoPage
  BY <1>1 DEF Target
<1>2. CASE \E i \in {1, 2} : \E n \in Nodes(f, hs[i]) :
              /\ r \in [in : {n}, item : DOMAIN f[n].items, what : {"child", "key", "value"}]
              /\ PageOf(f[n].depth, f[n].items[r.item], r.what) # NoPage
  <2>1. PICK i \in {1, 2} : \E n \in Nodes(f, hs[i]) :
              /\ r \in [in : {n}, item : DOMAIN f[n].items, what : {"child", "key", "value"}]
              /\ PageOf(f[n].depth, f[n].items[r.item], r.what) # NoPage
    BY <1>2
  <2>2. PICK n \in Nodes(f, hs[i]) :
              /\ r \in [in : {n}, item : DOMAIN f[n].items, what : {"child", "key", "value"}]
              /\ PageOf(f[n].depth, f[n].items[r.item], r.what) # NoPage
    BY <2>1
  <2>3. r.in = n /\ r.item \in DOMAIN f[n].items /\ r.what \in What /\ r.what # "root"
        /\ r = [in |-> r.in, item |-> r.item, what |-> r.what]
    BY <2>2 DEF What
  <2> QED BY <2>2, <2>3 DEF Target
<1> QED BY <1>1, <1>2 DEF References

\* OwnedBy has the roots and what is referred to under them.
LEMMA ReferencesAre ==
    ASSUME NEW f, NEW hs, DOMAIN hs = {1, 2}
    PROVE  /\ \A i \in {1, 2} : hs[i] # NoPage => hs[i] \in OwnedBy(f, hs)
           /\ \A i \in {1, 2} : \A n \in Nodes(f, hs[i]) : NodePages(f, n) \subseteq OwnedBy(f, hs)
<1>1. ASSUME NEW i \in {1, 2}, hs[i] # NoPage
      PROVE  hs[i] \in OwnedBy(f, hs)
  <2> DEFINE r == [in |-> NoPage, item |-> i, what |-> "root"]
  <2>1. r \in References(f, hs) /\ Target(f, hs, r) = hs[i] BY <1>1 DEF References, Target
  <2> QED BY <2>1 DEF OwnedBy
<1>2. ASSUME NEW i \in {1, 2}, NEW n \in Nodes(f, hs[i]), NEW q \in NodePages(f, n)
      PROVE  q \in OwnedBy(f, hs)
  <2>1. PICK j \in DOMAIN f[n].items : q \in Refs(f[n].depth, f[n].items[j])
    BY DEF NodePages, PagesOf
  <2>2. PICK w \in What : q = PageOf(f[n].depth, f[n].items[j], w) /\ q # NoPage BY <2>1 DEF Refs
  <2> DEFINE r == [in |-> n, item |-> j, what |-> w]
  <2>3. r \in [in : {n}, item : DOMAIN f[n].items, what : {"child", "key", "value"}]
        /\ r.in = n /\ r.item = j /\ r.what = w /\ w # "root"
    BY DEF What
  <2> HIDE DEF r
  <2>4. n \in UNION {Nodes(f, hs[k]) : k \in DOMAIN hs} OBVIOUS
  <2>5. r \in References(f, hs) BY <2>2, <2>3, <2>4 DEF References
  <2>6. Target(f, hs, r) = q BY <2>2, <2>3 DEF Target
  <2> QED BY <2>5, <2>6 DEF OwnedBy
<1> QED BY <1>1, <1>2

\* No page of the trees has two owners, and together they own what is not freed or lost.
LEMMA SettledOwners ==
    ASSUME NEW f, NEW hs, DOMAIN hs = {1, 2}, NEW ch, NEW td, NEW pr, NEW fr, NEW lo,
           Settled(f, hs, ch, td, pr, fr, lo)
    PROVE  /\ Unshared(f, hs)
           /\ \A q : q \in OwnedBy(f, hs) <=> q \in DOMAIN f \ (fr \cup lo)
<1>1. Placed(f, hs, pr, fr, lo) BY SettledPlaces
<1>2. FileOk(f) /\ pr \subseteq fr BY DEF Settled
<1>3. /\ \A i \in {1, 2} : \A n \in Nodes(f, hs[i]) : Live(f, fr, n)
      /\ \A n : Live(f, fr, n) => \E i \in {1, 2} : n \in Nodes(f, hs[i])
      /\ \A n : Live(f, fr, n) => NodePages(f, n) \cap pr = {}
  BY <1>2, SettledTrees DEF Nodes
<1>4. ASSUME NEW r \in References(f, hs)
      PROVE  \/ /\ r.in = NoPage /\ r.what = "root" /\ r.item \in {1, 2} /\ hs[r.item] # NoPage
                /\ Target(f, hs, r) = hs[r.item]
             \/ /\ Live(f, fr, r.in) /\ r.item \in DOMAIN f[r.in].items /\ r.what \in What
                /\ PageOf(f[r.in].depth, f[r.in].items[r.item], r.what) # NoPage
                /\ Target(f, hs, r) = PageOf(f[r.in].depth, f[r.in].items[r.item], r.what)
                /\ Target(f, hs, r) \in Refs(f[r.in].depth, f[r.in].items[r.item])
                /\ Target(f, hs, r) \in NodePages(f, r.in) \ pr
  <2>1. CASE \E i \in {1, 2} : /\ r.in \in Nodes(f, hs[i]) /\ r.item \in DOMAIN f[r.in].items /\ r.what \in What
                               /\ PageOf(f[r.in].depth, f[r.in].items[r.item], r.what) # NoPage
                               /\ Target(f, hs, r) = PageOf(f[r.in].depth, f[r.in].items[r.item], r.what)
    <3>1. Live(f, fr, r.in) /\ Target(f, hs, r) \in Refs(f[r.in].depth, f[r.in].items[r.item])
      BY <1>3, <2>1 DEF Refs
    <3>2. Target(f, hs, r) \in NodePages(f, r.in) BY <2>1, <3>1 DEF NodePages, PagesOf
    <3> QED BY <1>3, <2>1, <3>1, <3>2
  <2> QED BY <2>1, ReferenceIs
<1>5. ASSUME NEW r \in References(f, hs), NEW s \in References(f, hs), Target(f, hs, r) = Target(f, hs, s)
      PROVE  r.in = s.in /\ r.item = s.item /\ r.what = s.what
  <2>1. CASE Live(f, fr, r.in) /\ r.what \in What /\ Live(f, fr, s.in) /\ s.what \in What
    <3>1. r.what # "root" /\ s.what # "root" BY <2>1 DEF What
    <3>2. r.in = s.in BY <1>1, <1>4, <1>5, <2>1, <3>1 DEF Placed
    <3>3. Distinct(f[r.in].depth, f[r.in].items) BY <1>1, <2>1 DEF Placed
    <3>4. r.item = s.item BY <1>4, <1>5, <3>1, <3>2, <3>3 DEF Distinct
    <3>5. Single(f[r.in].depth, f[r.in].items[r.item]) BY <1>4, <3>1, <3>3 DEF Distinct
    <3> QED BY <1>4, <1>5, <3>1, <3>2, <3>4, <3>5 DEF Single
  <2> QED BY <1>1, <1>4, <1>5, <2>1 DEF Placed
<1>6. Unshared(f, hs)
  <2> SUFFICES ASSUME NEW r \in References(f, hs), NEW s \in References(f, hs), Target(f, hs, r) = Target(f, hs, s)
               PROVE  r = s
    BY DEF Unshared
  <2>1. r.in = s.in /\ r.item = s.item /\ r.what = s.what BY <1>5
  <2>2. r = [in |-> r.in, item |-> r.item, what |-> r.what] /\ s = [in |-> s.in, item |-> s.item, what |-> s.what]
    BY ReferenceIs
  <2> QED BY <2>1, <2>2
<1>7. ASSUME NEW q \in OwnedBy(f, hs)
      PROVE  q \in DOMAIN f /\ q \notin fr \cup lo
  <2>1. PICK r \in References(f, hs) : q = Target(f, hs, r) BY DEF OwnedBy
  <2>2. \A n : Live(f, fr, n) => \A p \in NodePages(f, n) : p \in DOMAIN f
    BY <1>2, NodeRefs DEF Live
  <2>3. \A i \in {1, 2} : hs[i] # NoPage => hs[i] \in DOMAIN f
    BY DEF Settled, RootOk, IsNode, IsLeaf, IsInner
  <2> QED BY <1>1, <1>4, <2>1, <2>2, <2>3 DEF Placed
<1>8. ASSUME NEW q \in DOMAIN f, q \notin fr \cup lo
      PROVE  q \in OwnedBy(f, hs)
  <2>1. CASE \E i \in {1, 2} : q = hs[i] /\ q # NoPage BY <2>1, ReferencesAre
  <2>2. CASE \E n : Live(f, fr, n) /\ q \in NodePages(f, n) \ pr BY <1>3, <2>2, ReferencesAre
  <2> QED BY <1>1, <1>8, <2>1, <2>2 DEF Placed
<1> QED BY <1>6, <1>7, <1>8

\* It stays so when pages are added to the file.
LEMMA OwnersStay ==
    ASSUME NEW f, NEW g, FileOk(f), FileOk(g), Extends(g, f), NEW hs, DOMAIN hs = {1, 2},
           \A i \in {1, 2} : RootOk(f, hs[i]), Unshared(f, hs)
    PROVE  Unshared(g, hs)
<1>1. Forest(f) /\ Forest(g) BY DEF FileOk
<1>2. \A i \in {1, 2} : Nodes(g, hs[i]) = Nodes(f, hs[i]) /\ Nodes(f, hs[i]) \subseteq DOMAIN f
  BY <1>1, TreesStay, BelowNodes DEF Nodes, RootOk, IsNode, IsLeaf, IsInner
<1>3. \A n \in DOMAIN f : g[n] = f[n] BY DEF Extends
<1>4. ASSUME NEW r \in References(g, hs)
      PROVE  r \in References(f, hs) /\ Target(g, hs, r) = Target(f, hs, r)
  <2>1. CASE r \in [in : {NoPage}, item : DOMAIN hs, what : {"root"}] /\ hs[r.item] # NoPage
    BY <2>1 DEF Target, References
  <2>2. CASE \E i \in {1, 2} : \E n \in Nodes(g, hs[i]) :
                /\ r \in [in : {n}, item : DOMAIN g[n].items, what : {"child", "key", "value"}]
                /\ PageOf(g[n].depth, g[n].items[r.item], r.what) # NoPage
    <3>1. PICK i \in {1, 2} : \E n \in Nodes(g, hs[i]) :
                /\ r \in [in : {n}, item : DOMAIN g[n].items, what : {"child", "key", "value"}]
                /\ PageOf(g[n].depth, g[n].items[r.item], r.what) # NoPage
      BY <2>2
    <3>2. PICK n \in Nodes(g, hs[i]) :
                /\ r \in [in : {n}, item : DOMAIN g[n].items, what : {"child", "key", "value"}]
                /\ PageOf(g[n].depth, g[n].items[r.item], r.what) # NoPage
      BY <3>1
    <3>3. n \in Nodes(f, hs[i]) /\ g[n] = f[n] /\ r.in = n BY <1>2, <1>3, <3>2
    <3>4. n \in UNION {Nodes(f, hs[k]) : k \in DOMAIN hs} BY <3>3
    <3>5. r \in References(f, hs) BY <3>2, <3>3, <3>4 DEF References
    <3> QED BY <3>3, <3>5 DEF Target
  <2> QED BY <2>1, <2>2 DEF References
<1> QED BY <1>4 DEF Unshared

\* The freed pages are given back when nothing refers to them any more.
LEMMA Shrunk ==
    ASSUME NEW f, NEW hs, NEW ch, NEW td, NEW pr, NEW fr, NEW lo, Settled(f, hs, ch, td, pr, fr, lo),
           NEW g, FileOk(g), DOMAIN g = DOMAIN f \ fr, \A n \in DOMAIN g : g[n] = f[n]
    PROVE  Owning(g, hs, <<>>, NewChain, <<>>, {}, <<>>, <<>>, {}, {}, lo)
<1> DEFINE G == Owned(g, hs, <<>>, NewChain, <<>>, {}, <<>>, <<>>, {}, {}, lo)
           none == {} \cap {}
<1>1. OwnedAre(G, g, hs, <<>>, NewChain, <<>>, {}, <<>>, <<>>, {}, {}, lo) BY OwnedParts
<1>2. Placed(f, hs, pr, fr, lo) BY SettledPlaces
<1>3. FileOk(f) /\ pr \subseteq fr /\ \A n : Live(f, fr, n) => NodePages(f, n) \cap fr = {}
  BY SettledTrees DEF Settled
<1>4. \A n : Live(f, fr, n) <=> IsNode(g, n) BY DEF Live, IsNode, IsLeaf, IsInner
<1>5. \A n : Live(f, fr, n) => n \in Nat /\ n \in DOMAIN g /\ g[n] = f[n]
  BY <1>3 DEF Live, IsNode, IsLeaf, IsInner, FileOk, Forest
<1>6. PagesOf(0, <<>>) = {} /\ PagesOf(1, <<>>) = {} /\ PairsPages({}) = {} /\ Distinct(0, <<>>) /\ Distinct(1, <<>>)
      /\ PairsDistinct({})
  BY FewPages DEF PairsPages, PairsDistinct
<1>7. \A n : LivePages(g, {}, {}, n) = IF Live(f, fr, n) THEN NodePages(f, n) ELSE {}
  BY <1>4, <1>5 DEF LivePages, NodePages
<1>8. \A i \in {1, 2} : RootPages(hs, none, i) = {hs[i]} \ {NoPage} BY DEF RootPages
<1>9. (\A n : LevelPages(NewChain, n) = {}) /\ \A z, n : TodoPages(<<>>, z, n) = {}
  <2>1. DOMAIN NewChain = {1, 2} /\ \A n \in {1, 2} : NewChain[n] = <<>> BY DEF NewChain
  <2> QED BY <1>6, <2>1 DEF LevelPages, TodoPages
<1>10. /\ G[At("leaf", 0)] = {} /\ G[At("reading", 0)] = {} /\ G[At("hand", 0)] = {} /\ G[At("pairs", 0)] = {}
       /\ G[At("freed", 0)] = {} /\ G[At("lost", 0)] = lo
  BY <1>1, <1>6 DEF OwnedAre
<1>11. \A i \in {1, 2} : G[At("root", i)] = {hs[i]} \ {NoPage}
  <2>1. \A i \in {1, 2} : G[At("root", i)] = RootPages(hs, none, i) BY <1>1 DEF OwnedAre
  <2> QED BY <1>8, <2>1
<1>12. \A n \in Nat : G[At("chain", n)] = {} /\ G[At("todo", n)] = {}
  <2>1. \A n \in Nat : G[At("chain", n)] = LevelPages(NewChain, n) /\ G[At("todo", n)] = TodoPages(<<>>, none, n)
    BY <1>1 DEF OwnedAre
  <2> QED BY <1>9, <2>1
<1>13. \A n \in Nat : G[At("node", n)] = IF Live(f, fr, n) THEN NodePages(f, n) ELSE {}
  <2>1. \A n \in Nat : G[At("node", n)] = LivePages(g, {}, {}, n) BY <1>1 DEF OwnedAre
  <2> QED BY <1>7, <2>1
<1> HIDE DEF G
<1>14. ASSUME NEW h \in Holders, NEW q \in G[h]
       PROVE  \/ h = At("lost", 0) /\ q \in lo
              \/ \E i \in {1, 2} : h = At("root", i) /\ q = hs[i] /\ q # NoPage
              \/ \E n : h = At("node", n) /\ Live(f, fr, n) /\ q \in NodePages(f, n) \ pr
  <2>1. CASE \E n \in Nat : h = At("chain", n) \/ h = At("todo", n) \/ h = At("node", n)
    BY <1>3, <1>12, <1>13, <1>14, <2>1
  <2>2. CASE h = At("root", 1) \/ h = At("root", 2) BY <1>11, <1>14, <2>2
  <2> QED BY <1>10, <1>14, <2>1, <2>2, HolderFacts
<1>15. ASSUME NEW h \in Holders, NEW q \in G[h]
       PROVE  q \in DOMAIN g
  <2>1. \A n : Live(f, fr, n) => \A p \in NodePages(f, n) : p \in DOMAIN f
    BY <1>3, NodeRefs DEF Live
  <2>2. \A i \in {1, 2} : hs[i] # NoPage => hs[i] \in DOMAIN f
    BY DEF Settled, RootOk, IsNode, IsLeaf, IsInner
  <2> QED BY <1>2, <1>14, <1>15, <2>1, <2>2 DEF Placed, IsOverflow
<1>16. ASSUME NEW q \in DOMAIN g
       PROVE  \E h \in Holders : q \in G[h]
  <2>1. CASE q \in lo BY <1>10, <2>1, HolderFacts
  <2>2. CASE \E i \in {1, 2} : q = hs[i] /\ q # NoPage BY <1>11, <2>2, HolderFacts
  <2>3. CASE \E n : Live(f, fr, n) /\ q \in NodePages(f, n) \ pr BY <1>5, <1>13, <2>3, HolderFacts
  <2> QED BY <1>2, <1>16, <2>1, <2>2, <2>3 DEF Placed
<1>17. ASSUME NEW h \in Holders, NEW e \in Holders, NEW q \in G[h], q \in G[e]
       PROVE  h = e
  <2>1. /\ \A i \in {1, 2} : hs[i] # NoPage => hs[i] \notin lo
        /\ \A n : Live(f, fr, n) => \A p \in NodePages(f, n) \ pr : p \notin lo /\ p # hs[1] /\ p # hs[2]
        /\ \A n, m : Live(f, fr, n) /\ Live(f, fr, m) /\ n # m => \A p \in NodePages(f, n) \ pr : p \notin NodePages(f, m)
        /\ hs[1] = hs[2] => hs[1] = NoPage
    BY <1>2 DEF Placed
  <2> QED BY <1>14, <1>17, <2>1
<1>18. Partition(G, DOMAIN g) BY <1>15, <1>16, <1>17 DEF Partition
<1>19. NodesDistinct(g, {}, {}) BY <1>2, <1>4, <1>5 DEF NodesDistinct, Placed
<1>20. \A q \in lo : IsOverflow(g, q) BY <1>2 DEF Placed, IsOverflow
<1>21. \A d \in DOMAIN NewChain : Distinct(1, NewChain[d]) BY <1>6 DEF NewChain
<1> QED BY <1>6, <1>18, <1>19, <1>20, <1>21 DEF Owning, G

-----------------------------------------------------------------------------
(* The pages of what is put and what is told.                              *)

\* An overflow that is written.
LEMMA OneMore ==
    ASSUME NEW f, FileOk(f), NEW g, g = WritePage(f, Overflow), NEW new, new = NextPage(f)
    PROVE  /\ FileOk(g) /\ Extends(g, f) /\ DOMAIN g = DOMAIN f \cup {new}
           /\ new \notin DOMAIN f /\ new # NoPage /\ new \in Nat /\ ~IsNode(g, new)
<1>1. Forest(f) BY DEF FileOk
<1>2. Extends(g, f) /\ DOMAIN g = DOMAIN f \cup {new} /\ g[new] = Overflow BY <1>1, WritePageFacts
<1>3. new \notin DOMAIN f /\ new # NoPage /\ new \in Nat BY <1>1, NextPageFacts
<1>4. FileOk(g) BY FileGrows
<1> QED BY <1>2, <1>3, <1>4 DEF IsNode, IsLeaf, IsInner, LeafNode, ParentNode, Overflow

\* Overflows that are added in two steps.
LEMMA AddedTwice ==
    ASSUME NEW f, NEW g, NEW h, Added(g, f), Added(h, g)
    PROVE  /\ Added(h, f)
           /\ DOMAIN h \ DOMAIN f = (DOMAIN g \ DOMAIN f) \cup (DOMAIN h \ DOMAIN g)
<1>1. Extends(h, f) BY DEF Added, Extends
<1>2. ASSUME NEW n \in DOMAIN h \ DOMAIN f
      PROVE  ~IsNode(h, n)
  <2>1. CASE n \in DOMAIN g BY <1>2, <2>1, PagesStay DEF Added
  <2> QED BY <1>2, <2>1 DEF Added
<1> QED BY <1>1, <1>2 DEF Added, Extends

\* The pages a pair has when it is put: its own, and those that were written for it.
LEMMA PutRefs ==
    ASSUME NEW f, FileOk(f), NEW p, PairOk(f, p), Single(0, p), NEW s, s = ToPut(f, p)
    PROVE  /\ FileOk(s.file) /\ Added(s.file, f) /\ s.p \in PairRec /\ Single(0, s.p)
           /\ Refs(0, s.p) = Refs(0, p) \cup (DOMAIN s.file \ DOMAIN f)
<1> DEFINE u == WithKeyPage([file |-> f, p |-> p])
           v == WithValuePage(u)
<1>1. /\ u = [file |-> u.file, p |-> u.p] /\ FileOk(u.file) /\ PairOk(u.file, u.p)
      /\ u.p.valuePage = p.valuePage
      /\ \/ u.file = f /\ u.p = p
         \/ p.keyPage = NoPage /\ u.p.keyPage = NextPage(f) /\ u.file = WritePage(f, Overflow)
  BY KeyPageFacts
<1>2. s = v BY DEF ToPut
<1> HIDE DEF u, v
<1>3. /\ FileOk(v.file) /\ PairOk(v.file, v.p) /\ v.p.keyPage = u.p.keyPage
      /\ \/ v.file = u.file /\ v.p = u.p
         \/ u.p.valuePage = NoPage /\ v.p.valuePage = NextPage(u.file) /\ v.file = WritePage(u.file, Overflow)
  <2>1. v = WithValuePage([file |-> u.file, p |-> u.p]) BY <1>1 DEF v
  <2> QED BY <1>1, <2>1, ValuePageFacts
<1>4. /\ p.valuePage = NoPage \/ p.valuePage \in DOMAIN f
      /\ u.p.keyPage = NoPage \/ u.p.keyPage \in DOMAIN u.file
  BY <1>1 DEF PairOk, IsOverflow
<1>5. Added(f, f) BY DEF Added, Extends
<1>6. Added(u.file, f) /\ Single(0, u.p) /\ Refs(0, u.p) = Refs(0, p) \cup (DOMAIN u.file \ DOMAIN f)
  <2>1. CASE u.file = f /\ u.p = p BY <1>5, <2>1
  <2>2. CASE p.keyPage = NoPage /\ u.p.keyPage = NextPage(f) /\ u.file = WritePage(f, Overflow)
    <3> DEFINE new == NextPage(f)
    <3>1. /\ Extends(u.file, f) /\ DOMAIN u.file = DOMAIN f \cup {new}
          /\ new \notin DOMAIN f /\ new # NoPage /\ ~IsNode(u.file, new)
      BY <2>2, OneMore
    <3> HIDE DEF new
    <3>2. u.p.keyPage = new BY <2>2 DEF new
    <3>3. Refs(0, p) = {p.valuePage} \ {NoPage} /\ Refs(0, u.p) = {new, p.valuePage} \ {NoPage}
      BY <1>1, <2>2, <3>2, RefsFacts
    <3>4. Single(0, u.p) BY <1>1, <1>4, <3>1, <3>2, SingleFacts
    <3> QED BY <3>1, <3>3, <3>4 DEF Added
  <2> QED BY <1>1, <2>1, <2>2
<1>7. Added(v.file, u.file) /\ Single(0, v.p) /\ Refs(0, v.p) = Refs(0, u.p) \cup (DOMAIN v.file \ DOMAIN u.file)
  <2>1. CASE v.file = u.file /\ v.p = u.p BY <1>6, <2>1 DEF Added, Extends
  <2>2. CASE u.p.valuePage = NoPage /\ v.p.valuePage = NextPage(u.file) /\ v.file = WritePage(u.file, Overflow)
    <3> DEFINE new == NextPage(u.file)
    <3>1. /\ Extends(v.file, u.file) /\ DOMAIN v.file = DOMAIN u.file \cup {new}
          /\ new \notin DOMAIN u.file /\ new # NoPage /\ ~IsNode(v.file, new)
      BY <1>1, <2>2, OneMore
    <3> HIDE DEF new
    <3>2. v.p.valuePage = new BY <2>2 DEF new
    <3>3. Refs(0, u.p) = {u.p.keyPage} \ {NoPage} /\ Refs(0, v.p) = {u.p.keyPage, new} \ {NoPage}
      BY <1>3, <2>2, <3>2, RefsFacts
    <3>4. Single(0, v.p) BY <1>3, <1>4, <3>1, <3>2, SingleFacts
    <3> QED BY <3>1, <3>3, <3>4 DEF Added
  <2> QED BY <1>3, <2>1, <2>2
<1>8. Added(v.file, f) /\ DOMAIN v.file \ DOMAIN f = (DOMAIN u.file \ DOMAIN f) \cup (DOMAIN v.file \ DOMAIN u.file)
  BY <1>6, <1>7, AddedTwice
<1>9. Refs(0, v.p) = Refs(0, p) \cup (DOMAIN v.file \ DOMAIN f) BY <1>6, <1>7, <1>8
<1> QED BY <1>2, <1>3, <1>7, <1>8, <1>9 DEF PairOk

\* The pages of a level when a key is given an overflow.
LEMMA OwnedPages ==
    ASSUME NEW f, FileOk(f), NEW d \in Nat \ {0}, NEW s, ItemsOk(f, d, s), Distinct(1, s), NEW i \in DOMAIN s,
           s[i].location = "inline", NEW t, t = ToOwnedOverflow([file |-> f, items |-> s], i)
    PROVE  /\ FileOk(t.file) /\ Added(t.file, f) /\ ItemsOk(t.file, d, t.items) /\ t = [file |-> t.file, items |-> t.items]
           /\ DOMAIN t.items = DOMAIN s /\ Distinct(1, t.items)
           /\ PagesOf(1, t.items) = PagesOf(1, s) \cup (DOMAIN t.file \ DOMAIN f)
<1> DEFINE new == NextPage(f)
           it == t.items
<1>1. /\ t = [file |-> t.file, items |-> t.items] /\ t.file = WritePage(f, Overflow) /\ ItemsOk(t.file, d, it)
      /\ DOMAIN it = DOMAIN s /\ \A j \in DOMAIN s : it[j].page = s[j].page /\ (j # i => it[j] = s[j])
      /\ it[i].location = "owned" /\ it[i].overflow = new
  BY OwnedFacts
<1>2. /\ FileOk(t.file) /\ Extends(t.file, f) /\ DOMAIN t.file = DOMAIN f \cup {new}
      /\ new \notin DOMAIN f /\ new # NoPage /\ ~IsNode(t.file, new)
  <2> DEFINE g == t.file
  <2>1. g = WritePage(f, Overflow) BY <1>1
  <2> HIDE DEF g
  <2>2. /\ FileOk(g) /\ Extends(g, f) /\ DOMAIN g = DOMAIN f \cup {new}
        /\ new \notin DOMAIN f /\ new # NoPage /\ ~IsNode(g, new)
    BY <2>1, OneMore
  <2> QED BY <2>2 DEF g
<1> HIDE DEF new, it
<1>3. \A j \in DOMAIN s : \A q \in Refs(1, s[j]) : q \in DOMAIN f
  <2>1. \A j \in DOMAIN s : s[j].page \in DOMAIN f /\ (s[j].location = "owned" => s[j].overflow \in DOMAIN f)
    BY DEF ItemsOk, ItemOk, IsNode, IsLeaf, IsInner, IsOverflow
  <2> QED BY <2>1, RefsFacts
<1>4. Refs(1, it[i]) = Refs(1, s[i]) \cup {new}
  <2>1. s[i].location # "owned" /\ it[i].page = s[i].page BY <1>1
  <2> QED BY <1>1, <1>2, <2>1, RefsFacts
<1>5. Single(1, it[i])
  <2>1. it[i].page = s[i].page /\ s[i].page \in DOMAIN f
    BY <1>1 DEF ItemsOk, ItemOk, IsNode, IsLeaf, IsInner
  <2> QED BY <1>1, <1>2, <2>1, SingleFacts
<1>6. PagesOf(1, it) = PagesOf(1, s) \cup {new}
  <2>1. \A j \in DOMAIN s : j # i => Refs(1, it[j]) = Refs(1, s[j]) BY <1>1
  <2> QED BY <1>1, <1>4, <2>1 DEF PagesOf
<1>7. Distinct(1, it)
  <2>1. \A j \in DOMAIN it : Single(1, it[j]) BY <1>1, <1>5 DEF Distinct
  <2>2. \A j \in DOMAIN it : j # i => it[j] = s[j] /\ Refs(1, it[j]) \cap Refs(1, it[i]) = {}
    BY <1>1, <1>2, <1>3, <1>4 DEF Distinct
  <2>3. \A j, k \in DOMAIN it : j # k => Refs(1, it[j]) \cap Refs(1, it[k]) = {}
    <3> TAKE j, k \in DOMAIN it
    <3> HAVE j # k
    <3>1. CASE j = i \/ k = i BY <2>2, <3>1
    <3> QED BY <1>1, <2>2, <3>1 DEF Distinct
  <2> QED BY <2>1, <2>3 DEF Distinct
<1> QED BY <1>1, <1>2, <1>6, <1>7 DEF Added, it

\* The same for the other key.
LEMMA OwnedTwice ==
    ASSUME NEW f, NEW d \in Nat \ {0}, NEW s, NEW u, Swollen(f, d, s, u), NEW j \in DOMAIN u.items,
           u.items[j].location = "inline", NEW t, t = ToOwnedOverflow(u, j)
    PROVE  Swollen(f, d, s, t)
<1> DEFINE g == u.file
           it == u.items
<1>1. /\ FileOk(g) /\ ItemsOk(g, d, it) /\ Distinct(1, it) /\ j \in DOMAIN it /\ it[j].location = "inline"
      /\ t = ToOwnedOverflow([file |-> g, items |-> it], j)
  BY DEF Swollen
<1>2. Added(g, f) /\ DOMAIN it = DOMAIN s /\ PagesOf(1, it) = PagesOf(1, s) \cup (DOMAIN g \ DOMAIN f)
  BY DEF Swollen
<1> HIDE DEF g, it
<1>3. /\ FileOk(t.file) /\ Added(t.file, g) /\ ItemsOk(t.file, d, t.items) /\ t = [file |-> t.file, items |-> t.items]
      /\ DOMAIN t.items = DOMAIN it /\ Distinct(1, t.items)
      /\ PagesOf(1, t.items) = PagesOf(1, it) \cup (DOMAIN t.file \ DOMAIN g)
  BY <1>1, OwnedPages
<1>4. Added(t.file, f) /\ DOMAIN t.file \ DOMAIN f = (DOMAIN g \ DOMAIN f) \cup (DOMAIN t.file \ DOMAIN g)
  BY <1>2, <1>3, AddedTwice
<1>5. PagesOf(1, t.items) = PagesOf(1, s) \cup (DOMAIN t.file \ DOMAIN f) BY <1>2, <1>3, <1>4
<1> QED BY <1>2, <1>3, <1>4, <1>5 DEF Swollen

\* When two items are made to fit.
LEMMA TwoPages ==
    ASSUME NEW f, FileOk(f), NEW d \in Nat \ {0}, NEW a, ItemsOk(f, d, a), Distinct(1, a),
           Len(a) # 2 => ParentSize(a) <= ParentRoom, NEW z, z = [file |-> f, items |-> a],
           NEW t, t = MakeTwoFit(z)
    PROVE  Swollen(f, d, a, t)
<1>1. \/ t = z
      \/ Len(a) = 2 /\ \E i \in DOMAIN a : /\ a[i].location = "inline"
                         /\ \/ t = ToOwnedOverflow(z, i)
                            \/ \E j \in DOMAIN a : /\ ToOwnedOverflow(z, i).items[j].location = "inline"
                                                   /\ t = ToOwnedOverflow(ToOwnedOverflow(z, i), j)
  BY TwoFit
<1>2. CASE t = z BY <1>2 DEF Added, Extends, Swollen
<1>3. ASSUME NEW i \in DOMAIN a, a[i].location = "inline"
      PROVE  Swollen(f, d, a, ToOwnedOverflow(z, i))
  BY <1>3, OwnedPages DEF Swollen
<1>4. ASSUME NEW i \in DOMAIN a, a[i].location = "inline", NEW j \in DOMAIN a,
             ToOwnedOverflow(z, i).items[j].location = "inline", t = ToOwnedOverflow(ToOwnedOverflow(z, i), j)
      PROVE  Swollen(f, d, a, t)
  <2>1. Swollen(f, d, a, ToOwnedOverflow(z, i)) BY <1>3, <1>4
  <2>2. j \in DOMAIN ToOwnedOverflow(z, i).items BY <2>1 DEF Swollen
  <2> QED BY <1>4, <2>1, <2>2, OwnedTwice
<1> QED BY <1>1, <1>2, <1>3, <1>4

\* The pages of a level that an item joins.
LEMMA JoinPages ==
    ASSUME NEW f, FileOk(f), NEW d \in Nat \ {0}, NEW s, LevelOk(f, d, s), NEW c, ItemOk(f, d, c),
           \A i \in DOMAIN s : Before(f, s[i], c), c.location # "owned",
           Len(s) < 2 \/ ParentSize(s) + ParentNeed(c) <= ParentRoom, NEW a, a = Append(s, c), Distinct(1, a),
           NEW t, t = WithItem(f, s, c)
    PROVE  Swollen(f, d, a, t)
<1>1. s \in Seq(ItemRec) /\ c \in ItemRec /\ ItemsOk(f, d, s) /\ ParentSize(s) <= ParentRoom
  BY DEF LevelOk, ItemsOk, ItemOk
<1>2. ItemsOk(f, d, a) BY <1>1, Appended
<1>3. Len(a) = Len(s) + 1 /\ Len(s) \in Nat /\ ParentSize(a) = ParentSize(s) + ParentNeed(c)
  BY <1>1, ParentSizes
<1>4. Len(s) = 0 => ParentSize(a) <= ParentRoom
  <2> SUFFICES ASSUME Len(s) = 0
               PROVE  ParentSize(a) <= ParentRoom
    OBVIOUS
  <2>1. s = <<>> /\ a = <<c>> BY <1>1
  <2>2. LevelOk(f, d, <<c>>) BY OneItem
  <2> QED BY <2>1, <2>2 DEF LevelOk
<1>5. Len(a) # 2 => ParentSize(a) <= ParentRoom BY <1>3, <1>4
<1>6. t = MakeTwoFit([file |-> f, items |-> a]) BY DEF WithItem
<1> QED BY <1>2, <1>5, <1>6, TwoPages

\* What is told of a page refers to nothing else.
LEMMA TellRefs ==
    ASSUME NEW c, c.location # "owned", c.page # NoPage
    PROVE  Refs(1, c) = {c.page} /\ Single(1, c)
  BY RefsFacts, SingleFacts

\* The lists of the writer and of what it has to write have no page in common.
LEMMA ListsApart ==
    ASSUME NEW f, NEW hs, NEW lf, NEW ch, NEW hd, NEW ps, NEW rd, NEW td, NEW pr, NEW fr, NEW lo,
           Owning(f, hs, lf, ch, hd, ps, rd, td, pr, fr, lo)
    PROVE  /\ PagesOf(0, lf) \subseteq DOMAIN f /\ \A p \in ps : PagesOf(0, lf) \cap Refs(0, p) = {}
           /\ \A d \in Nat : LevelPages(ch, d) \subseteq DOMAIN f /\ LevelPages(ch, d) \cap PagesOf(1, hd) = {}
           /\ PagesOf(1, hd) \subseteq DOMAIN f
<1> DEFINE H == Owned(f, hs, lf, ch, hd, ps, rd, td, pr, fr, lo)
<1>1. OwnedAre(H, f, hs, lf, ch, hd, ps, rd, td, pr, fr, lo) BY OwnedParts
<1>2. Partition(H, DOMAIN f) BY DEF Owning
<1>3. H[At("leaf", 0)] = PagesOf(0, lf) /\ H[At("hand", 0)] = PagesOf(1, hd) /\ H[At("pairs", 0)] = PairsPages(ps)
  BY <1>1 DEF OwnedAre
<1>4. \A d \in Nat : H[At("chain", d)] = LevelPages(ch, d) BY <1>1 DEF OwnedAre
<1> HIDE DEF H
<1>5. \A p \in ps : Refs(0, p) \subseteq PairsPages(ps) BY DEF PairsPages
<1>6. PagesOf(0, lf) \subseteq DOMAIN f /\ PagesOf(1, hd) \subseteq DOMAIN f /\ PagesOf(0, lf) \cap PairsPages(ps) = {}
  BY <1>2, <1>3, HolderFacts, OneHolder DEF Partition
<1>7. \A d \in Nat : LevelPages(ch, d) \subseteq DOMAIN f /\ LevelPages(ch, d) \cap PagesOf(1, hd) = {}
  BY <1>2, <1>3, <1>4, HolderFacts, OneHolder DEF Partition
<1> QED BY <1>5, <1>6, <1>7

-----------------------------------------------------------------------------
(* Every page has one owner, whatever step is taken.                       *)

\* A segment that is promoted as a whole still is.
LEMMA UpperStays ==
    ASSUME UpperTaken, Extends(file', file), UNCHANGED <<phase, upper, promoted>>
    PROVE  UpperTaken'
  BY PagesStay DEF UpperTaken, IsInner

\* The roots are the same when the phase and the segments are.
LEMMA SameHeads ==
    ASSUME UNCHANGED <<phase, upper, lower, pending>>
    PROVE  Heads' = Heads
  BY DEF Heads

\* The trees of the segments have the same owners when pages are written.
LEMMA OldOwners ==
    ASSUME SInv, OInv, SInv', Kept, UNCHANGED <<upper, lower>>
    PROVE  OInv'
<1>1. FileOk(file) /\ FileOk(file') /\ Extends(file', file) /\ Unshared(file, Old)
  BY DEF SInv, Kept, OInv
<1>2. DOMAIN Old = {1, 2} /\ \A i \in {1, 2} : RootOk(file, Old[i]) BY DEF Old, SInv, RootsOk
<1>3. Unshared(file', Old) BY <1>1, <1>2, OwnersStay
<1>4. Old' = Old BY DEF Old
<1> QED BY <1>3, <1>4 DEF Kept, OInv

\* The writer's step is all there is.
LEMMA WriterKept ==
    ASSUME OInv, Extends(file', file), UNCHANGED <<segments, phase, sources, merge>>,
           Owning(file', Heads, leaf', chain', hand', pairs, reading, todo, promoted, freed, lost \cup dropped)
    PROVE  Kept
<1>1. UNCHANGED <<upper, lower, lost, phase, pairs, reading, todo, promoted, freed, refreed, dropped, pending>>
  BY DEF segments, sources, merge
<1>2. Heads' = Heads BY <1>1, SameHeads
<1>3. Holding' BY <1>1, <1>2 DEF Holding
<1> QED BY <1>1, <1>3, UpperStays DEF OInv, Kept

\* The list that a level makes of an item it takes has their pages, and the new ones.
LEMMA GrownFacts ==
    ASSUME NEW f, NEW d \in Nat \ {0}, NEW s, NEW c, Fitting(f, d, s, c), Distinct(1, s), Single(1, c),
           Refs(1, c) \cap PagesOf(1, s) = {}, NEW t, t = WithItem(f, s, c)
    PROVE  Grown(f, s, c, t)
<1> DEFINE a == Append(s, c)
<1>1. /\ FileOk(f) /\ LevelOk(f, d, s) /\ ItemOk(f, d, c) /\ c.location # "owned"
      /\ \A i \in DOMAIN s : Before(f, s[i], c)
      /\ Len(s) < 2 \/ ParentSize(s) + ParentNeed(c) <= ParentRoom
  BY DEF Fitting
<1>2. s \in Seq(ItemRec) /\ c \in ItemRec BY <1>1 DEF LevelOk, ItemsOk, ItemOk
<1>3. a = Append(s, c) OBVIOUS
<1> HIDE DEF a
<1>4. PagesOf(1, a) = PagesOf(1, s) \cup Refs(1, c) /\ Distinct(1, a) BY <1>2, <1>3, PagesAppended
<1>5. LevelOk(t.file, d, t.items) BY <1>1, Joined
<1>6. Swollen(f, d, a, t) BY <1>1, <1>3, <1>4, JoinPages
<1>7. /\ Added(t.file, f) /\ Distinct(1, t.items)
      /\ PagesOf(1, t.items) = PagesOf(1, a) \cup (DOMAIN t.file \ DOMAIN f)
  BY <1>6 DEF Swollen
<1> QED BY <1>4, <1>5, <1>7 DEF Grown, Added, LevelOk, ItemsOk

\* So the pages go from the hand to the level.
LEMMA LevelOwns ==
    ASSUME NEW f, NEW hs, NEW lf, NEW ch, NEW hd, NEW ps, NEW rd, NEW td, NEW pr, NEW fr, NEW lo,
           Owning(f, hs, lf, ch, hd, ps, rd, td, pr, fr, lo), ch \in Seq(Seq(ItemRec)),
           NEW d \in Nat \ {0}, d \in DOMAIN ch, NEW c, hd = <<c>>, NEW s, s = ch[d],
           Fitting(f, d, s, c), NEW t, t = WithItem(f, s, c), NEW items, items = t.items,
           NEW cc, cc = ChainWith(ch, d, items)
    PROVE  Owning(t.file, hs, lf, cc, <<>>, ps, rd, td, pr, fr, lo) /\ Extends(t.file, f)
<1>1. PagesOf(1, hd) = Refs(1, c) /\ Single(1, c) /\ Distinct(1, s) BY FewPages DEF Owning
<1>2. Refs(1, c) \cap PagesOf(1, s) = {}
  <2>1. LevelPages(ch, d) \cap PagesOf(1, hd) = {} BY ListsApart
  <2> QED BY <1>1, <2>1 DEF LevelPages
<1>3. Grown(f, s, c, t) BY <1>1, <1>2, GrownFacts
<1> DEFINE g == t.file
<1>4. g = t.file OBVIOUS
<1> HIDE DEF g
<1>5. /\ items \in Seq(ItemRec) /\ Extends(g, f) /\ (\A n \in DOMAIN g \ DOMAIN f : ~IsNode(g, n))
      /\ Distinct(1, items) /\ PagesOf(1, items) = PagesOf(1, s) \cup Refs(1, c) \cup (DOMAIN g \ DOMAIN f)
  BY <1>3, <1>4 DEF Grown
<1>6. /\ cc[d] = items /\ DOMAIN ch \subseteq DOMAIN cc
      /\ \A e \in DOMAIN ch : e # d => cc[e] = ch[e]
      /\ \A e \in DOMAIN cc \ DOMAIN ch : cc[e] = <<>>
  BY <1>5, ChainWithFacts
<1>7. PagesOf(1, cc[d]) = PagesOf(1, ch[d]) \cup PagesOf(1, hd) \cup (DOMAIN g \ DOMAIN f) /\ Distinct(1, cc[d])
  BY <1>1, <1>5, <1>6
<1>8. Owning(g, hs, lf, cc, <<>>, ps, rd, td, pr, fr, lo)
  <2>1. LevelGrows(ch, cc, d, hd, f, g) BY <1>5, <1>6, <1>7 DEF LevelGrows
  <2> QED BY <2>1, HandToLevel
<1> QED BY <1>4, <1>5, <1>8

\* The owners when a level takes what is in hand, in whatever step.
LEMMA JoinOwns ==
    ASSUME SInv, OInv, hand # <<>>, Join, UNCHANGED <<segments, phase, sources, leaf, merge>>
    PROVE  Kept
<1>1. FileOk(file) /\ LevelsOk(file, leaf, chain) BY DEF SInv, WritingOk, WriterOk
<1>2. PICK c : hand = <<c>> /\ HandOk(file, leaf, chain, c, level) BY DEF SInv, WritingOk, WriterOk
<1> DEFINE s == chain[level]
           t == WithItem(file, s, c)
           items == t.items
           cc == ChainWith(chain, level, items)
           lo == lost \cup dropped
<1>3. /\ Len(s) < 2 \/ ParentSize(s) + ParentNeed(c) <= ParentRoom
      /\ file' = t.file /\ chain' = cc /\ hand' = <<>>
  BY <1>2 DEF Join, WithItem, ChainWith, IsLast
<1>4. level \in DOMAIN chain /\ LevelOk(file, level, s) /\ ItemOk(file, level, c) /\ c.location # "owned"
      /\ (\A i \in DOMAIN s : Before(file, s[i], c)) /\ level \in Nat \ {0} /\ chain \in Seq(Seq(ItemRec))
  <2>1. level \in DOMAIN chain /\ ItemOk(file, level, c) /\ c.location # "owned" BY <1>2 DEF HandOk
  <2>2. level >= level /\ level \in Nat \ {0} /\ chain \in Seq(Seq(ItemRec))
    BY <1>1, <2>1 DEF LevelsOk
  <2> QED BY <1>1, <1>2, <2>1, <2>2 DEF LevelsOk, HandOk
<1>5. s = chain[level] /\ t = WithItem(file, s, c) /\ items = t.items /\ cc = ChainWith(chain, level, items)
      /\ Fitting(file, level, s, c)
  BY <1>1, <1>3, <1>4 DEF Fitting
<1>6. Owning(file, Heads, leaf, chain, hand, pairs, reading, todo, promoted, freed, lo)
  BY DEF OInv, Holding
<1> HIDE DEF s, t, items, cc, lo
<1>7. Owning(t.file, Heads, leaf, cc, <<>>, pairs, reading, todo, promoted, freed, lo) /\ Extends(t.file, file)
  BY <1>2, <1>4, <1>5, <1>6, LevelOwns
<1> QED BY <1>3, <1>7, WriterKept DEF lo

\* A level d is written; hd takes its place.
LEMMA ParentOwns ==
    ASSUME NEW f, FileOk(f), NEW hs, NEW lf, NEW ch, NEW hd, NEW ps, NEW rd, NEW td, NEW pr, NEW fr, NEW lo,
           Owning(f, hs, lf, ch, hd, ps, rd, td, pr, fr, lo), pr \subseteq DOMAIN f, ch \in Seq(Seq(ItemRec)),
           hd \in Seq(ItemRec), NEW d \in DOMAIN ch, NEW node, node = [depth |-> d, items |-> ch[d]],
           NEW cc, cc = [ch EXCEPT ![d] = hd], NEW c, c = ItemForParent(NextPage(f), node)
    PROVE  Owning(WritePage(f, node), hs, lf, cc, <<c>>, ps, rd, td, pr, fr, lo) /\ Extends(WritePage(f, node), f)
<1> DEFINE g == WritePage(f, node)
           s == ch[d]
<1>1. Forest(f) BY DEF FileOk
<1>2. c.page = NextPage(f) /\ c.location # "owned" /\ NextPage(f) # NoPage
  BY <1>1, NextPageFacts DEF ItemForParent
<1>3. Refs(1, c) = {NextPage(f)} /\ Single(1, c) BY <1>2, TellRefs
<1>4. DOMAIN cc = DOMAIN ch /\ cc[d] = hd /\ \A e \in DOMAIN ch : e # d => cc[e] = ch[e]
  BY LevelChanged
<1>5. s \in Seq(ItemRec) /\ s = ch[d] /\ g = WritePage(f, node) OBVIOUS
<1>6. node = [depth |-> d, items |-> s] OBVIOUS
<1> HIDE DEF g, s
<1>7. Owning(g, hs, lf, cc, <<c>>, ps, rd, td, pr, fr, lo)
  BY <1>1, <1>3, <1>4, <1>5, <1>6, ParentToNode
<1>8. Extends(g, f) BY <1>1, <1>5, WritePageFacts
<1> QED BY <1>7, <1>8 DEF g

\* The owners when a level is written as a page.
LEMMA WriteParentOwns ==
    ASSUME SInv, OInv, NEW d \in DOMAIN chain, WriteParent(d), UNCHANGED <<segments, phase, sources, leaf, merge>>
    PROVE  Kept
<1> DEFINE node == [depth |-> d, items |-> chain[d]]
           c == ItemForParent(NextPage(file), node)
           cc == [chain EXCEPT ![d] = hand]
           lo == lost \cup dropped
<1>1. file' = WritePage(file, node) /\ chain' = cc /\ hand' = <<c>> BY DEF WriteParent
<1>2. FileOk(file) /\ WriterOk(file, leaf, chain, hand, level) /\ promoted \subseteq DOMAIN file
  BY DEF SInv, WritingOk, FileOk, CleanOk, IsLeaf
<1>3. chain \in Seq(Seq(ItemRec)) /\ hand \in Seq(ItemRec)
  <2>1. hand = <<>> \/ \E b : hand = <<b>> /\ b \in ItemRec BY <1>2 DEF WriterOk, HandOk, ItemOk
  <2>2. <<>> \in Seq(ItemRec) OBVIOUS
  <2>3. hand \in Seq(ItemRec) BY <2>1, <2>2, OneInSeq
  <2> QED BY <1>2, <2>3 DEF WriterOk, LevelsOk
<1>4. Owning(file, Heads, leaf, chain, hand, pairs, reading, todo, promoted, freed, lo)
  BY DEF OInv, Holding
<1>5. node = [depth |-> d, items |-> chain[d]] /\ c = ItemForParent(NextPage(file), node) /\ cc = [chain EXCEPT ![d] = hand]
  OBVIOUS
<1> HIDE DEF node, c, cc, lo
<1>6. /\ Owning(WritePage(file, node), Heads, leaf, cc, <<c>>, pairs, reading, todo, promoted, freed, lo)
      /\ Extends(WritePage(file, node), file)
  BY <1>2, <1>3, <1>4, <1>5, ParentOwns
<1> QED BY <1>1, <1>6, WriterKept DEF lo

\* add_child.
LEMMA AddChildOwns ==
    ASSUME SInv, OInv, AddChild
    PROVE  Kept
<1>1. hand # <<>> /\ UNCHANGED <<segments, phase, sources, leaf, merge>> BY DEF AddChild
<1>2. CASE Join BY <1>1, <1>2, JoinOwns
<1>3. CASE WriteParent(level)
  <2>1. level \in DOMAIN chain BY <1>1 DEF SInv, WritingOk, WriterOk, HandOk
  <2> QED BY <1>1, <1>3, <2>1, WriteParentOwns
<1> QED BY <1>2, <1>3 DEF AddChild

\* A page of the chain is flushed.
LEMMA FlushPageOwns ==
    ASSUME SInv, OInv, FlushPage
    PROVE  Kept
<1> DEFINE d == Lowest(chain)
<1>1. ~AllEmpty(chain) /\ WriteParent(d) /\ UNCHANGED <<segments, phase, sources, leaf, merge>>
  BY DEF FlushPage
<1>2. d \in DOMAIN chain BY <1>1, LowestFacts DEF SInv, WritingOk, WriterOk, LevelsOk
<1> HIDE DEF d
<1> QED BY <1>1, <1>2, WriteParentOwns

\* A leaf is written with the pairs s, and the next one begins with others.
LEMMA LeafOwns ==
    ASSUME NEW f, FileOk(f), NEW hs, NEW lf, NEW ch, NEW hd, NEW ps, NEW rd, NEW td, NEW pr, NEW fr, NEW lo,
           Owning(f, hs, lf, ch, hd, ps, rd, td, pr, fr, lo), hd = <<>>, pr \subseteq DOMAIN f, NEW s \in Seq(PairRec), NEW next,
           PagesOf(0, lf) = PagesOf(0, s) \cup PagesOf(0, next), PagesOf(0, s) \cap PagesOf(0, next) = {},
           Distinct(0, s), Distinct(0, next), NEW node, node = [depth |-> 0, items |-> s],
           NEW c, c = LeafForParent(NextPage(f), node)
    PROVE  /\ Owning(WritePage(f, node), hs, next, ch, <<c>>, ps, rd, td, pr, fr, lo)
           /\ Extends(WritePage(f, node), f)
<1>1. Forest(f) BY DEF FileOk
<1>2. c.page = NextPage(f) /\ c.location # "owned" /\ NextPage(f) # NoPage
  BY <1>1, NextPageFacts DEF LeafForParent
<1>3. Refs(1, c) = {NextPage(f)} /\ Single(1, c) BY <1>2, TellRefs
<1>4. Owning(WritePage(f, node), hs, next, ch, <<c>>, ps, rd, td, pr, fr, lo)
  BY <1>1, <1>3, LeafToNode
<1> QED BY <1>1, <1>4, WritePageFacts

\* The leaf is flushed.
LEMMA FlushLeafOwns ==
    ASSUME SInv, OInv, FlushLeaf
    PROVE  Kept
<1> DEFINE node == [depth |-> 0, items |-> leaf]
           c == LeafForParent(NextPage(file), node)
           lo == lost \cup dropped
<1>1. /\ hand = <<>> /\ file' = WritePage(file, node) /\ leaf' = <<>> /\ hand' = <<c>>
      /\ UNCHANGED <<segments, phase, sources, chain, merge>>
  BY DEF FlushLeaf, MustWrite, WriteLeaf
<1>2. FileOk(file) /\ leaf \in Seq(PairRec) /\ promoted \subseteq DOMAIN file
  BY DEF SInv, WritingOk, WriterOk, LeafOk, PairsOk, CleanOk, IsLeaf
<1>3. Owning(file, Heads, leaf, chain, hand, pairs, reading, todo, promoted, freed, lo)
  BY DEF OInv, Holding
<1>4. Distinct(0, leaf) /\ Distinct(0, <<>>) /\ PagesOf(0, <<>>) = {} BY <1>3, FewPages DEF Owning
<1>5. node = [depth |-> 0, items |-> leaf] /\ c = LeafForParent(NextPage(file), node)
      /\ PagesOf(0, leaf) = PagesOf(0, leaf) \cup PagesOf(0, <<>>) /\ PagesOf(0, leaf) \cap PagesOf(0, <<>>) = {}
  BY <1>4
<1> HIDE DEF node, c, lo
<1>6. /\ Owning(WritePage(file, node), Heads, <<>>, chain, <<c>>, pairs, reading, todo, promoted, freed, lo)
      /\ Extends(WritePage(file, node), file)
  BY <1>1, <1>2, <1>3, <1>4, <1>5, LeafOwns
<1> QED BY <1>1, <1>6, WriterKept DEF lo

-----------------------------------------------------------------------------
(* The owners when pairs are taken.                                        *)

\* A pair goes from the source into the leaf.
LEMMA PutOwns ==
    ASSUME NEW f, FileOk(f), NEW hs, NEW lf, NEW ch, NEW hd, NEW ps, NEW rd, NEW td, NEW pr, NEW fr, NEW lo,
           Owning(f, hs, lf, ch, hd, ps, rd, td, pr, fr, lo), lf \in Seq(PairRec), NEW p \in ps, PairOk(f, p),
           NEW s, s = ToPut(f, p), NEW g, g = s.file, NEW q, q = s.p,
           NEW a, a = Append(lf, q), NEW one, one = <<q>>
    PROVE  /\ FileOk(g) /\ Extends(g, f) /\ Split(a, lf, one)
           /\ Owning(g, hs, a, ch, hd, ps \ {p}, rd, td, pr, fr, lo)
<1>1. Single(0, p) /\ Distinct(0, lf) BY DEF Owning, PairsDistinct
<1>2. /\ FileOk(g) /\ Added(g, f) /\ q \in PairRec /\ Single(0, q)
      /\ Refs(0, q) = Refs(0, p) \cup (DOMAIN g \ DOMAIN f)
  BY <1>1, PutRefs
<1>3. Extends(g, f) /\ \A n \in DOMAIN g \ DOMAIN f : ~IsNode(g, n) BY <1>2 DEF Added
<1>4. Owning(g, hs, Append(lf, q), ch, hd, ps \ {p}, rd, td, pr, fr, lo) BY <1>2, <1>3, PairPut
<1>5. PagesOf(0, lf) \subseteq DOMAIN f /\ PagesOf(0, lf) \cap Refs(0, p) = {} BY ListsApart
<1>6. Distinct(0, <<q>>) /\ PagesOf(0, <<q>>) = Refs(0, q) BY <1>2, FewPages
<1>7. PagesOf(0, Append(lf, q)) = PagesOf(0, lf) \cup Refs(0, q) BY <1>2, PagesAppended
<1> QED BY <1>1, <1>2, <1>3, <1>4, <1>5, <1>6, <1>7 DEF Split

\* It is so too when the leaf is full, and is written first.
LEMMA PutPairOwns ==
    ASSUME FileOk(file), leaf \in Seq(PairRec), hand = <<>>, promoted \subseteq DOMAIN file,
           NEW hs, NEW ps, NEW rd, NEW fr, NEW lo,
           Owning(file, hs, leaf, chain, hand, ps, rd, todo, promoted, fr, lo),
           NEW p \in ps, PairOk(file, p), PutPair(p)
    PROVE  Owning(file', hs, leaf', chain, hand', ps \ {p}, rd, todo, promoted, fr, lo) /\ Extends(file', file)
<1> DEFINE s == ToPut(file, p)
           g == s.file
           q == s.p
           a == Append(leaf, q)
           one == <<q>>
           node == [depth |-> 0, items |-> leaf]
           c == LeafForParent(NextPage(g), node)
           h == WritePage(g, node)
<1>1. \/ file' = g /\ leaf' = a /\ hand' = hand
      \/ file' = h /\ leaf' = one /\ hand' = <<c>>
  BY DEF PutPair, WriteLeaf, ToPut
<1>2. /\ node = [depth |-> 0, items |-> leaf] /\ c = LeafForParent(NextPage(g), node)
      /\ h = WritePage(g, node)
  OBVIOUS
<1>6. s = ToPut(file, p) /\ g = s.file /\ q = s.p /\ a = Append(leaf, q) /\ one = <<q>> OBVIOUS
<1> HIDE DEF s, g, q, node, c, a, one, h
<1>3. /\ FileOk(g) /\ Extends(g, file) /\ Split(a, leaf, one)
      /\ Owning(g, hs, a, chain, hand, ps \ {p}, rd, todo, promoted, fr, lo)
  BY <1>6, PutOwns
<1>4. CASE file' = g /\ leaf' = a /\ hand' = hand BY <1>2, <1>3, <1>4
<1>5. CASE file' = h /\ leaf' = one /\ hand' = <<c>>
  <2>1. promoted \subseteq DOMAIN g BY <1>3 DEF Extends
  <2>2. Owning(WritePage(g, node), hs, one, chain, <<c>>, ps \ {p}, rd, todo, promoted, fr, lo) /\ Extends(WritePage(g, node), g)
    BY <1>2, <1>3, <2>1, LeafOwns DEF Split
  <2> QED BY <1>2, <1>3, <1>5, <2>2 DEF Extends
<1> QED BY <1>1, <1>4, <1>5

\* A pair is put, or dropped.
LEMMA TakePairOwns ==
    ASSUME SInv, pairs # {}, hand = <<>>, TakePair, NEW rd, NEW fr,
           Owning(file, Heads, leaf, chain, hand, pairs, rd, todo, promoted, fr, lost \cup dropped)
    PROVE  /\ Owning(file', Heads, leaf', chain, hand', pairs', rd, todo, promoted, fr, lost \cup dropped')
           /\ Extends(file', file)
<1> DEFINE p == NextPair
           lo == lost \cup dropped
           heads == Heads
<1>1. FileOk(file) /\ leaf \in Seq(PairRec) /\ SourceOk(file, pairs) /\ promoted \subseteq DOMAIN file
  BY DEF SInv, WritingOk, WriterOk, LeafOk, PairsOk, CleanOk, IsLeaf, ReadingOk, SourcesOk
<1>2. p \in pairs /\ PairOk(file, p) BY <1>1, PairsLeft, NextPairFacts
<1>3. /\ pairs' = pairs \ {p}
      /\ \/ PutPair(p) /\ dropped' = dropped
         \/ /\ p.value = Tombstone /\ dropped' = dropped \cup ({p.keyPage} \ {NoPage})
            /\ UNCHANGED <<file, leaf, hand>>
  BY DEF TakePair
<1>4. Owning(file, heads, leaf, chain, hand, pairs, rd, todo, promoted, fr, lo) OBVIOUS
<1> HIDE DEF p, lo, heads
<1>5. CASE PutPair(p) /\ dropped' = dropped
  <2>1. Owning(file', heads, leaf', chain, hand', pairs \ {p}, rd, todo, promoted, fr, lo) /\ Extends(file', file)
    BY <1>1, <1>2, <1>4, <1>5, PutPairOwns
  <2> QED BY <1>3, <1>5, <2>1 DEF lo, heads
<1>6. CASE /\ p.value = Tombstone /\ dropped' = dropped \cup ({p.keyPage} \ {NoPage})
           /\ UNCHANGED <<file, leaf, hand>>
  <2>1. p.valuePage = NoPage BY <1>2, <1>6, PairsAssumption, TreesAssumption DEF PairOk
  <2>2. Refs(0, p) = {p.keyPage} \ {NoPage} /\ \A q \in Refs(0, p) : IsOverflow(file, q)
    BY <1>2, <2>1, RefsFacts DEF PairOk
  <2>3. Owning(file, heads, leaf, chain, hand, pairs \ {p}, rd, todo, promoted, fr, lo \cup Refs(0, p))
    BY <1>2, <1>4, <2>2, PairToLost
  <2>4. lost \cup dropped' = lo \cup Refs(0, p) BY <1>6, <2>2 DEF lo
  <2> QED BY <1>3, <1>6, <2>3, <2>4 DEF heads, Extends
<1> QED BY <1>3, <1>5, <1>6

\* What a step that takes a pair keeps.
LEMMA TakenKept ==
    ASSUME OInv, Extends(file', file), UNCHANGED <<segments, phase, todo, chain, promoted, pending, refreed>>, NEW fr, freed' = fr,
           Owning(file', Heads, leaf', chain, hand', pairs', reading', todo, promoted, fr, lost \cup dropped')
    PROVE  Kept
<1>1. UNCHANGED <<upper, lower, lost, phase, pending>> BY DEF segments
<1>2. Heads' = Heads BY <1>1, SameHeads
<1>3. Holding' BY <1>1, <1>2 DEF Holding
<1> QED BY <1>1, <1>3, UpperStays DEF OInv, Kept

\* The owners when pairs are taken behind the last node, or between nodes.
LEMMA TakeRestOwns ==
    ASSUME SInv, OInv, TakeRest \/ TakeBetween
    PROVE  Kept
<1>1. /\ pairs # {} /\ hand = <<>> /\ TakePair
      /\ UNCHANGED <<segments, phase, reading, todo, chain, promoted, freed, refreed, pending>>
  BY DEF TakeRest, TakeBetween, Merging, Ready
<1>2. Owning(file, Heads, leaf, chain, hand, pairs, reading, todo, promoted, freed, lost \cup dropped)
  BY DEF OInv, Holding
<1>3. /\ Owning(file', Heads, leaf', chain, hand', pairs', reading, todo, promoted, freed, lost \cup dropped')
      /\ Extends(file', file)
  BY <1>1, <1>2, TakePairOwns
<1> QED BY <1>1, <1>3, TakenKept

\* The owners when a pair takes the place of another, or drops it.
LEMMA ReplaceOwns ==
    ASSUME SInv, OInv, Replace
    PROVE  Kept
<1> DEFINE x == Refs(0, Head(reading))
           t == Tail(reading)
           ff == freed \cup x
           lo == lost \cup dropped
<1>1. /\ pairs # {} /\ hand = <<>> /\ TakePair /\ reading # <<>> /\ reading' = t
      /\ freed' = freed \cup Overflows(0, Head(reading)) /\ refreed' = refreed \cup (freed \cap Overflows(0, Head(reading)))
      /\ UNCHANGED <<segments, phase, todo, chain, promoted, pending>>
  BY DEF Replace, Merging, Ready, Shadow, Free
<1>2. FileOk(file) /\ SourcesOk(file, pairs, reading, todo) /\ reading \in Seq(PairRec)
  BY DEF SInv, ReadingOk, SourcesOk, PairsOk
<1>3. PairOk(file, Head(reading)) BY <1>1, <1>2, ReadingLeft
<1>4. x = Overflows(0, Head(reading)) /\ \A q \in x : IsOverflow(file, q)
  BY <1>3, RefsFacts DEF PairOk
<1>5. promoted \cap x = {} BY <1>4 DEF SInv, CleanOk, IsLeaf, LeafNode, IsOverflow, Overflow
<1>6. Owning(file, Heads, leaf, chain, hand, pairs, reading, todo, promoted, freed, lo)
  BY DEF OInv, Holding
<1>7. x = Refs(0, Head(reading)) /\ freed' = ff /\ refreed' = refreed \cup (freed \cap x)
  BY <1>1, <1>4
<1> HIDE DEF x, lo
<1>8. x \cap freed = {} /\ Owning(file, Heads, leaf, chain, hand, pairs, t, todo, promoted, ff, lo)
  BY <1>1, <1>2, <1>4, <1>5, <1>6, <1>7, ReadingToFreed
<1> HIDE DEF t, ff
<1>9. /\ Owning(file', Heads, leaf', chain, hand', pairs', t, todo, promoted, ff, lost \cup dropped')
      /\ Extends(file', file)
  <2>1. Owning(file, Heads, leaf, chain, hand, pairs, t, todo, promoted, ff, lost \cup dropped)
    BY <1>8 DEF lo
  <2> QED BY <1>1, <2>1, TakePairOwns
<1>10. refreed' = refreed BY <1>7, <1>8
<1> QED BY <1>1, <1>7, <1>9, <1>10, TakenKept

\* The owners when a pair of a leaf is written again.
LEMMA KeepPairOwns ==
    ASSUME SInv, OInv, KeepPair
    PROVE  Kept
<1> DEFINE p == Head(reading)
           t == Tail(reading)
           more == pairs \cup {p}
           lo == lost \cup dropped
<1>1. /\ hand = <<>> /\ reading # <<>> /\ (pairs # {} => p.key < NextPair.key) /\ PutPair(p) /\ reading' = t
      /\ UNCHANGED <<segments, phase, pairs, todo, chain, merge>>
  BY DEF KeepPair, Merging, Ready
<1>2. /\ FileOk(file) /\ leaf \in Seq(PairRec) /\ SourcesOk(file, pairs, reading, todo)
      /\ SourceOk(file, pairs) /\ reading \in Seq(PairRec) /\ promoted \subseteq DOMAIN file
  BY DEF SInv, WritingOk, WriterOk, LeafOk, PairsOk, CleanOk, IsLeaf, ReadingOk, SourcesOk
<1>3. PairOk(file, p) /\ p.key \in Int BY <1>1, <1>2, ReadingLeft
<1>4. p \notin pairs
  <2> SUFFICES ASSUME p \in pairs
               PROVE  FALSE
    OBVIOUS
  <2>1. NextPair.key <= p.key /\ NextPair.key \in Int BY <1>2, NextPairFacts
  <2> QED BY <1>1, <1>3, <2>1
<1>5. Owning(file, Heads, leaf, chain, hand, pairs, reading, todo, promoted, freed, lo)
  BY DEF OInv, Holding
<1>6. p = Head(reading) /\ t = Tail(reading) OBVIOUS
<1> HIDE DEF lo, t, p
<1>7. Owning(file, Heads, leaf, chain, hand, more, t, todo, promoted, freed, lo)
  BY <1>1, <1>2, <1>4, <1>5, <1>6, ReadingToPairs
<1>8. p \in more /\ more \ {p} = pairs BY <1>4
<1> HIDE DEF more
<1>9. Owning(file', Heads, leaf', chain, hand', more \ {p}, t, todo, promoted, freed, lo) /\ Extends(file', file)
  BY <1>1, <1>2, <1>3, <1>7, <1>8, PutPairOwns
<1>10. UNCHANGED <<pairs, freed, refreed, promoted, pending, dropped>> BY <1>1 DEF merge
<1>11. Owning(file', Heads, leaf', chain, hand', pairs', reading', todo, promoted, freed, lost \cup dropped')
  BY <1>1, <1>8, <1>9, <1>10 DEF lo
<1> QED BY <1>1, <1>9, <1>10, <1>11, TakenKept

-----------------------------------------------------------------------------
(* The owners when nodes are kept or rewritten.                            *)

\* What a step that writes nothing keeps.
LEMMA WalkKept ==
    ASSUME OInv, UNCHANGED <<file, segments, phase, pairs, promoted, dropped, pending>>, refreed' = {},
           Owning(file, Heads, leaf', chain', hand', pairs, reading', todo', promoted, freed', lost \cup dropped)
    PROVE  Kept
<1>1. UNCHANGED <<file, upper, lower, lost, phase, pairs, promoted, dropped, pending>>
  BY DEF segments
<1>2. Heads' = Heads BY <1>1, SameHeads
<1>3. Holding' BY <1>1, <1>2 DEF Holding
<1>4. Extends(file', file) BY <1>1 DEF Extends
<1> QED BY <1>1, <1>3, <1>4, UpperStays DEF OInv, Kept

\* One of the trees is being taken apart.
LEMMA FreeSlot ==
    ASSUME SInv, phase \in {"merge", "survivors"}
    PROVE  DOMAIN Heads = {1, 2} /\ \E i \in {1, 2} : Heads[i] = NoPage
<1>1. CASE phase = "merge"
  <2>1. Heads = <<upper, NoPage>> BY <1>1 DEF Heads
  <2> QED BY <2>1
<1>2. CASE phase = "survivors"
  <2>1. Heads = <<pending.upper, pending.lower>> /\ pending.upper = NoPage
    BY <1>2 DEF Heads, SInv, PhaseOk
  <2> QED BY <2>1
<1> QED BY <1>1, <1>2

\* The next item is passed.
LEMMA ItemPassed ==
    ASSUME SInv, ~AllEmpty(todo), NEW td, td = Past
    PROVE  /\ Passed(todo, Depth, todo[Depth], td) /\ Depth \in Nat \ {0} /\ ItemOk(file, Depth, Item)
           /\ \A e \in DOMAIN todo : e < Depth => todo[e] = <<>>
  BY WalkFacts, PastFacts DEF Passed

\* The item that is passed is that of a parent, whose items are next.
LEMMA ParentTaken ==
    ASSUME NEW f, FileOk(f), NEW hs, NEW lf, NEW ch, NEW hd, NEW ps, NEW rd, NEW td, NEW pr, NEW fr, NEW lo,
           Owning(f, hs, lf, ch, hd, ps, rd, td, pr, fr, lo), \A p \in pr : IsLeaf(f, p),
           NEW i \in {1, 2}, NEW kk, NEW n, Between(hs, kk, i, n), NEW d, NEW s, NEW tt, Passed(td, d, s, tt), n = Head(s).page,
           n \notin pr \cap fr, IsInner(f, n), NEW e \in Nat, NEW u, u = f[n].items, NEW uu, TodoGrows(tt, uu, e, u),
           NEW x, x = WithOverflows(f, n)
    PROVE  Disjoint(x, fr) /\ Owning(f, hs, lf, ch, hd, ps, rd, uu, pr, fr \cup x, lo)
<1>1. n \in Nat /\ n # NoPage BY DEF FileOk, Forest, IsInner
<1>2. Owning(f, kk, lf, ch, hd, ps, rd, tt, pr, fr, lo)
  <2>1. Between(hs, kk, i, Head(s).page) /\ Head(s).page \notin pr \cap fr /\ Head(s).page # NoPage
    BY <1>1
  <2> QED BY <2>1, TodoToRoot
<1> QED BY <1>1, <1>2, RootToTodo

\* It is that of a leaf, whose pairs are next.
LEMMA LeafTaken ==
    ASSUME NEW f, FileOk(f), NEW hs, NEW lf, NEW ch, NEW hd, NEW ps, NEW rd, NEW td, NEW pr, NEW fr, NEW lo,
           Owning(f, hs, lf, ch, hd, ps, rd, td, pr, fr, lo), \A p \in pr : IsLeaf(f, p), Disjoint(pr, fr), rd = <<>>,
           NEW i \in {1, 2}, NEW kk, NEW n, Between(hs, kk, i, n), NEW d, NEW s, NEW tt, Passed(td, d, s, tt), n = Head(s).page,
           n \notin pr, IsLeaf(f, n), NEW u, u = f[n].items
    PROVE  Disjoint(Alone(n), fr) /\ Owning(f, hs, lf, ch, hd, ps, u, tt, pr, fr \cup Alone(n), lo)
<1>1. n \in Nat /\ n # NoPage /\ n \notin pr \cap fr BY DEF FileOk, Forest, IsLeaf, Disjoint
<1>2. Owning(f, kk, lf, ch, hd, ps, rd, tt, pr, fr, lo)
  <2>1. Between(hs, kk, i, Head(s).page) /\ Head(s).page \notin pr \cap fr /\ Head(s).page # NoPage
    BY <1>1
  <2> QED BY <2>1, TodoToRoot
<1> QED BY <1>1, <1>2, RootToReading, ZenonT(60)

\* The owners when a child is taken apart: it is freed, or it was promoted.
LEMMA RewriteChildOwns ==
    ASSUME SInv, OInv, RewriteChild
    PROVE  Kept
<1> DEFINE D == Depth
           n == Item.page
           td == Past
           u == file[n].items
           x == IF D > 1 THEN WithOverflows(file, n) ELSE Alone(n)
           s == todo[D]
           lo == lost \cup dropped
           hs == Heads
<1>1. /\ ~AllEmpty(todo) /\ reading = <<>>
      /\ UNCHANGED <<file, segments, phase, pairs, keep, writer, promoted, before, dropped, pending>>
  BY DEF RewriteChild, Walking
<1>2. /\ freed' = freed \cup x /\ refreed' = refreed \cup (freed \cap x)
      /\ D > 1 => todo' = [td EXCEPT ![D - 1] = u] /\ reading' = reading
      /\ ~(D > 1) => phase = "merge" /\ todo' = td /\ reading' = u
  BY DEF RewriteChild, Free, WithOverflows, Alone
<1>3. /\ Passed(todo, D, s, td) /\ D \in Nat \ {0} /\ ItemOk(file, D, Item)
      /\ \A e \in DOMAIN todo : e < D => todo[e] = <<>>
  BY <1>1, ItemPassed
<1>4. FileOk(file) /\ (\A p \in promoted : IsLeaf(file, p)) /\ (phase = "merge" => Disjoint(promoted, freed))
  BY DEF SInv, CleanOk, Disjoint
<1>5. Owning(file, hs, leaf, chain, hand, pairs, reading, todo, promoted, freed, lo)
  BY DEF OInv, Holding
<1>6. phase \in {"merge", "survivors"} BY <1>1, WalkFacts
<1>7. DOMAIN hs = {1, 2} /\ \E i \in {1, 2} : hs[i] = NoPage BY <1>6, FreeSlot
<1>8. n = Head(s).page /\ u = file[n].items BY DEF Item
<1>9. PICK i \in {1, 2} : hs[i] = NoPage BY <1>7
<1> DEFINE kk == [j \in {1, 2} |-> IF j = i THEN n ELSE hs[j]]
<1>10. Between(hs, kk, i, n) BY <1>9 DEF Between
<1>11. td \in Seq(Seq(ItemRec)) /\ \A e \in DOMAIN td : Once(td[e]) \/ e = D
  <2>1. td \in Seq(Seq(ItemRec)) /\ \A e \in DOMAIN todo : e # D => td[e] = todo[e]
    BY <1>1, PastFacts
  <2>2. DOMAIN td = DOMAIN todo BY <1>3 DEF Passed
  <2> QED BY <1>5, <2>1, <2>2 DEF Owning
<1>12. Once(td[D])
  <2>1. Once(s) /\ s \in Seq(ItemRec) /\ s # <<>> /\ td[D] = Tail(s)
    BY <1>3, <1>5 DEF Passed, Owning
  <2> HIDE DEF s, td, D
  <2> QED BY <2>1, PagesTail
<1>13. UNCHANGED <<leaf, chain, hand>> BY <1>1 DEF writer
<1>14. ASSUME D > 1
       PROVE  Owning(file, hs, leaf, chain, hand, pairs, reading', todo', promoted, freed \cup x, lo) /\ Disjoint(x, freed)
  <2>1. IsInner(file, n) /\ ItemsOk(file, D - 1, u) BY <1>3, <1>4, <1>14, ItemPage
  <2>2. n \notin promoted \cap freed BY <1>4, <2>1 DEF IsLeaf, IsInner, LeafNode, ParentNode
  <2>3. x = WithOverflows(file, n) /\ todo' = [td EXCEPT ![D - 1] = u] /\ reading' = reading
    BY <1>2, <1>14
  <2>4. D - 1 \in DOMAIN td /\ D - 1 \in Nat \ {0} /\ u \in Seq(ItemRec) /\ td[D - 1] = <<>>
    <3>1. D \in DOMAIN todo /\ DOMAIN td = DOMAIN todo /\ todo \in Seq(Seq(ItemRec)) /\ \A e \in DOMAIN todo : e # D => td[e] = todo[e]
      BY <1>3 DEF Passed
    <3>2. D - 1 \in DOMAIN todo BY <1>3, <1>14, <3>1
    <3> QED BY <1>3, <1>14, <2>1, <3>1, <3>2 DEF ItemsOk
  <2> HIDE DEF D, n, td, u, x, s, lo, hs, kk
  <2>5. DOMAIN todo' = DOMAIN td /\ todo'[D - 1] = u /\ \A e \in DOMAIN td : e # D - 1 => todo'[e] = td[e]
    BY <1>11, <2>3, <2>4, LevelChanged
  <2>6. TodoGrows(td, todo', D - 1, u)
    <3>1. ItemPages(<<>>) = {} BY FewPages
    <3>2. \A e \in DOMAIN td : Once(td[e]) BY <1>11, <1>12
    <3> QED BY <2>4, <2>5, <3>1, <3>2 DEF TodoGrows, TodoPages
  <2> QED BY <1>3, <1>4, <1>5, <1>8, <1>10, <2>1, <2>2, <2>3, <2>4, <2>6, ParentTaken, ZenonT(60)
<1>15. ASSUME ~(D > 1)
       PROVE  Owning(file, hs, leaf, chain, hand, pairs, reading', todo', promoted, freed \cup x, lo) /\ Disjoint(x, freed)
  <2>1. D = 1 /\ phase = "merge" /\ todo' = td /\ reading' = u /\ x = Alone(n) BY <1>2, <1>3, <1>15
  <2>2. IsLeaf(file, n) BY <1>3, <1>4, <2>1, ItemPage
  <2>3. n \notin promoted
    <3>1. Clean(file, promoted, n)
      <4>1. 1 \in DOMAIN todo[Depth] /\ Item = todo[Depth][1] /\ Depth \in DOMAIN todo
        BY <1>1, WalkFacts
      <4> QED BY <2>1, <4>1 DEF SInv, CleanOk, LevelsClean, AllClean
    <3>2. n \in Below(file, n) BY <1>4, <2>2, BelowNodes DEF FileOk, IsLeaf
    <3> QED BY <3>1, <3>2 DEF Clean
  <2> HIDE DEF D, n, td, u, x, s, lo, hs, kk
  <2>4. Disjoint(Alone(n), freed) /\ Owning(file, hs, leaf, chain, hand, pairs, u, td, promoted, freed \cup Alone(n), lo)
    BY <1>1, <1>3, <1>4, <1>5, <1>8, <1>10, <2>1, <2>2, <2>3, LeafTaken, ZenonT(60)
  <2> QED BY <2>1, <2>4
<1>16. Owning(file, hs, leaf, chain, hand, pairs, reading', todo', promoted, freed \cup x, lo) /\ Disjoint(x, freed)
  BY <1>14, <1>15
<1>17. refreed' = {} BY <1>2, <1>16 DEF OInv, Disjoint
<1>18. Owning(file, Heads, leaf', chain', hand', pairs, reading', todo', promoted, freed', lost \cup dropped)
  BY <1>2, <1>13, <1>16 DEF lo, hs
<1> QED BY <1>1, <1>17, <1>18, WalkKept

\* The owners when a child becomes part of the new tree.
LEMMA KeepChildOwns ==
    ASSUME SInv, OInv, KeepChild
    PROVE  Kept
<1> DEFINE D == Depth
           b == AsItem(Item)
           s == todo[D]
           td == Past
           lo == lost \cup dropped
<1>1. /\ keep > 0 /\ hand = <<>> /\ hand' = <<b>> /\ todo' = td
      /\ UNCHANGED <<file, segments, phase, pairs, reading, leaf, chain, merge>>
  BY DEF KeepChild
<1>2. ~AllEmpty(todo) /\ (phase = "survivors" => ~OnLineage(Item)) /\ phase \in {"merge", "survivors"}
  BY <1>1 DEF SInv, KeepOk
<1>3. Passed(todo, D, s, td) /\ D \in Nat \ {0} /\ ItemOk(file, D, Item) BY <1>2, ItemPassed
<1>4. ItemOk(file, D, b) /\ b.location # "owned" /\ b.page = Item.page BY <1>3, AsItemFacts
<1>5. FileOk(file) /\ Item.page \in DOMAIN file /\ Item.page # NoPage
  BY <1>3 DEF SInv, ItemOk, IsNode, IsLeaf, IsInner, FileOk, Forest
<1>6. Item.page \notin promoted \cap freed
  <2>1. Clean(file, promoted, Item.page)
    <3>1. CASE phase = "merge"
      <4>1. 1 \in DOMAIN todo[Depth] /\ Item = todo[Depth][1] /\ Depth \in DOMAIN todo
        BY <1>2, WalkFacts
      <4> QED BY <3>1, <4>1 DEF SInv, CleanOk, LevelsClean, AllClean
    <3>2. CASE phase = "survivors" BY <1>2, <3>2 DEF OnLineage, Clean
    <3> QED BY <1>2, <3>1, <3>2
  <2>2. Item.page \in Below(file, Item.page) BY <1>5, BelowNodes DEF FileOk
  <2> QED BY <2>1, <2>2 DEF Clean
<1>7. Refs(1, b) = {Item.page} /\ Single(1, b)
  <2> HIDE DEF b
  <2> QED BY <1>4, <1>5, TellRefs
<1>8. Owning(file, Heads, leaf, chain, hand, pairs, reading, todo, promoted, freed, lo)
  BY DEF OInv, Holding
<1>9. Item = Head(s) BY DEF Item
<1> HIDE DEF D, b, s, td, lo
<1>11. Owning(file, Heads, leaf, chain, <<b>>, pairs, reading, td, promoted, freed, lo)
  BY <1>1, <1>3, <1>6, <1>7, <1>8, <1>9, TodoToHand
<1>12. UNCHANGED <<promoted, freed, refreed, dropped, pending>> BY <1>1 DEF merge
<1>13. Owning(file, Heads, leaf', chain', hand', pairs, reading', todo', promoted, freed', lost \cup dropped)
  BY <1>1, <1>11, <1>12 DEF lo
<1> QED BY <1>1, <1>12, <1>13, WalkKept DEF OInv

\* The owners when it turns out how many children can be kept.
LEMMA RecycleChildrenOwns ==
    ASSUME SInv, OInv, RecycleChildren
    PROVE  Kept
<1> DEFINE cc == Lengthened(Depth)
           lo == lost \cup dropped
<1>1. /\ ~AllEmpty(todo) /\ chain' = cc
      /\ UNCHANGED <<file, segments, phase, pairs, reading, todo, leaf, hand, level, merge>>
  BY DEF RecycleChildren, Walking
<1>2. Owning(file, Heads, leaf, chain, hand, pairs, reading, todo, promoted, freed, lo)
  BY DEF OInv, Holding
<1>3. chain \in Seq(Seq(ItemRec)) /\ Depth \in Nat /\ Len(chain) \in Nat
  BY <1>1, WalkFacts DEF SInv, WritingOk, WriterOk, LevelsOk
<1>4. /\ DOMAIN chain \subseteq DOMAIN cc /\ \A d \in DOMAIN chain : cc[d] = chain[d]
      /\ \A d \in DOMAIN cc \ DOMAIN chain : cc[d] = <<>>
  BY <1>3 DEF Lengthened
<1> HIDE DEF cc, lo
<1>5. (\A n \in Nat : LevelPages(cc, n) = LevelPages(chain, n)) /\ \A d \in DOMAIN cc : Distinct(1, cc[d])
  BY <1>2, <1>4, FewPages DEF LevelPages, Owning
<1>6. PairsDistinct(pairs) /\ \A d \in DOMAIN todo : Once(todo[d]) BY <1>2 DEF Owning
<1>7. Owning(file, Heads, leaf, cc, hand, pairs, reading, todo, promoted, freed, lo)
  BY <1>2, <1>5, <1>6, NothingMoves
<1>8. UNCHANGED <<promoted, freed, refreed, dropped, pending>> BY <1>1 DEF merge
<1>9. Owning(file, Heads, leaf', chain', hand', pairs, reading', todo', promoted, freed', lost \cup dropped)
  BY <1>1, <1>7, <1>8 DEF lo
<1> QED BY <1>1, <1>8, <1>9, WalkKept DEF OInv

\* The owners when the survivors pass a promoted leaf.
LEMMA SkipLeafOwns ==
    ASSUME SInv, OInv, SkipLeaf
    PROVE  Kept
<1> DEFINE td == Past
           s == todo[1]
           lo == lost \cup dropped
<1>1. /\ ~AllEmpty(todo) /\ Keepable(Depth, todo[Depth]) = 0 /\ Depth = 1 /\ phase = "survivors" /\ todo' = td
      /\ UNCHANGED <<file, segments, phase, pairs, reading, keep, writer, merge>>
  BY DEF SkipLeaf, Walking
<1>2. Passed(todo, 1, s, td) /\ ItemOk(file, 1, Item) BY <1>1, ItemPassed
<1>3. Owning(file, Heads, leaf, chain, hand, pairs, reading, todo, promoted, freed, lo)
  BY DEF OInv, Holding
<1>4. Item.page \in promoted \cap freed
  <2>1. OnLineage(Item) BY <1>1 DEF Keepable, Item
  <2>2. IsLeaf(file, Item.page) /\ FileOk(file) BY <1>2, ItemPage DEF SInv
  <2>3. Below(file, Item.page) = {Item.page}
    BY <2>2, BelowFacts DEF FileOk, IsLeaf, IsInner, LeafNode, ParentNode
  <2>4. promoted \subseteq freed BY <1>1 DEF SInv, CleanOk
  <2> QED BY <2>1, <2>3, <2>4 DEF OnLineage
<1>5. Item = Head(s) BY <1>1 DEF Item
<1> HIDE DEF td, s, lo
<1>6. /\ 1 \in DOMAIN todo /\ s \in Seq(ItemRec) /\ s = todo[1] /\ s # <<>>
      /\ DOMAIN td = DOMAIN todo /\ td[1] = Tail(s) /\ \A e \in DOMAIN todo : e # 1 => td[e] = todo[e]
  BY <1>2 DEF Passed
<1>7. \A d \in DOMAIN todo : Once(todo[d]) BY <1>3 DEF Owning
<1>8. ItemPages(s) = {Item.page} \cup ItemPages(Tail(s)) /\ Once(Tail(s))
  BY <1>5, <1>6, <1>7, PagesTail
<1>9. \A n \in Nat : TodoPages(td, promoted \cap freed, n) = TodoPages(todo, promoted \cap freed, n)
  BY <1>4, <1>6, <1>8 DEF TodoPages
<1>10. PairsDistinct(pairs) /\ (\A d \in DOMAIN chain : Distinct(1, chain[d])) /\ \A d \in DOMAIN td : Once(td[d])
  BY <1>3, <1>6, <1>7, <1>8 DEF Owning
<1>11. Owning(file, Heads, leaf, chain, hand, pairs, reading, td, promoted, freed, lo)
  BY <1>3, <1>9, <1>10, NothingMoves
<1>12. UNCHANGED <<leaf, chain, hand, promoted, freed, refreed, dropped, pending>>
  BY <1>1 DEF merge, writer
<1>13. Owning(file, Heads, leaf', chain', hand', pairs, reading', todo', promoted, freed', lost \cup dropped)
  BY <1>1, <1>11, <1>12 DEF lo
<1> QED BY <1>1, <1>12, <1>13, WalkKept DEF OInv

-----------------------------------------------------------------------------
(* The owners when segments begin and end.                                 *)

\* The chain of a new writer has no pages.
LEMMA NewChainPages ==
    (\A n \in Nat : LevelPages(NewChain, n) = {}) /\ \A d \in DOMAIN NewChain : Distinct(1, NewChain[d])
  BY FewPages DEF NewChain, LevelPages

\* What was written has a place among the roots.
LEMMA RootPlaced ==
    ASSUME SInv, HasRoot, NEW hs, NEW pr, NEW fr, NEW lo,
           Owning(file, hs, leaf, chain, hand, pairs, reading, todo, pr, fr, lo),
           NEW i \in {1, 2}, NEW kk, Between(hs, kk, i, Root)
    PROVE  Owning(file, kk, leaf, NewChain, hand, pairs, reading, todo, pr, fr, lo)
<1> DEFINE cc == NewChain
<1>1. (\A n \in Nat : LevelPages(cc, n) = {}) /\ \A d \in DOMAIN cc : Distinct(1, cc[d])
  BY NewChainPages
<1> HIDE DEF cc
<1>2. PairsDistinct(pairs) /\ \A d \in DOMAIN todo : Once(todo[d]) BY DEF Owning
<1>3. CASE AllEmpty(chain)
  <2>1. \A n \in Nat : LevelPages(chain, n) = {} BY <1>3, FewPages DEF AllEmpty, LevelPages
  <2>2. \A j \in {1, 2} : RootPages(kk, pr \cap fr, j) = RootPages(hs, pr \cap fr, j)
    BY <1>3 DEF RootPages, Between, Root
  <2>3. Owning(file, kk, leaf, cc, hand, pairs, reading, todo, pr, fr, lo)
    BY <1>1, <1>2, <2>1, <2>2, NothingMoves
  <2> QED BY <2>3 DEF cc
<1>4. CASE ~AllEmpty(chain)
  <2> DEFINE d == Lowest(chain)
             s == chain[d]
             c == s[1]
             N == Len(chain)
  <2>1. LevelsOk(file, leaf, chain) /\ chain \in Seq(Seq(ItemRec)) /\ Len(chain[N]) <= 1
    BY DEF SInv, WritingOk, WriterOk, LevelsOk, ShortTop
  <2>2. d \in DOMAIN chain /\ d \in Nat \ {0} /\ s # <<>> /\ \A e \in DOMAIN chain : e < d => chain[e] = <<>>
    BY <1>4, <2>1, LowestFacts
  <2>3. LevelOk(file, d, s) /\ s \in Seq(ItemRec) BY <2>1, <2>2 DEF LevelsOk, LevelOk, ItemsOk
  <2>4. d = N \/ (d + 1 = N /\ chain[d + 1] = <<>> /\ Len(s) = 1) BY <1>4 DEF HasRoot, IsLast
  <2>5. Len(s) = 1
    <3>1. Len(s) \in Nat /\ Len(s) # 0 BY <2>2, <2>3
    <3>2. CASE d = N
      <4>1. Len(s) = Len(chain[N]) BY <3>2
      <4>2. Len(s) <= 1 BY <2>1, <4>1
      <4>3. \A n \in Nat : n # 0 /\ n <= 1 => n = 1 OBVIOUS
      <4> QED BY <3>1, <4>2, <4>3, ZenonT(20)
    <3> QED BY <2>4, <3>2
  <2>6. s = <<c>> BY <2>3, <2>5
  <2>7. \A e \in DOMAIN chain : e # d => chain[e] = <<>>
    <3> TAKE e \in DOMAIN chain
    <3> HAVE e # d
    <3>1. e \in Nat /\ e <= N /\ N \in Nat BY <2>1
    <3>2. CASE e < d BY <2>2, <3>2
    <3>3. CASE e > d
      <4>1. d + 1 = N /\ e = d + 1 BY <2>2, <2>4, <3>1, <3>3
      <4> QED BY <2>4, <4>1
    <3> QED BY <2>2, <3>1, <3>2, <3>3
  <2>8. c.location # "owned" /\ ItemOk(file, d, c) BY <2>3, <2>5 DEF LevelOk, ItemsOk
  <2>9. c.page # NoPage /\ Root = c.page
    BY <1>4, <2>8 DEF SInv, FileOk, Forest, ItemOk, IsNode, IsLeaf, IsInner, Root
  <2> HIDE DEF c, s, d, N
  <2>10. Refs(1, c) = {c.page} BY <2>8, <2>9, TellRefs
  <2>11. LevelPages(chain, d) = {Root}
    <3>1. PagesOf(1, s) = Refs(1, c) BY <2>6, FewPages
    <3>2. LevelPages(chain, d) = PagesOf(1, s) BY <2>2 DEF LevelPages, s
    <3> QED BY <2>9, <2>10, <3>1, <3>2
  <2>12. \A n \in Nat : n # d => LevelPages(cc, n) = LevelPages(chain, n)
    BY <1>1, <2>7, FewPages DEF LevelPages
  <2>13. LevelPages(cc, d) = {} /\ d \in Nat /\ Root # NoPage BY <1>1, <2>2, <2>9
  <2>14. Owning(file, kk, leaf, cc, hand, pairs, reading, todo, pr, fr, lo)
    BY <1>1, <2>11, <2>12, <2>13, ChainToRoot
  <2> QED BY <2>14 DEF cc
<1> QED BY <1>3, <1>4

\* Nothing is being written.
LEMMA IsSettled ==
    ASSUME NEW f, FileOk(f), NEW hs, NEW td, AllEmpty(td), NEW pr, NEW fr, pr \subseteq fr, \A n \in pr : IsLeaf(f, n),
           NEW lo, Owning(f, hs, <<>>, NewChain, <<>>, {}, <<>>, td, pr, fr, lo),
           \A i \in {1, 2} : RootOk(f, hs[i]) /\ RootClean(f, pr, hs[i])
    PROVE  Settled(f, hs, NewChain, td, pr, fr, lo)
<1>1. \A z : \A n \in Nat : TodoPages(td, z, n) = {} BY FewPages DEF AllEmpty, TodoPages
<1> QED BY <1>1, NewChainPages DEF Settled

\* Then every page has one owner.
LEMMA SettledOwn ==
    ASSUME NEW f, FileOk(f), NEW a, NEW b, NEW lo, RootOk(f, a), RootOk(f, b),
           Owning(f, <<a, b>>, <<>>, NewChain, <<>>, {}, <<>>, <<>>, {}, {}, lo)
    PROVE  Unshared(f, <<a, b>>) /\ Apart(f, a, b) /\ DOMAIN f = OwnedBy(f, <<a, b>>) \cup lo
<1> DEFINE hs == <<a, b>>
           none == <<>>
<1>1. DOMAIN hs = {1, 2} /\ hs[1] = a /\ hs[2] = b /\ hs = <<a, b>> /\ none = <<>> OBVIOUS
<1>2. AllEmpty(none) /\ \A i \in {1, 2} : RootOk(f, hs[i]) /\ RootClean(f, {}, hs[i])
  BY DEF AllEmpty, RootClean, Clean
<1> HIDE DEF hs, none
<1>3. Settled(f, hs, NewChain, none, {}, {}, lo) BY <1>1, <1>2, IsSettled
<1>4. /\ Unshared(f, hs)
      /\ \A q : q \in OwnedBy(f, hs) <=> q \in DOMAIN f \ ({} \cup lo)
  BY <1>1, <1>3, SettledOwners
<1>5. Apart(f, hs[1], hs[2]) BY <1>3, SettledTrees
<1>6. \A q \in lo : q \in DOMAIN f BY DEF Owning, IsOverflow
<1> QED BY <1>1, <1>4, <1>5, <1>6

\* A segment from memory begins: no pair has an overflow.
LEMMA WriteOwns ==
    ASSUME SInv, OInv, Write
    PROVE  Kept
<1> DEFINE lo == lost \cup dropped
<1>1. /\ phase = "idle" /\ phase' = "write"
      /\ UNCHANGED <<file, upper, lower, lost, reading, todo, leaf, chain, hand, promoted, freed, refreed, dropped, pending>>
  BY DEF Write, writer, merge
<1>2. \A p \in pairs' : \E k, v : p = Boxed(k, v) BY DEF Write
<1>3. \A p \in pairs' : Refs(0, p) = {} /\ Single(0, p) BY <1>2, RefsFacts, SingleFacts DEF Boxed
<1>4. PairsPages(pairs') = {} /\ PairsDistinct(pairs') BY <1>3 DEF PairsPages, PairsDistinct
<1>5. pairs = {} BY <1>1 DEF SInv, PhaseOk
<1>6. PairsPages(pairs') = PairsPages(pairs) BY <1>4, <1>5 DEF PairsPages
<1>7. Owning(file, Heads, leaf, chain, hand, pairs, reading, todo, promoted, freed, lo)
  BY DEF OInv, Holding
<1>8. (\A d \in DOMAIN chain : Distinct(1, chain[d])) /\ \A d \in DOMAIN todo : Once(todo[d])
  BY <1>7 DEF Owning
<1> HIDE DEF lo
<1>9. Owning(file, Heads, leaf, chain, hand, pairs', reading, todo, promoted, freed, lo)
  BY <1>4, <1>6, <1>7, <1>8, NothingMoves
<1>10. Heads' = Heads BY <1>1 DEF Heads
<1>11. Holding' BY <1>1, <1>9, <1>10 DEF Holding, lo
<1> QED BY <1>1, <1>11 DEF OInv, Kept, Extends, UpperTaken

\* It ends.
LEMMA EndWriteOwns ==
    ASSUME SInv, OInv, EndWrite, SInv'
    PROVE  OInv'
<1>1. /\ phase = "write" /\ HasRoot /\ pairs = {} /\ reading = <<>> /\ phase' = "idle" /\ upper' = Root /\ chain' = NewChain
      /\ UNCHANGED <<file, lower, lost, pairs, reading, todo, leaf, hand, promoted, freed, refreed, dropped, pending>>
  BY DEF EndWrite, IsWritten, NothingLeft, sources, merge
<1>2. todo = <<>> /\ upper = NoPage /\ Unmerged /\ leaf = <<>> /\ hand = <<>>
  BY <1>1, RootFacts DEF SInv, PhaseOk
<1>3. Heads = <<upper, lower>> /\ Heads' = <<Root, lower>> BY <1>1 DEF Heads
<1>4. Owning(file, Heads, leaf, chain, hand, pairs, reading, todo, promoted, freed, lost \cup dropped)
  BY DEF OInv, Holding
<1>5. Between(Heads, Heads', 1, Root) BY <1>2, <1>3 DEF Between
<1>6. Owning(file, Heads', leaf, NewChain, hand, pairs, reading, todo, promoted, freed, lost \cup dropped)
  BY <1>1, <1>4, <1>5, RootPlaced
<1>7. Holding' BY <1>1, <1>6 DEF Holding
<1>8. FileOk(file) /\ RootOk(file, Root) /\ RootOk(file, lower) BY <1>1, RootFacts DEF SInv, RootsOk
<1>9. Owning(file, <<Root, lower>>, <<>>, NewChain, <<>>, {}, <<>>, <<>>, {}, {}, lost \cup dropped)
  BY <1>1, <1>2, <1>3, <1>6 DEF Unmerged
<1>10. Unshared(file, <<Root, lower>>) BY <1>8, <1>9, SettledOwn
<1> QED BY <1>1, <1>7, <1>10 DEF OInv, Old, UpperTaken

\* A merge ends.
LEMMA EndMergeOwns ==
    ASSUME SInv, OInv, EndMerge, SInv'
    PROVE  Kept
<1>1. /\ phase = "survivors" /\ HasRoot /\ phase' = "prepared" /\ pending' = [pending EXCEPT !.upper = Root] /\ chain' = NewChain
      /\ UNCHANGED <<file, lost, pairs, reading, todo, leaf, hand, promoted, freed, refreed, dropped>>
  BY DEF EndMerge, IsWritten, sources, segments
<1>2. pending.upper = NoPage /\ pending'.upper = Root /\ pending'.lower = pending.lower
  BY <1>1 DEF SInv, PhaseOk, RootsOk
<1>3. Heads = <<NoPage, pending.lower>> /\ Heads' = <<Root, pending.lower>> BY <1>1, <1>2 DEF Heads
<1>4. Owning(file, Heads, leaf, chain, hand, pairs, reading, todo, promoted, freed, lost \cup dropped)
  BY DEF OInv, Holding
<1>5. Between(Heads, Heads', 1, Root) BY <1>3 DEF Between
<1>6. Owning(file, Heads', leaf, NewChain, hand, pairs, reading, todo, promoted, freed, lost \cup dropped)
  BY <1>1, <1>4, <1>5, RootPlaced
<1>7. Holding' BY <1>1, <1>6 DEF Holding
<1> QED BY <1>1, <1>7 DEF OInv, Kept, Extends, UpperTaken

-----------------------------------------------------------------------------
(* The owners when a merge begins, when its survivors do, and when it is   *)
(* committed.                                                              *)

\* The root of a tree is a parent that is rewritten.
LEMMA TakenTodo ==
    ASSUME FileOk(file), NEW root, IsInner(file, root), NEW td, \A n, z : TodoPages(td, z, n) = {}
    PROVE  /\ \E e \in Nat : TodoGrows(td, Taken(root), e, file[root].items)
           /\ root \in Nat /\ root # NoPage /\ IsParent(file, root) /\ FreedWith(root) = WithOverflows(file, root)
<1> DEFINE e == file[root].depth
           s == file[root].items
           tt == Taken(root)
<1>1. root \in DOMAIN file /\ root \in Nat /\ root # NoPage BY DEF FileOk, Forest, IsInner
<1>2. IsParent(file, root) /\ e \in Nat /\ e > 0 BY <1>1, NodeFacts DEF IsNode
<1>3. tt = [d \in 1..e |-> IF d = e THEN s ELSE <<>>] BY <1>1, <1>2 DEF Taken
<1>4. FreedWith(root) = WithOverflows(file, root) BY <1>1, <1>2 DEF FreedWith, WithOverflows
<1> HIDE DEF e, s, tt
<1>5. DOMAIN tt = 1..e /\ e \in DOMAIN tt /\ tt[e] = s /\ \A n \in DOMAIN tt : n # e => tt[n] = <<>>
  BY <1>2, <1>3
<1>6. \A n \in DOMAIN tt : n # e => Once(tt[n]) BY <1>5, FewPages
<1>7. \A n, z : n # e => TodoPages(tt, z, n) = TodoPages(td, z, n)
  <2> SUFFICES ASSUME NEW n, NEW z, n # e
               PROVE  TodoPages(tt, z, n) = {} /\ TodoPages(td, z, n) = {}
    OBVIOUS
  <2>1. TodoPages(tt, z, n) = {} BY <1>5, FewPages DEF TodoPages
  <2>2. TodoPages(td, z, n) = {} OBVIOUS
  <2> QED BY <2>1, <2>2
<1>8. TodoGrows(td, tt, e, s) BY <1>2, <1>5, <1>6, <1>7 DEF TodoGrows
<1> QED BY <1>1, <1>2, <1>4, <1>8 DEF s, tt

\* What is to be written is at first nothing, or what is left is empty.
LEMMA NoTodo ==
    ASSUME NEW td, AllEmpty(td)
    PROVE  (\A n, z : TodoPages(td, z, n) = {}) /\ \A d \in DOMAIN td : Once(td[d])
  BY FewPages DEF AllEmpty, TodoPages

\* The tree of lower is taken apart.
LEMMA LowerTaken ==
    ASSUME SInv, NEW pr, NEW ps, NEW lo, NEW kk, NEW hs, Between(kk, hs, 2, lower), \A p \in pr : IsLeaf(file, p),
           Owning(file, hs, <<>>, NewChain, <<>>, ps, <<>>, <<>>, pr, {}, lo), lower \notin pr,
           NEW rd, rd = IF lower # NoPage /\ ~IsParent(file, lower) THEN file[lower].items ELSE <<>>
    PROVE  Owning(file, kk, <<>>, NewChain, <<>>, ps, rd, Taken(lower), pr, FreedWith(lower), lo)
<1> DEFINE none == <<>>
<1>1. FileOk(file) /\ RootOk(file, lower) /\ none = <<>> /\ AllEmpty(none)
  BY DEF SInv, RootsOk, AllEmpty
<1> HIDE DEF none
<1>2. (\A n, z : TodoPages(none, z, n) = {}) /\ \A d \in DOMAIN none : Once(none[d]) BY <1>1, NoTodo
<1>3. Owning(file, hs, none, NewChain, none, ps, none, none, pr, {}, lo) BY <1>1
<1>4. CASE lower = NoPage
  <2>1. Taken(lower) = none /\ FreedWith(lower) = {} /\ rd = none BY <1>1, <1>4 DEF Taken, FreedWith
  <2>2. \A i \in {1, 2} : RootPages(kk, pr \cap {}, i) = RootPages(hs, pr \cap {}, i)
    BY <1>4 DEF RootPages, Between
  <2>3. (\A d \in DOMAIN NewChain : Distinct(1, NewChain[d])) /\ PairsDistinct(ps)
    BY <1>3 DEF Owning
  <2>4. Owning(file, kk, none, NewChain, none, ps, none, none, pr, {}, lo)
    BY <1>2, <1>3, <2>2, <2>3, NothingMoves
  <2> QED BY <1>1, <2>1, <2>4
<1>5. CASE IsInner(file, lower)
  <2>1. PICK e \in Nat : TodoGrows(none, Taken(lower), e, file[lower].items)
    BY <1>1, <1>2, <1>5, TakenTodo
  <2>2. lower \in Nat /\ lower # NoPage /\ IsParent(file, lower) /\ FreedWith(lower) = WithOverflows(file, lower)
    BY <1>1, <1>2, <1>5, TakenTodo
  <2>3. rd = none BY <1>1, <2>2
  <2> DEFINE x == WithOverflows(file, lower)
             s == file[lower].items
  <2>4. s = file[lower].items /\ x = WithOverflows(file, lower) OBVIOUS
  <2> HIDE DEF x, s
  <2>5. Owning(file, kk, none, NewChain, none, ps, none, Taken(lower), pr, {} \cup x, lo)
    BY <1>1, <1>3, <1>5, <2>1, <2>2, <2>4, RootToTodo, ZenonT(60)
  <2>6. {} \cup x = FreedWith(lower) BY <2>2, <2>4
  <2>7. Owning(file, kk, none, NewChain, none, ps, none, Taken(lower), pr, FreedWith(lower), lo)
    BY <2>5, <2>6
  <2> QED BY <1>1, <2>3, <2>7
<1>6. CASE IsLeaf(file, lower)
  <2>1. lower \in Nat /\ lower # NoPage /\ ~IsParent(file, lower)
    BY <1>1, <1>6, NodeFacts DEF FileOk, Forest, IsLeaf, IsNode
  <2>2. Taken(lower) = none /\ FreedWith(lower) = Alone(lower) /\ rd = file[lower].items
    BY <1>1, <2>1 DEF Taken, FreedWith, Alone
  <2>3. Disjoint(pr, {}) BY DEF Disjoint
  <2> DEFINE s == file[lower].items
  <2>4. s = file[lower].items OBVIOUS
  <2> HIDE DEF s
  <2>5. Owning(file, kk, none, NewChain, none, ps, s, none, pr, {} \cup Alone(lower), lo)
    BY <1>1, <1>3, <1>6, <2>1, <2>3, <2>4, RootToReading, ZenonT(60)
  <2>6. {} \cup Alone(lower) = FreedWith(lower) BY <2>2
  <2> QED BY <1>1, <2>2, <2>4, <2>5, <2>6
<1> QED BY <1>1, <1>4, <1>5, <1>6 DEF RootOk, IsNode

\* A merge begins: leaves are promoted, and lower is taken apart.
LEMMA BeginMergeOwns ==
    ASSUME SInv, OInv, BeginMerge
    PROVE  Kept /\ Apart(file, upper, lower)
<1> DEFINE lo == lost \cup dropped
           hs == <<upper, lower>>
           kk == <<upper, NoPage>>
<1>1. /\ phase = "idle" /\ upper # NoPage /\ phase' = "merge" /\ todo' = Taken(lower)
      /\ reading' = IF lower # NoPage /\ ~IsParent(file, lower) THEN file[lower].items ELSE <<>>
      /\ freed' = freed \cup FreedWith(lower) /\ refreed' = refreed \cup (freed \cap FreedWith(lower))
      /\ UNCHANGED <<file, upper, lower, lost, leaf, chain, hand, dropped, pending>>
  BY DEF BeginMerge, Free, segments, writer
<1>2. PICK leaves \in ToPromote(file, upper) : promoted' = leaves /\ pairs' = ItemsOf(file, leaves)
  BY DEF BeginMerge
<1>3. /\ pairs = {} /\ reading = <<>> /\ todo = <<>> /\ promoted = {} /\ freed = {}
      /\ leaf = <<>> /\ chain = NewChain /\ hand = <<>> /\ refreed = {}
  BY <1>1 DEF SInv, PhaseOk, Unmerged, OInv
<1>4. FileOk(file) /\ Forest(file) /\ RootOk(file, upper) /\ RootOk(file, lower) /\ IsNode(file, upper)
  BY <1>1 DEF SInv, FileOk, RootsOk, RootOk
<1>5. Heads = hs /\ Heads' = kk BY <1>1 DEF Heads
<1>6. Owning(file, Heads, leaf, chain, hand, pairs, reading, todo, promoted, freed, lo)
  BY DEF OInv, Holding
<1>7. Owning(file, hs, <<>>, NewChain, <<>>, {}, <<>>, <<>>, {}, {}, lo) BY <1>3, <1>5, <1>6
<1>8. Apart(file, upper, lower) BY <1>4, <1>7, SettledOwn
<1>9. /\ leaves \subseteq Below(file, upper) /\ \A n \in leaves : IsLeaf(file, n)
      /\ (IsLeaf(file, upper) /\ leaves = {upper}) \/ IsInner(file, upper)
  <2>1. /\ leaves \subseteq Below(file, upper) /\ \A n \in leaves : IsLeaf(file, n)
        /\ \/ IsLeaf(file, upper) /\ leaves = {upper}
           \/ \E n \in Below(file, upper) : IsInner(file, n) /\ leaves \subseteq Children(file, n)
    BY <1>2, <1>4, PromoteFacts
  <2>2. ASSUME IsLeaf(file, upper), ~IsInner(file, upper)
        PROVE  leaves = {upper}
    BY <2>2, NodeFacts DEF ToPromote, IsLeaf, IsNode
  <2> QED BY <1>4, <2>1, <2>2 DEF IsNode
<1>10. lower \notin leaves
  <2>1. lower # NoPage => lower \in Below(file, lower)
    BY <1>4, BelowNodes DEF RootOk, IsNode, IsLeaf, IsInner
  <2>2. NoPage \notin leaves BY <1>4, <1>9 DEF Forest, IsLeaf
  <2> QED BY <1>1, <1>8, <1>9, <2>1, <2>2 DEF Apart
<1>11. Between(kk, hs, 2, lower) BY DEF Between
<1> DEFINE ps == ItemsOf(file, leaves)
           rd == IF lower # NoPage /\ ~IsParent(file, lower) THEN file[lower].items ELSE <<>>
<1>12. ps = ItemsOf(file, leaves) /\ rd = IF lower # NoPage /\ ~IsParent(file, lower) THEN file[lower].items ELSE <<>>
  OBVIOUS
<1> HIDE DEF hs, kk, lo, ps, rd
<1>13. Owning(file, hs, <<>>, NewChain, <<>>, ps, <<>>, <<>>, leaves, {}, lo)
  BY <1>4, <1>7, <1>9, <1>12, Promote, ZenonT(60)
<1>14. Owning(file, kk, <<>>, NewChain, <<>>, ps, rd, Taken(lower), leaves, FreedWith(lower), lo)
  BY <1>9, <1>10, <1>11, <1>12, <1>13, LowerTaken, ZenonT(60)
<1>15. /\ leaf' = <<>> /\ chain' = NewChain /\ hand' = <<>> /\ pairs' = ps /\ reading' = rd /\ todo' = Taken(lower)
       /\ promoted' = leaves /\ file' = file
  BY <1>1, <1>2, <1>3, <1>12
<1>16. freed' = FreedWith(lower) /\ refreed' = {} /\ lo' = lo BY <1>1, <1>3 DEF lo
<1>17. Owning(file', Heads', leaf', chain', hand', pairs', reading', todo', promoted', freed', lo')
  BY <1>5, <1>14, <1>15, <1>16
<1>18. UpperTaken' BY <1>1, <1>2, <1>9 DEF UpperTaken
<1> QED BY <1>8, <1>15, <1>16, <1>17, <1>18 DEF Kept, Holding, Extends, lo

\* The survivors begin: upper is taken apart, or nothing is left of it.
LEMMA UpperTakenApart ==
    ASSUME SInv, NEW pr, NEW fr, NEW lo, NEW kk, NEW hs, Between(kk, hs, 1, upper), upper # NoPage, RootOk(file, upper),
           \A p \in pr : IsLeaf(file, p), pr \subseteq fr, NEW td, AllEmpty(td),
           Owning(file, hs, <<>>, NewChain, <<>>, {}, <<>>, td, pr, fr, lo), IsInner(file, upper) \/ upper \in pr,
           NEW x, x = IF IsParent(file, upper) THEN FreedWith(upper) ELSE {}
    PROVE  Owning(file, kk, <<>>, NewChain, <<>>, {}, <<>>, Taken(upper), pr, fr \cup x, lo) /\ Disjoint(x, fr)
<1> DEFINE none == <<>>
           noPairs == {}
<1>1. FileOk(file) /\ none = <<>> /\ AllEmpty(none) /\ noPairs = {} BY DEF SInv, AllEmpty
<1> HIDE DEF none, noPairs
<1>2. (\A n, z : TodoPages(td, z, n) = {}) /\ (\A n, z : TodoPages(none, z, n) = {}) /\ \A d \in DOMAIN none : Once(none[d])
  BY <1>1, NoTodo
<1>3. Owning(file, hs, none, NewChain, none, noPairs, none, td, pr, fr, lo) BY <1>1
<1>4. CASE IsInner(file, upper)
  <2>1. PICK e \in Nat : TodoGrows(td, Taken(upper), e, file[upper].items)
    BY <1>1, <1>2, <1>4, TakenTodo
  <2>2. upper \in Nat /\ upper # NoPage /\ IsParent(file, upper) /\ FreedWith(upper) = WithOverflows(file, upper)
    BY <1>1, <1>2, <1>4, TakenTodo
  <2> DEFINE s == file[upper].items
  <2>3. s = file[upper].items /\ x = WithOverflows(file, upper) BY <2>2
  <2> HIDE DEF s
  <2>4. Disjoint(x, fr) /\ Owning(file, kk, none, NewChain, none, noPairs, none, Taken(upper), pr, fr \cup x, lo)
    BY <1>1, <1>3, <1>4, <2>1, <2>2, <2>3, RootToTodo, ZenonT(60)
  <2> QED BY <1>1, <2>4
<1>5. CASE ~IsInner(file, upper)
  <2>1. IsLeaf(file, upper) /\ upper \in pr \cap fr BY <1>5 DEF RootOk, IsNode
  <2>2. ~IsParent(file, upper) BY <2>1, NodeFacts DEF IsLeaf, IsNode, LeafNode, IsParent
  <2>3. Taken(upper) = none /\ x = {} BY <1>1, <2>2 DEF Taken
  <2>4. \A i \in {1, 2} : RootPages(kk, pr \cap fr, i) = RootPages(hs, pr \cap fr, i)
    BY <2>1 DEF RootPages, Between
  <2>5. (\A d \in DOMAIN NewChain : Distinct(1, NewChain[d])) /\ PairsDistinct(noPairs)
    BY <1>3 DEF Owning
  <2>6. Owning(file, kk, none, NewChain, none, noPairs, none, none, pr, fr, lo)
    BY <1>2, <1>3, <2>4, <2>5, NothingMoves
  <2>7. Disjoint(x, fr) /\ fr \cup x = fr BY <2>3 DEF Disjoint
  <2> QED BY <1>1, <2>3, <2>6, <2>7
<1> QED BY <1>4, <1>5

\* The survivors begin: the promoted leaves are freed, and the parents of upper.
LEMMA BeginSurvivorsOwns ==
    ASSUME SInv, OInv, BeginSurvivors, SInv'
    PROVE  Kept
<1> DEFINE lo == lost \cup dropped
           x == IF IsParent(file, upper) THEN FreedWith(upper) ELSE {}
           hs == <<upper, NoPage>>
           mid == <<upper, Root>>
           kk == <<NoPage, Root>>
           fr == freed \cup promoted
<1>1. /\ phase = "merge" /\ HasRoot /\ phase' = "survivors" /\ chain' = NewChain /\ todo' = Taken(upper)
      /\ pending' = [pending EXCEPT !.lower = Root, !.panicked = ~RootIsWritten(Root)]
      /\ UNCHANGED <<file, upper, lower, lost, pairs, reading, leaf, hand, promoted, dropped>>
  BY DEF BeginSurvivors, IsWritten, segments
<1>2. freed' = freed \cup (promoted \cup x) /\ refreed' = refreed \cup (freed \cap (promoted \cup x))
  BY DEF BeginSurvivors, Free
<1>3. pairs = {} /\ reading = <<>> /\ AllEmpty(todo) /\ pending = NoSegments /\ refreed = {} /\ upper # NoPage
  BY <1>1 DEF BeginSurvivors, IsWritten, NothingLeft, SInv, PhaseOk, OInv
<1>4. leaf = <<>> /\ hand = <<>> BY <1>1 DEF HasRoot
<1>5. pending'.upper = NoPage /\ pending'.lower = Root
  <2>1. pending'.upper = pending.upper /\ pending'.lower = Root BY <1>1, <1>3 DEF NoSegments
  <2> QED BY <1>3, <2>1 DEF NoSegments
<1>6. Heads = hs /\ Heads' = kk BY <1>1, <1>5 DEF Heads
<1>7. /\ FileOk(file) /\ RootOk(file, upper) /\ (\A p \in promoted : IsLeaf(file, p)) /\ promoted \cap freed = {}
      /\ (IsInner(file, upper) \/ upper \in promoted)
  BY <1>1 DEF SInv, RootsOk, CleanOk, OInv, UpperTaken
<1>8. Between(hs, mid, 2, Root) /\ Between(kk, mid, 1, upper) BY DEF Between
<1>9. (\A n \in Nat : LevelPages(NewChain, n) = {}) /\ (\A z : \A n \in Nat : TodoPages(todo, z, n) = {})
  BY <1>3, NewChainPages, NoTodo
<1>10. x = (IF IsParent(file, upper) THEN FreedWith(upper) ELSE {}) /\ promoted \subseteq fr /\ fr = freed \cup promoted
  OBVIOUS
<1> HIDE DEF lo, x, hs, kk, mid, fr
<1>11. Owning(file, hs, leaf, chain, hand, pairs, reading, todo, promoted, freed, lo)
  BY <1>6 DEF OInv, Holding, lo
<1>12. Owning(file, mid, leaf, NewChain, hand, pairs, reading, todo, promoted, freed, lo)
  BY <1>1, <1>8, <1>11, RootPlaced, ZenonT(60)
<1>13. Owning(file, mid, <<>>, NewChain, <<>>, {}, <<>>, todo, promoted, freed, lo)
  BY <1>3, <1>4, <1>12
<1>14. Owning(file, mid, <<>>, NewChain, <<>>, {}, <<>>, todo, promoted, freed \cup promoted, lo)
  BY <1>7, <1>9, <1>13, FreePromoted, ZenonT(60)
<1>15. Owning(file, mid, <<>>, NewChain, <<>>, {}, <<>>, todo, promoted, fr, lo) BY <1>10, <1>14
<1>16. Owning(file, kk, <<>>, NewChain, <<>>, {}, <<>>, Taken(upper), promoted, fr \cup x, lo) /\ Disjoint(x, fr)
  BY <1>3, <1>7, <1>8, <1>10, <1>15, UpperTakenApart, ZenonT(60)
<1>17. freed' = fr \cup x /\ refreed' = {} BY <1>2, <1>3, <1>7, <1>10, <1>16 DEF Disjoint
<1>18. /\ leaf' = <<>> /\ chain' = NewChain /\ hand' = <<>> /\ pairs' = {} /\ reading' = <<>> /\ todo' = Taken(upper)
       /\ promoted' = promoted /\ file' = file /\ lost' \cup dropped' = lo
  BY <1>1, <1>3, <1>4 DEF lo
<1>19. Owning(file', Heads', leaf', chain', hand', pairs', reading', todo', promoted', freed', lost' \cup dropped')
  BY <1>6, <1>16, <1>17, <1>18
<1> QED BY <1>1, <1>17, <1>18, <1>19 DEF Kept, Holding, Extends, UpperTaken

\* What the prepared trees own.
LEMMA PreparedOwns ==
    ASSUME SInv, OInv, phase = "prepared"
    PROVE  Settled(file, New, NewChain, todo, promoted, freed, lost \cup dropped)
<1> DEFINE lo == lost \cup dropped
           hs == New
<1>1. leaf = <<>> /\ chain = NewChain /\ hand = <<>> /\ pairs = {} /\ reading = <<>> /\ AllEmpty(todo)
  BY DEF SInv, PhaseOk
<1>2. FileOk(file) /\ promoted \subseteq freed /\ \A n \in promoted : IsLeaf(file, n)
  BY DEF SInv, CleanOk
<1>3. \A i \in {1, 2} : RootOk(file, hs[i]) /\ RootClean(file, promoted, hs[i])
  BY DEF SInv, RootsOk, CleanOk, New
<1>4. Heads = hs BY DEF Heads, New
<1> HIDE DEF lo, hs
<1>5. Owning(file, hs, <<>>, NewChain, <<>>, {}, <<>>, todo, promoted, freed, lo)
  BY <1>1, <1>4 DEF OInv, Holding, lo
<1>6. Settled(file, hs, NewChain, todo, promoted, freed, lo) BY <1>1, <1>2, <1>3, <1>5, IsSettled
<1> QED BY <1>6 DEF hs, lo

\* What is freed is a page.
LEMMA FreedPages ==
    ASSUME NEW f, NEW hs, NEW lf, NEW ch, NEW hd, NEW ps, NEW rd, NEW td, NEW pr, NEW fr, NEW lo,
           Owning(f, hs, lf, ch, hd, ps, rd, td, pr, fr, lo)
    PROVE  fr \subseteq DOMAIN f
<1> DEFINE H == Owned(f, hs, lf, ch, hd, ps, rd, td, pr, fr, lo)
<1>1. OwnedAre(H, f, hs, lf, ch, hd, ps, rd, td, pr, fr, lo) BY OwnedParts
<1>2. Partition(H, DOMAIN f) BY DEF Owning
<1> HIDE DEF H
<1> QED BY <1>1, <1>2, HolderFacts DEF OwnedAre, Partition

\* A merge is committed.
LEMMA CommitMergeOwns ==
    ASSUME SInv, OInv, CommitMerge
    PROVE  SInv' /\ OInv'
<1> DEFINE lo == lost \cup dropped
           hs == New
<1>1. /\ phase = "prepared" /\ phase' = "idle" /\ upper' = pending.upper /\ lower' = pending.lower
      /\ file' = [q \in DOMAIN file \ freed |-> file[q]] /\ lost' = lo
      /\ promoted' = {} /\ freed' = {} /\ dropped' = {} /\ pending' = NoSegments /\ todo' = <<>>
      /\ UNCHANGED <<pairs, reading, leaf, chain, hand, refreed>>
  BY DEF CommitMerge, writer
<1>2. leaf = <<>> /\ chain = NewChain /\ hand = <<>> /\ pairs = {} /\ reading = <<>> /\ refreed = {}
  BY <1>1 DEF SInv, PhaseOk, OInv
<1>3. hs = <<pending.upper, pending.lower>> /\ hs[1] = pending.upper /\ hs[2] = pending.lower
  BY DEF New
<1>5. Settled(file, New, NewChain, todo, promoted, freed, lo) BY <1>1, PreparedOwns
<1>6. Settled(file, hs, NewChain, todo, promoted, freed, lo) BY <1>5
<1> HIDE DEF hs, lo
<1>7. freed \subseteq DOMAIN file /\ FileOk(file) /\ NoPage \notin DOMAIN file
  BY <1>6, FreedPages DEF Settled, FileOk, Forest
<1>8. \A i \in {1, 2} : hs[i] \notin freed
  <2>1. Placed(file, hs, promoted, freed, lo) BY <1>6, SettledPlaces
  <2> QED BY <1>7, <2>1 DEF Placed
<1>9. \A n \in DOMAIN file \ freed : IsNode(file, n) => NodePages(file, n) \cap freed = {}
  <2>1. \A n : Live(file, freed, n) => NodePages(file, n) \cap freed = {} BY <1>6, SettledTrees
  <2> QED BY <2>1 DEF Live
<1>10. pending.upper \notin freed /\ pending.lower \notin freed BY <1>3, <1>8
<1>11. SInv' /\ FileOk(file') BY <1>9, <1>10, CommitMergeSound
<1>12. DOMAIN file' = DOMAIN file \ freed /\ \A n \in DOMAIN file' : file'[n] = file[n] BY <1>1
<1>13. Owning(file', hs, <<>>, NewChain, <<>>, {}, <<>>, <<>>, {}, {}, lo)
  BY <1>6, <1>11, <1>12, Shrunk
<1>14. Heads' = hs /\ Old' = hs /\ hs = <<upper', lower'>> BY <1>1, <1>3 DEF Heads, Old
<1>15. lost' \cup dropped' = lo BY <1>1
<1>16. Holding'
  <2>1. /\ leaf' = <<>> /\ chain' = NewChain /\ hand' = <<>> /\ pairs' = {} /\ reading' = <<>> /\ todo' = <<>>
        /\ promoted' = {} /\ freed' = {}
    BY <1>1, <1>2
  <2>2. Owning(file', Heads', leaf', chain', hand', pairs', reading', todo', promoted', freed', lost' \cup dropped')
    BY <1>13, <1>14, <1>15, <2>1
  <2> QED BY <2>2 DEF Holding
<1>17. Unshared(file', Old')
  <2>1. RootOk(file', upper') /\ RootOk(file', lower') BY <1>11 DEF SInv, RootsOk
  <2>2. Unshared(file', <<upper', lower'>>) BY <1>11, <1>13, <1>14, <2>1, SettledOwn
  <2> QED BY <1>14, <2>2
<1>18. UpperTaken' /\ refreed' = {} BY <1>1, <1>2 DEF UpperTaken
<1> QED BY <1>11, <1>16, <1>17, <1>18 DEF OInv

-----------------------------------------------------------------------------
(* The theorems.                                                           *)

\* At first there is nothing.
LEMMA NothingYet ==
    ASSUME Init
    PROVE  SInv
<1>1. /\ file = <<>> /\ upper = NoPage /\ lower = NoPage /\ lost = {} /\ writes = 0
      /\ phase = "idle" /\ pairs = {} /\ reading = <<>> /\ todo = <<>> /\ keep = 0
      /\ leaf = <<>> /\ chain = NewChain /\ hand = <<>> /\ level = 1
      /\ promoted = {} /\ freed = {} /\ refreed = {} /\ dropped = {}
      /\ pending = NoSegments
  BY DEF Init
<1>2. FileOk(file)
  <2>1. DOMAIN file = {} /\ IsFiniteSet({}) BY <1>1, FS_EmptySet
  <2> QED BY <2>1 DEF FileOk, Forest
<1>3. PhaseOk /\ KeepOk BY <1>1 DEF PhaseOk, Unmerged, KeepOk
<1>4. RootsOk BY <1>1 DEF RootsOk, RootOk, NoSegments, NoPage
<1>5. WritingOk /\ InOrder BY <1>1, EmptyWriter DEF WritingOk, InOrder
<1>6. ReadingOk BY <1>1, NothingToDo DEF ReadingOk, SourcesOk
<1>7. CleanOk BY <1>1, EmptyWriter DEF CleanOk, RootClean, NoSegments
<1> QED BY <1>1, <1>2, <1>3, <1>4, <1>5, <1>6, <1>7 DEF SInv

\* At first there is no page.
LEMMA NobodyYet ==
    ASSUME Init, SInv
    PROVE  OInv
<1> DEFINE H == Owned(file, Heads, leaf, chain, hand, pairs, reading, todo, promoted, freed, lost \cup dropped)
<1>1. /\ file = <<>> /\ upper = NoPage /\ lower = NoPage /\ lost \cup dropped = {} /\ phase = "idle"
      /\ pairs = {} /\ reading = <<>> /\ todo = <<>> /\ leaf = <<>> /\ chain = NewChain /\ hand = <<>>
      /\ promoted = {} /\ freed = {} /\ refreed = {}
  BY DEF Init
<1>2. OwnedAre(H, file, Heads, leaf, chain, hand, pairs, reading, todo, promoted, freed, lost \cup dropped)
  BY OwnedParts
<1> HIDE DEF H
<1>3. Heads = <<NoPage, NoPage>> /\ DOMAIN file = {} /\ DOMAIN todo = {} BY <1>1 DEF Heads
<1>4. PagesOf(0, <<>>) = {} /\ PagesOf(1, <<>>) = {} /\ PairsPages({}) = {} /\ PairsDistinct({})
  BY FewPages DEF PairsPages, PairsDistinct
<1>5. RootPages(Heads, promoted \cap freed, 1) = {} /\ RootPages(Heads, promoted \cap freed, 2) = {}
  BY <1>3 DEF RootPages
<1>6. \A n : LivePages(file, promoted, freed, n) = {} /\ TodoPages(todo, promoted \cap freed, n) = {} /\ ~IsNode(file, n)
  BY <1>3 DEF LivePages, TodoPages, IsNode, IsLeaf, IsInner
<1>7. \A h \in Holders : H[h] = {}
  <2>1. /\ H[At("leaf", 0)] = {} /\ H[At("reading", 0)] = {} /\ H[At("hand", 0)] = {} /\ H[At("pairs", 0)] = {}
        /\ H[At("freed", 0)] = {} /\ H[At("lost", 0)] = {} /\ H[At("root", 1)] = {} /\ H[At("root", 2)] = {}
    BY <1>1, <1>2, <1>4, <1>5 DEF OwnedAre
  <2>2. \A n \in Nat : H[At("chain", n)] = {} /\ H[At("todo", n)] = {} /\ H[At("node", n)] = {}
    BY <1>1, <1>2, <1>6, NewChainPages DEF OwnedAre
  <2> QED BY <2>1, <2>2, HolderFacts
<1>8. Partition(H, DOMAIN file) BY <1>3, <1>7 DEF Partition
<1>9. Holding
  BY <1>1, <1>3, <1>4, <1>6, <1>8, FewPages, NewChainPages DEF Holding, Owning, H, NodesDistinct
<1>10. Unshared(file, Old)
  <2>1. Owning(file, <<NoPage, NoPage>>, <<>>, NewChain, <<>>, {}, <<>>, <<>>, {}, {}, {})
    BY <1>1, <1>3, <1>9 DEF Holding
  <2>2. FileOk(file) /\ RootOk(file, NoPage) BY DEF SInv, RootOk
  <2> QED BY <1>1, <2>1, <2>2, SettledOwn DEF Old
<1> QED BY <1>1, <1>9, <1>10 DEF OInv, UpperTaken

\* What the steps of a writer or of a merge leave behind.
LEMMA StepKeeps ==
    ASSUME SInv, OInv, Next
    PROVE  SInv' /\ OInv' /\ (Extends(file', file) \/ CommitMerge)
<1>1. ASSUME SInv', Kept, UNCHANGED <<upper, lower>>
      PROVE  SInv' /\ OInv' /\ (Extends(file', file) \/ CommitMerge)
  BY <1>1, OldOwners DEF Kept
<1>2. CASE Write
  <2>1. UNCHANGED <<upper, lower>> BY <1>2 DEF Write
  <2> QED BY <1>1, <1>2, <2>1, WriteSound, WriteOwns
<1>3. CASE EndWrite
  <2>1. SInv' BY <1>3, EndWriteSound
  <2>2. OInv' /\ file' = file BY <1>3, <2>1, EndWriteOwns DEF EndWrite
  <2> QED BY <2>1, <2>2 DEF Extends
<1>4. CASE BeginMerge
  <2>1. UNCHANGED <<upper, lower>> BY <1>4 DEF BeginMerge, segments
  <2>2. Kept /\ Apart(file, upper, lower) BY <1>4, BeginMergeOwns
  <2>3. SInv' BY <1>4, <2>2, BeginMergeSound
  <2> QED BY <1>1, <2>1, <2>2, <2>3
<1>5. CASE BeginSurvivors
  <2>1. UNCHANGED <<upper, lower>> BY <1>5 DEF BeginSurvivors, segments
  <2>2. SInv' BY <1>5, BeginSurvivorsSound
  <2> QED BY <1>1, <1>5, <2>1, <2>2, BeginSurvivorsOwns
<1>6. CASE EndMerge
  <2>1. UNCHANGED <<upper, lower>> BY <1>6 DEF EndMerge, segments
  <2>2. SInv' BY <1>6, EndMergeSound
  <2> QED BY <1>1, <1>6, <2>1, <2>2, EndMergeOwns
<1>7. CASE CommitMerge BY <1>7, CommitMergeOwns
<1>8. CASE TakeRest
  <2>1. UNCHANGED <<upper, lower>> BY <1>8 DEF TakeRest, segments
  <2> QED BY <1>1, <1>8, <2>1, TakeRestSound, TakeRestOwns
<1>9. CASE RewriteLeaf
  <2>1. UNCHANGED <<upper, lower>> BY <1>9 DEF RewriteLeaf, TakeBetween, Replace, KeepPair, segments
  <2>2. SInv' BY <1>9, TakeBetweenSound, ReplaceSound, KeepPairSound DEF RewriteLeaf
  <2>3. Kept BY <1>9, <2>2, TakeRestOwns, ReplaceOwns, KeepPairOwns DEF RewriteLeaf
  <2> QED BY <1>1, <2>1, <2>2, <2>3
<1>10. CASE RecycleChildren \/ KeepChild \/ RewriteChild \/ SkipLeaf
  <2>1. UNCHANGED <<upper, lower>>
    BY <1>10 DEF RecycleChildren, KeepChild, RewriteChild, SkipLeaf, segments
  <2>2. SInv' BY <1>10, RecycleChildrenSound, KeepChildSound, RewriteChildSound, SkipLeafSound
  <2>3. Kept BY <1>10, <2>2, RecycleChildrenOwns, KeepChildOwns, RewriteChildOwns, SkipLeafOwns
  <2> QED BY <1>1, <2>1, <2>2, <2>3
<1>11. CASE AddChild \/ FlushLeaf \/ FlushPage
  <2>1. UNCHANGED <<upper, lower>> BY <1>11 DEF AddChild, FlushLeaf, FlushPage, segments
  <2>2. SInv' BY <1>11, AddChildSound, FlushLeafSound, FlushPageSound
  <2>3. Kept BY <1>11, <2>2, AddChildOwns, FlushLeafOwns, FlushPageOwns
  <2> QED BY <1>1, <2>1, <2>2, <2>3
<1> QED BY <1>2, <1>3, <1>4, <1>5, <1>6, <1>7, <1>8, <1>9, <1>10, <1>11 DEF Next

\* Nothing changes.
LEMMA StutterKeeps ==
    ASSUME SInv, OInv, UNCHANGED vars
    PROVE  SInv' /\ OInv'
<1>1. /\ UNCHANGED <<file, upper, lower, lost, writes, phase, pairs, reading, todo, keep, leaf, chain, hand, level>>
      /\ UNCHANGED <<promoted, freed, refreed, dropped, pending>>
  BY DEF vars, segments, sources, writer, merge
<1>2. PhaseOk' /\ RootsOk' BY <1>1 DEF SInv, PhaseOk, Unmerged, RootsOk
<1>3. KeepOk'
  <2>1. Depth' = Depth /\ Item' = Item /\ NextPair' = NextPair BY <1>1 DEF Depth, Item, NextPair
  <2>2. OnLineage(Item)' <=> OnLineage(Item) BY <1>1, <2>1 DEF OnLineage
  <2> QED BY <1>1, <2>1, <2>2 DEF SInv, KeepOk
<1>4. WritingOk' /\ ReadingOk' /\ InOrder' /\ CleanOk'
  BY <1>1 DEF SInv, WritingOk, ReadingOk, InOrder, CleanOk
<1>5. SInv' BY <1>1, <1>2, <1>3, <1>4 DEF SInv
<1>6. Heads' = Heads BY <1>1 DEF Heads
<1> QED BY <1>1, <1>5, <1>6 DEF OInv, Holding, Old, UpperTaken

\* TreesAreSound: every tree, also of a merge that is not committed, is one that a
\* cursor can go through.
LEMMA SoundFollows ==
    ASSUME SInv
    PROVE  TreesAreSound
<1>1. FileOk(file) /\ Forest(file) BY DEF SInv, FileOk
<1>2. \A root \in Roots : IsNode(file, root) /\ root \in DOMAIN file
  BY DEF SInv, RootsOk, RootOk, Roots, IsNode, IsLeaf, IsInner
<1>3. ASSUME NEW root \in Roots, NEW n \in Below(file, root)
      PROVE  Sound(file, n)
  <2>1. IsNode(file, n) BY <1>1, <1>2, <1>3, BelowNodes
  <2> QED BY <1>1, <2>1, FileSound
<1> QED BY <1>2, <1>3 DEF TreesAreSound

\* Where no two places refer to the same page there are as many pages as places.
LEMMA CountedOwners ==
    ASSUME NEW f, FileOk(f), NEW hs, DOMAIN hs = {1, 2}, \A i \in {1, 2} : RootOk(f, hs[i]), Unshared(f, hs)
    PROVE  OneOwner(f, hs)
<1> DEFINE target == [r \in References(f, hs) |-> Target(f, hs, r)]
<1>1. Forest(f) /\ IsFiniteSet(DOMAIN f) BY DEF FileOk, Forest
<1>2. ASSUME NEW r \in References(f, hs)
      PROVE  Target(f, hs, r) \in DOMAIN f
  <2>1. CASE r.item \in {1, 2} /\ hs[r.item] # NoPage /\ Target(f, hs, r) = hs[r.item]
    BY <2>1 DEF RootOk, IsNode, IsLeaf, IsInner
  <2>2. CASE \E i \in {1, 2} : /\ r.in \in Nodes(f, hs[i]) /\ r.item \in DOMAIN f[r.in].items /\ r.what \in What
                              /\ PageOf(f[r.in].depth, f[r.in].items[r.item], r.what) # NoPage
                              /\ Target(f, hs, r) = PageOf(f[r.in].depth, f[r.in].items[r.item], r.what)
    <3>1. PICK i \in {1, 2} : r.in \in Nodes(f, hs[i]) BY <2>2
    <3>2. hs[i] \in DOMAIN f /\ IsNode(f, hs[i]) /\ r.in \in Below(f, hs[i])
      BY <3>1 DEF Nodes, RootOk, IsNode, IsLeaf, IsInner
    <3>3. IsNode(f, r.in) BY <1>1, <3>2, BelowNodes
    <3>4. Target(f, hs, r) \in NodePages(f, r.in) BY <2>2 DEF NodePages, PagesOf, Refs
    <3> QED BY <3>3, <3>4, NodeRefs
  <2> QED BY <1>2, <2>1, <2>2, ReferenceIs
<1>3. IsFiniteSet(OwnedBy(f, hs)) BY <1>1, <1>2, FS_Subset DEF OwnedBy
<1>4. target \in Bijection(References(f, hs), OwnedBy(f, hs))
  BY DEF Unshared, OwnedBy, Bijection, Injection, Surjection, IsInjective
<1> QED BY <1>3, <1>4, FS_Injection DEF OneOwner, Bijection

\* What the prepared trees own is neither freed nor lost, and all that is not.
LEMMA OwnersFollow ==
    ASSUME SInv, OInv
    PROVE  PagesHaveOneOwner /\ PagesAreAccountedFor
<1>1. OneOwner(file, Old) /\ refreed = {}
  <2> DEFINE hs == Old
  <2>1. FileOk(file) /\ Unshared(file, hs) /\ DOMAIN hs = {1, 2} /\ \A i \in {1, 2} : RootOk(file, hs[i])
    BY DEF SInv, RootsOk, OInv, Old
  <2> HIDE DEF hs
  <2>2. OneOwner(file, hs) BY <2>1, CountedOwners
  <2> QED BY <2>2 DEF hs, OInv
<1>2. ASSUME phase = "prepared"
      PROVE  /\ OneOwner(file, New) /\ OwnedBy(file, New) \cap freed = {}
             /\ DOMAIN file = OwnedBy(file, New) \cup freed \cup lost \cup dropped
  <2> DEFINE lo == lost \cup dropped
             hs == New
  <2>1. Settled(file, New, NewChain, todo, promoted, freed, lo) BY <1>2, PreparedOwns
  <2>2. Settled(file, hs, NewChain, todo, promoted, freed, lo) /\ DOMAIN hs = {1, 2} BY <2>1 DEF New
  <2> HIDE DEF lo, hs
  <2>6. /\ Unshared(file, hs)
        /\ \A q : q \in OwnedBy(file, hs) <=> q \in DOMAIN file \ (freed \cup lo)
    BY <2>2, SettledOwners
  <2>3. OneOwner(file, hs) BY <2>2, <2>6, CountedOwners DEF Settled
  <2>4. freed \subseteq DOMAIN file /\ \A q \in lo : q \in DOMAIN file
    BY <2>2, FreedPages DEF Settled, Owning, IsOverflow
  <2>5. OwnedBy(file, hs) \cap freed = {} /\ DOMAIN file = OwnedBy(file, hs) \cup freed \cup lo
    BY <2>4, <2>6
  <2> QED BY <2>3, <2>5 DEF hs, lo
<1>3. ASSUME phase = "idle"
      PROVE  DOMAIN file = OwnedBy(file, Old) \cup lost
  <2>1. /\ leaf = <<>> /\ chain = NewChain /\ hand = <<>> /\ pairs = {} /\ reading = <<>> /\ todo = <<>>
        /\ promoted = {} /\ freed = {} /\ dropped = {}
    BY <1>3 DEF SInv, PhaseOk, Unmerged
  <2>2. Heads = <<upper, lower>> /\ lost \cup dropped = lost BY <1>3, <2>1 DEF Heads
  <2>3. Owning(file, <<upper, lower>>, <<>>, NewChain, <<>>, {}, <<>>, <<>>, {}, {}, lost)
    BY <2>1, <2>2 DEF OInv, Holding
  <2>4. FileOk(file) /\ RootOk(file, upper) /\ RootOk(file, lower) BY DEF SInv, RootsOk
  <2> QED BY <2>3, <2>4, SettledOwn DEF Old
<1> QED BY <1>1, <1>2, <1>3 DEF PagesHaveOneOwner, PagesAreAccountedFor

\* The inductive invariant holds: every page of the file is sound and has one holder.
THEOREM TreesInvariant == Spec => []IInv
<1>1. Init => IInv BY NothingYet, NobodyYet DEF IInv
<1>2. IInv /\ [Next]_vars => IInv' BY StepKeeps, StutterKeeps DEF IInv
<1> QED BY <1>1, <1>2, PTL DEF Spec

\* TreesAreSound: in every tree the keys ascend, pages are not larger than they may be,
\* overflows are there and parents say of their children what is so, whatever was
\* promoted, kept, rewritten or dropped (write_merge, write_survivors).
THEOREM TreesAreAlwaysSound == Spec => []TreesAreSound
<1>1. IInv => TreesAreSound BY SoundFollows DEF IInv
<1> QED BY <1>1, TreesInvariant, PTL

\* PagesHaveOneOwner: no page is in two trees or twice in one, none that the new trees
\* need is freed, and none is freed twice (merge_rewrite_parent, prepare_merge).
THEOREM PagesAlwaysHaveOneOwner == Spec => []PagesHaveOneOwner
<1>1. IInv => PagesHaveOneOwner BY OwnersFollow DEF IInv
<1> QED BY <1>1, TreesInvariant, PTL

\* PagesAreAccountedFor: every page is needed by a tree, freed by the merge, or the key
\* of a dropped tombstone; nothing leaks but these (the assertions of prepare_merge).
THEOREM PagesAreAlwaysAccountedFor == Spec => []PagesAreAccountedFor
<1>1. IInv => PagesAreAccountedFor BY OwnersFollow DEF IInv
<1> QED BY <1>1, TreesInvariant, PTL

\* Who reads a segment is not disturbed by a merge: until it is committed no page of
\* the trees it takes its pairs and nodes from is changed or given back.
THEOREM ReadersAreNotDisturbed == Spec => [][CommitMerge \/ TreesUnchanged]_vars
<1>1. IInv /\ [Next]_vars => [CommitMerge \/ TreesUnchanged]_vars
  <2> SUFFICES ASSUME IInv, Next
               PROVE  CommitMerge \/ TreesUnchanged
    OBVIOUS
  <2>1. SInv' /\ (Extends(file', file) \/ CommitMerge) BY StepKeeps DEF IInv
  <2>2. Forest(file) /\ Forest(file') BY <2>1 DEF IInv, SInv, FileOk
  <2>3. \A root \in {upper, lower} \ {NoPage} : root \in DOMAIN file
    BY DEF IInv, SInv, RootsOk, RootOk, IsNode, IsLeaf, IsInner
  <2> QED BY <2>1, <2>2, <2>3, TreesStay DEF TreesUnchanged
<1> QED BY <1>1, TreesInvariant, PTL DEF Spec

\* The pairs of a tree do not change when pages are added.
LEMMA ContentsStay ==
    ASSUME NEW f, NEW g, Forest(f), Forest(g), Extends(g, f), NEW root, RootOk(f, root)
    PROVE  Contents(g, root) = Contents(f, root)
<1> DEFINE Under(h) == ItemsOf(h, {n \in Nodes(h, root) : h[n].depth = 0})
<1>1. Under(g) = Under(f)
  <2>1. CASE root = NoPage BY <2>1 DEF Nodes, ItemsOf
  <2>2. CASE root # NoPage
    <3>1. root \in DOMAIN f BY <2>2 DEF RootOk, IsNode, IsLeaf, IsInner
    <3>2. Under(f) = PairsUnder(f, root) /\ Under(g) = PairsUnder(g, root)
      BY <2>2 DEF PairsUnder, Nodes
    <3> QED BY <3>1, <3>2, TreesStay
  <2> QED BY <2>1, <2>2
<1> DEFINE Of(S) == [k \in Keys |-> IF {p \in S : p.key = k} = {} THEN Absent
                                    ELSE (CHOOSE p \in {p \in S : p.key = k} : TRUE).value]
<1>2. Contents(f, root) = Of(Under(f)) /\ Contents(g, root) = Of(Under(g)) BY DEF Contents
<1> HIDE DEF Under, Of
<1> QED BY <1>1, <1>2

\* HeldIsContents: what ImplementsSegments compares with Segments is what cursors find
\* in the trees, also after pages were added and after freed ones were given back.
THEOREM HeldIsAlwaysContents == Spec => []HeldIsContents
<1>1. Init => HeldIsContents
  <2> SUFFICES ASSUME Init
               PROVE  HeldIsContents
    OBVIOUS
  <2>1. Contents(file, NoPage) = NoPairs BY DEF Contents, Nodes, ItemsOf, NoPairs
  <2> QED BY <2>1 DEF Init, HeldIsContents
<1>2. IInv /\ HeldIsContents /\ [Next]_vars => HeldIsContents'
  <2> SUFFICES ASSUME IInv, HeldIsContents, [Next]_vars
               PROVE  HeldIsContents'
    OBVIOUS
  <2>1. CASE UNCHANGED vars BY <2>1 DEF vars, segments, HeldIsContents
  <2>2. ASSUME Next
        PROVE  SInv' /\ (Extends(file', file) \/ CommitMerge) /\ Forest(file) /\ Forest(file')
    BY <2>2, StepKeeps DEF IInv, SInv, FileOk
  <2>3. RootOk(file, upper) /\ RootOk(file, lower) BY DEF IInv, SInv, RootsOk
  <2>4. CASE EndWrite
    <3>1. /\ file' = file /\ upper' = Root /\ lower' = lower
          /\ held' = [held EXCEPT !.upper = Contents(file, Root)]
      BY <2>4 DEF EndWrite
    <3> QED BY <3>1 DEF HeldIsContents
  <2>5. CASE CommitMerge
    <3>1. /\ file' = [q \in DOMAIN file \ freed |-> file[q]] /\ upper' = pending.upper /\ lower' = pending.lower
          /\ held' = [upper |-> Contents(file, pending.upper), lower |-> Contents(file, pending.lower)]
      BY <2>5 DEF CommitMerge
    <3>2. Extends(file, file') BY <3>1 DEF Extends
    <3>3. SInv' /\ Forest(file) /\ Forest(file') BY <2>2, <2>5 DEF Next
    <3>4. RootOk(file', upper') /\ RootOk(file', lower') BY <3>3 DEF SInv, RootsOk
    <3>5. Contents(file, upper') = Contents(file', upper') /\ Contents(file, lower') = Contents(file', lower')
      BY <3>2, <3>3, <3>4, ContentsStay
    <3> QED BY <3>1, <3>5 DEF HeldIsContents
  <2>6. CASE Next /\ ~EndWrite /\ ~CommitMerge
    <3>1. UNCHANGED <<upper, lower, held>>
      BY <2>6 DEF Next, Write, BeginMerge, BeginSurvivors, EndMerge, TakeRest, RewriteLeaf, TakeBetween, Replace, KeepPair,
                  RecycleChildren, KeepChild, RewriteChild, SkipLeaf, AddChild, FlushLeaf, FlushPage, segments
    <3>2. Contents(file', upper) = Contents(file, upper) /\ Contents(file', lower) = Contents(file, lower)
      BY <2>2, <2>3, <2>6, ContentsStay
    <3> QED BY <3>1, <3>2 DEF HeldIsContents
  <2> QED BY <2>1, <2>4, <2>5, <2>6
<1> QED BY <1>1, <1>2, TreesInvariant, PTL DEF Spec

\* CursorSpec implements Spec: cursors change no page, so that all of this also holds
\* while they are used.
THEOREM CursorsChangeNothing == CursorSpec => Spec
<1>1. CursorInit => Init BY DEF CursorInit
<1>2. [CursorNext]_allVars => [Next]_vars
  BY DEF CursorNext, allVars, OpenCursor, FirstKey, LastKey, NextKey, PrevKey, Seek, Moves
<1> QED BY <1>1, <1>2, PTL DEF CursorSpec, Spec

=============================================================================
