--------------------------- MODULE Cursors_proofs ---------------------------
(***************************************************************************)
(* Proofs about Cursors: over any finite set of keys, any number of        *)
(* segments and any calls.                                                 *)
(***************************************************************************)
EXTENDS Cursors, FiniteSetTheorems, TLAPS

-----------------------------------------------------------------------------
(* The inductive invariant.                                                *)

\* What a MultiCursor consists of.
Place == Keys \cup {Nowhere}
Entry == [sub : Seg, flag : {"none", "equal", "greater"}]
Direction == {"forward", "backward", "wandering"}

Multi == [subs : [Seg -> Place], sorted : [Seg -> Entry], cur : Seg \cup {NoCursor},
          dir : Direction, panicked : BOOLEAN]

\* The order of the cursors on the segments has each of them once.
Arranged(s) ==
    /\ s \in [Seg -> Entry]
    /\ \A i, j \in Seg : s[i].sub = s[j].sub => i = j
    /\ \A n \in Seg : \E j \in Seg : s[j].sub = n

\* Each cursor on a segment is on a key of that segment.
SoundMulti(m) ==
    /\ m \in Multi
    /\ Arranged(m.sorted)
    /\ \A i \in Seg : m.subs[i] \in KeysOf(i) \cup {Nowhere}
    /\ ~m.panicked

\* The current cursor is the first, the newest, of those that have its key.
OnNewest(m) == \A j \in Seg : j < m.cur => MultiKey(m) \notin KeysOf(j)

\* Where the others are when the cursor went forward, and that the flags find those
\* that have the same key.
GoesForward(m) ==
    /\ \A i \in Seg : m.subs[i] = SubSeek(i, MultiKey(m), "GE")
    /\ m.cur = m.sorted[1].sub
    /\ EqualRun(m) = {i \in Seg \ {m.cur} : MultiKey(m) \in KeysOf(i)}

\* Where the others are when the cursor went backward.
GoesBackward(m) == \A i \in Seg : m.subs[i] = SubSeek(i, MultiKey(m), "LE")

\* A direction is a promise for as long as the cursor is valid.
Placed(m) ==
    MultiValid(m) =>
        /\ OnNewest(m)
        /\ m.dir = "forward" => GoesForward(m)
        /\ m.dir = "backward" => GoesBackward(m)

SoundCursor(m) == SoundMulti(m) /\ Placed(m)

\* What is open, and that nothing has moved before the first call.
Opened ==
    /\ segs \in SegmentLists
    /\ kind \in Kinds \cup {"closed"}
    /\ kind # "closed" => bounds \in BoundsFor(kind)
    /\ kind = "closed" => call = <<"open">>
    /\ call = <<"open">> => multi = NewMulti /\ eaten = {}

\* A merge goes forward all the time; over one segment it sorts nothing.
MergesForward ==
    kind = "merge" /\ call # <<"open">> =>
        IF Len(segs) > 1 THEN MultiValid(multi) => multi.dir = "forward"
        ELSE multi.dir = "wandering"

IInv == Opened /\ SoundCursor(multi) /\ MergesForward /\ EatenIsShadowed

-----------------------------------------------------------------------------
(* Numbers, and what loops compute.                                        *)

\* Among finitely many integers there is a least one.
LEMMA LeastOfFinite ==
    ASSUME NEW S \in SUBSET Int, IsFiniteSet(S), S # {}
    PROVE  Least(S) \in S /\ \A k \in S : Least(S) <= k
<1> DEFINE T == {{l \in S : l <= k} : k \in S}
<1>1. T \subseteq FiniteSubsetsOf(S) /\ T # {}
  <2>1. \A k \in S : {l \in S : l <= k} \in SUBSET S /\ IsFiniteSet({l \in S : l <= k})
    BY FS_Subset
  <2> QED
    BY <2>1 DEF FiniteSubsetsOf
<1>2. PICK X \in T : \A Y \in T : <<Y, X>> \notin StrictSubsetOrdering(S)
  BY <1>1, FS_StrictSubsetOrderingWellFounded, WFMin, Zenon
<1>3. PICK k \in S : X = {l \in S : l <= k}
  OBVIOUS
<1>4. ASSUME NEW m \in S, m < k
      PROVE  FALSE
  <2>1. k \in X /\ k \notin {l \in S : l <= m} /\ {l \in S : l <= m} \subseteq X
    <3>1. k \in Int /\ m \in Int /\ \A l \in S : l \in Int
      OBVIOUS
    <3>2. \A l \in S : l <= m => l <= k
      BY <1>4, <3>1
    <3>3. k <= k /\ ~(k <= m)
      BY <1>4, <3>1
    <3> QED
      BY <1>3, <3>2, <3>3
  <2>2. <<{l \in S : l <= m}, X>> \in StrictSubsetOrdering(S)
    BY <1>3, <2>1 DEF StrictSubsetOrdering
  <2> QED
    BY <1>2, <2>2
<1>5. \A m \in S : k <= m
  BY <1>4
<1> QED
  BY <1>5 DEF Least

\* And a greatest.
LEMMA GreatestOfFinite ==
    ASSUME NEW S \in SUBSET Int, IsFiniteSet(S), S # {}
    PROVE  Greatest(S) \in S /\ \A k \in S : k <= Greatest(S)
<1> DEFINE T == {{l \in S : l >= k} : k \in S}
<1>1. T \subseteq FiniteSubsetsOf(S) /\ T # {}
  <2>1. \A k \in S : {l \in S : l >= k} \in SUBSET S /\ IsFiniteSet({l \in S : l >= k})
    BY FS_Subset
  <2> QED
    BY <2>1 DEF FiniteSubsetsOf
<1>2. PICK X \in T : \A Y \in T : <<Y, X>> \notin StrictSubsetOrdering(S)
  BY <1>1, FS_StrictSubsetOrderingWellFounded, WFMin, Zenon
<1>3. PICK k \in S : X = {l \in S : l >= k}
  OBVIOUS
<1>4. ASSUME NEW m \in S, m > k
      PROVE  FALSE
  <2>1. k \in X /\ k \notin {l \in S : l >= m} /\ {l \in S : l >= m} \subseteq X
    <3>1. k \in Int /\ m \in Int /\ \A l \in S : l \in Int
      OBVIOUS
    <3>2. \A l \in S : l >= m => l >= k
      BY <1>4, <3>1
    <3>3. k >= k /\ ~(k >= m)
      BY <1>4, <3>1
    <3> QED
      BY <1>3, <3>2, <3>3
  <2>2. <<{l \in S : l >= m}, X>> \in StrictSubsetOrdering(S)
    BY <1>3, <2>1 DEF StrictSubsetOrdering
  <2> QED
    BY <1>2, <2>2
<1>5. \A m \in S : k >= m
  BY <1>4
<1>6. Greatest(S) = CHOOSE l \in S : \A m \in S : l >= m
  BY DEF Greatest
<1>7. Greatest(S) \in S /\ \A m \in S : Greatest(S) >= m
  BY <1>5, <1>6
<1> QED
  BY <1>7

\* The keys of a segment, and of all.
LEMMA KeyFacts ==
    /\ Keys \subseteq Int /\ IsFiniteSet(Keys) /\ Nowhere \notin Keys
    /\ \A S \in SUBSET Keys : IsFiniteSet(S) /\ S \subseteq Int
    /\ \A i : KeysOf(i) \subseteq Keys
BY CursorsAssumption, FS_Subset DEF KeysOf

\* Which key is the least of some.
LEMMA LeastKey ==
    ASSUME NEW S \in SUBSET Keys
    PROVE  /\ S = {} => Least(S) = Nowhere
           /\ S # {} => Least(S) \in S /\ Least(S) # Nowhere /\ \A k \in S : Least(S) <= k
           /\ \A k \in S : (\A l \in S : k <= l) => Least(S) = k
<1>1. S = {} => Least(S) = Nowhere
  BY DEF Least
<1>2. S # {} => Least(S) \in S /\ Least(S) # Nowhere /\ \A k \in S : Least(S) <= k
  BY KeyFacts, LeastOfFinite
<1>3. ASSUME NEW k \in S, \A l \in S : k <= l
      PROVE  Least(S) = k
  <2> DEFINE x == Least(S)
  <2>1. x \in S /\ \A l \in S : x <= l
    BY <1>2
  <2> HIDE DEF x
  <2>2. x \in Int /\ k \in Int
    BY <2>1, KeyFacts
  <2>3. x <= k /\ k <= x
    BY <1>3, <2>1
  <2> QED
    BY <2>2, <2>3 DEF x
<1> QED
  BY <1>1, <1>2, <1>3

\* Which key is the greatest of some.
LEMMA GreatestKey ==
    ASSUME NEW S \in SUBSET Keys
    PROVE  /\ S = {} => Greatest(S) = Nowhere
           /\ S # {} => Greatest(S) \in S /\ Greatest(S) # Nowhere /\ \A k \in S : k <= Greatest(S)
           /\ \A k \in S : (\A l \in S : l <= k) => Greatest(S) = k
<1>1. S = {} => Greatest(S) = Nowhere
  BY DEF Greatest
<1>2. S # {} => Greatest(S) \in S /\ Greatest(S) # Nowhere /\ \A k \in S : k <= Greatest(S)
  BY KeyFacts, GreatestOfFinite
<1>3. ASSUME NEW k \in S, \A l \in S : l <= k
      PROVE  Greatest(S) = k
  <2> DEFINE x == Greatest(S)
  <2>1. x \in S /\ \A l \in S : l <= x
    BY <1>2
  <2> HIDE DEF x
  <2>2. x \in Int /\ k \in Int
    BY <2>1, KeyFacts
  <2>3. x <= k /\ k <= x
    BY <1>3, <2>1
  <2> QED
    BY <2>2, <2>3 DEF x
<1> QED
  BY <1>1, <1>2, <1>3

\* A loop over the numbers from b to N, that starts with a and goes from x to g[<<n, x>>]
\* in round n.
AreSteps(g, X) == g \in [Nat \X X -> X]
IsLoopOf(f, X, a, b, N, g) ==
    f \in [b..N -> X] /\ f[b] = a /\ \A n \in b + 1..N : f[n] = g[<<n, f[n - 1]>>]

\* There is one.
LEMMA LoopExists ==
    ASSUME NEW X, NEW a \in X, NEW b \in Nat, NEW N \in Nat, b <= N, NEW g, AreSteps(g, X)
    PROVE  \E f : IsLoopOf(f, X, a, b, N, g)
<1> DEFINE IsLoop(f, n) ==
               f \in [b..n -> X] /\ f[b] = a /\ \A i \in b + 1..n : f[i] = g[<<i, f[i - 1]>>]
           Without == {n \in b..N : ~ \E f : IsLoop(f, n)}
<1>1. ASSUME Without # {}
      PROVE  FALSE
  <2>1. Without \in SUBSET Int /\ IsFiniteSet(Without)
    <3>1. IsFiniteSet(b..N)
      BY FS_Interval
    <3>2. Without \subseteq b..N
      OBVIOUS
    <3> QED
      BY <3>1, <3>2, FS_Subset
  <2>2. PICK n \in Without : \A k \in Without : n <= k
    <3> HIDE DEF Without
    <3> QED
      BY <1>1, <2>1, LeastOfFinite
  <2>3. n \in b..N /\ ~ \E f : IsLoop(f, n)
    OBVIOUS
  <2>4. CASE n = b
    <3>1. IsLoop([i \in b..b |-> a], b)
      OBVIOUS
    <3> QED
      BY <2>3, <2>4, <3>1
  <2>5. CASE n # b
    <3>1. n - 1 \in b..N /\ n - 1 \notin Without
      BY <2>2, <2>3, <2>5
    <3>2. PICK f : IsLoop(f, n - 1)
      BY <3>1
    <3> DEFINE h == [i \in b..n |-> IF i = n THEN g[<<n, f[n - 1]>>] ELSE f[i]]
    <3>3. f[n - 1] \in X /\ n \in Nat
      BY <2>3, <2>5, <3>2
    <3>4. g[<<n, f[n - 1]>>] \in X
      BY <3>3 DEF AreSteps
    <3>5. h \in [b..n -> X]
      BY <2>3, <3>2, <3>4
    <3>6. h[b] = a
      BY <2>3, <2>5, <3>2
    <3>7. \A i \in b + 1..n : h[i] = g[<<i, h[i - 1]>>]
      <4> TAKE i \in b + 1..n
      <4>1. CASE i = n
        <5>1. h[n] = g[<<n, f[n - 1]>>] /\ h[n - 1] = f[n - 1]
          BY <2>3, <2>5
        <5> QED
          BY <4>1, <5>1
      <4>2. CASE i # n
        <5>1. i \in b + 1..n - 1 /\ i \in b..n /\ i - 1 \in b..n /\ i - 1 # n
          BY <2>3, <4>2
        <5>2. h[i] = f[i] /\ h[i - 1] = f[i - 1]
          BY <4>2, <5>1
        <5>3. f[i] = g[<<i, f[i - 1]>>]
          BY <3>2, <5>1
        <5> QED
          BY <5>2, <5>3
      <4> QED
        BY <4>1, <4>2
    <3>8. IsLoop(h, n)
      <4> HIDE DEF h
      <4> QED
        BY <3>5, <3>6, <3>7
    <3> QED
      BY <2>3, <3>8
  <2> QED
    BY <2>4, <2>5
<1>2. N \in b..N
  OBVIOUS
<1>3. \E f : IsLoop(f, N)
  BY <1>1, <1>2
<1> QED
  BY <1>3 DEF IsLoopOf

-----------------------------------------------------------------------------
(* The cursors on the segments.                                            *)

\* The segments are numbered from 1, newest first.
LEMMA SegFacts ==
    ASSUME segs \in SegmentLists
    PROVE  /\ Seg = 1..Len(segs) /\ Len(segs) \in Nat \ {0}
           /\ 1 \in Seg /\ Seg \subseteq Int /\ IsFiniteSet(Seg) /\ NoCursor \notin Seg
           /\ \A i \in Seg : \A k \in Keys : segs[i][k] \in {Live, Tombstone, Absent}
<1>1. segs \in Seq([Keys -> {Live, Tombstone, Absent}]) /\ segs # <<>>
  BY CursorsAssumption
<1>2. Len(segs) \in Nat \ {0} /\ Seg = 1..Len(segs)
  BY <1>1 DEF Seg
<1>3. IsFiniteSet(1..Len(segs))
  BY <1>2, FS_Interval
<1>4. \A i \in Seg : segs[i] \in [Keys -> {Live, Tombstone, Absent}]
  BY <1>1, <1>2
<1> QED
  BY <1>2, <1>3, <1>4 DEF NoCursor

\* x is the least of S, or nowhere when there is none.
IsLeastOf(x, S) == (S = {} /\ x = Nowhere) \/ (x \in S /\ \A l \in S : x <= l)
IsGreatestOf(x, S) == (S = {} /\ x = Nowhere) \/ (x \in S /\ \A l \in S : l <= x)

\* A least key is the only one.
LEMMA IsLeast ==
    ASSUME NEW S \in SUBSET Keys
    PROVE  /\ \A x : x = Least(S) <=> IsLeastOf(x, S)
           /\ \A x : x = Greatest(S) <=> IsGreatestOf(x, S)
BY LeastKey, GreatestKey DEF IsLeastOf, IsGreatestOf

\* What is left of a segment on either side of a key.
KeysFrom(i, k) == {m \in KeysOf(i) : m >= k}
KeysAfter(i, k) == {m \in KeysOf(i) : m > k}
KeysUpTo(i, k) == {m \in KeysOf(i) : m <= k}
KeysBefore(i, k) == {m \in KeysOf(i) : m < k}

\* Where seek, next and prev of a cursor on a segment go.
LEMMA SubGoes ==
    ASSUME NEW i, NEW k
    PROVE  /\ \A x : x = SubSeek(i, k, "GE") <=> IsLeastOf(x, KeysFrom(i, k))
           /\ \A x : x = SubSeek(i, k, "LE") <=> IsGreatestOf(x, KeysUpTo(i, k))
           /\ \A x : x = SubNext(i, k) <=> IsLeastOf(x, KeysAfter(i, k))
           /\ \A x : x = SubPrev(i, k) <=> IsGreatestOf(x, KeysBefore(i, k))
           /\ SubSeek(i, k, "EQ") = IF k \in KeysOf(i) THEN k ELSE Nowhere
<1>1. /\ KeysFrom(i, k) \in SUBSET Keys /\ KeysAfter(i, k) \in SUBSET Keys
      /\ KeysUpTo(i, k) \in SUBSET Keys /\ KeysBefore(i, k) \in SUBSET Keys
  BY KeyFacts DEF KeysFrom, KeysAfter, KeysUpTo, KeysBefore
<1>2. /\ SubSeek(i, k, "GE") = Least(KeysFrom(i, k))
      /\ SubSeek(i, k, "LE") = Greatest(KeysUpTo(i, k))
      /\ SubSeek(i, k, "EQ") = IF k \in KeysOf(i) THEN k ELSE Nowhere
  BY DEF SubSeek, KeysFrom, KeysUpTo
<1>3. SubNext(i, k) = Least(KeysAfter(i, k)) /\ SubPrev(i, k) = Greatest(KeysBefore(i, k))
  BY DEF SubNext, SubPrev, KeysAfter, KeysBefore
<1> QED
  BY <1>1, <1>2, <1>3, IsLeast

\* They go to keys of the segment.
LEMMA SubStays ==
    ASSUME NEW i, NEW k
    PROVE  /\ SubSeek(i, k, "GE") \in KeysOf(i) \cup {Nowhere}
           /\ SubSeek(i, k, "LE") \in KeysOf(i) \cup {Nowhere}
           /\ SubSeek(i, k, "EQ") \in KeysOf(i) \cup {Nowhere}
           /\ SubNext(i, k) \in KeysOf(i) \cup {Nowhere}
           /\ SubPrev(i, k) \in KeysOf(i) \cup {Nowhere}
<1>1. IsLeastOf(SubSeek(i, k, "GE"), KeysFrom(i, k)) /\ IsGreatestOf(SubSeek(i, k, "LE"), KeysUpTo(i, k))
  BY SubGoes
<1>2. IsLeastOf(SubNext(i, k), KeysAfter(i, k)) /\ IsGreatestOf(SubPrev(i, k), KeysBefore(i, k))
  BY SubGoes
<1>3. SubSeek(i, k, "EQ") \in KeysOf(i) \cup {Nowhere}
  BY SubGoes
<1> QED
  BY <1>1, <1>2, <1>3 DEF IsLeastOf, IsGreatestOf, KeysFrom, KeysUpTo, KeysAfter, KeysBefore

-----------------------------------------------------------------------------
(* The sort.                                                               *)

\* Two cursors that have not ended are in the order of their keys, or of their
\* segments; those that have ended come last.
LEMMA BeforeOrder ==
    ASSUME segs \in SegmentLists, NEW subs \in [Seg -> Place], NEW wantMax \in BOOLEAN
    PROVE  /\ \A a, b \in Seg : a # b => Before(subs, a, b, wantMax) \/ Before(subs, b, a, wantMax)
           /\ \A a, b \in Seg : Before(subs, a, b, wantMax) => ~Before(subs, b, a, wantMax) /\ a # b
           /\ \A a, b, c \in Seg :
                  Before(subs, a, b, wantMax) /\ Before(subs, b, c, wantMax)
                      => Before(subs, a, c, wantMax)
<1>1. Seg \subseteq Int
  BY SegFacts
<1>2. \A a \in Seg : subs[a] = Nowhere \/ (subs[a] \in Int /\ subs[a] # Nowhere)
  BY KeyFacts DEF Place
<1>3. CASE wantMax = TRUE
  BY <1>1, <1>2, <1>3 DEF Before
<1>4. CASE wantMax = FALSE
  BY <1>1, <1>2, <1>4 DEF Before
<1> QED
  BY <1>3, <1>4

\* A flag is a flag.
LEMMA FlagType == \A subs, n, prev : Flag(subs, n, prev) \in {"none", "equal", "greater"}
BY DEF Flag

\* Where the sort puts an entry.
LEMMA PlaceFound ==
    ASSUME segs \in SegmentLists, NEW subs, NEW s, NEW j \in Seg, NEW wantMax
    PROVE  /\ PlaceOf(subs, s, j, wantMax) \in 1..j
           /\ \A i \in PlaceOf(subs, s, j, wantMax)..j - 1 :
                  Before(subs, s[j].sub, s[i].sub, wantMax)
           /\ \/ PlaceOf(subs, s, j, wantMax) = 1
              \/ ~Before(subs, s[j].sub, s[PlaceOf(subs, s, j, wantMax) - 1].sub, wantMax)
<1> DEFINE Passes(h) == \A i \in h..j - 1 : Before(subs, s[j].sub, s[i].sub, wantMax)
           places == {h \in 1..j : Passes(h)}
           Stops(h) == h = 1 \/ ~Before(subs, s[j].sub, s[h - 1].sub, wantMax)
<1>1. j \in Nat \ {0}
  BY SegFacts
<1>2. places \in SUBSET Int /\ IsFiniteSet(places) /\ j \in places
  <2>1. IsFiniteSet(1..j) /\ places \subseteq 1..j
    BY <1>1, FS_Interval
  <2>2. j \in places
    BY <1>1
  <2> QED
    BY <2>1, <2>2, FS_Subset
<1>3. PICK h \in places : \A i \in places : h <= i
  <2> HIDE DEF places
  <2> QED
    BY <1>2, LeastOfFinite
<1>4. h \in 1..j /\ Passes(h)
  BY <1>3
<1>5. Stops(h)
  <2> SUFFICES ASSUME h # 1, Before(subs, s[j].sub, s[h - 1].sub, wantMax)
               PROVE  FALSE
    OBVIOUS
  <2>1. h - 1 \in 1..j
    BY <1>1, <1>4
  <2>2. Passes(h - 1)
    <3> SUFFICES ASSUME NEW i \in h - 1..j - 1
                 PROVE  Before(subs, s[j].sub, s[i].sub, wantMax)
      OBVIOUS
    <3>1. i = h - 1 \/ i \in h..j - 1
      BY <1>1, <1>4
    <3> QED
      BY <1>4, <3>1
  <2>3. h - 1 \in places
    BY <2>1, <2>2
  <2> QED
    BY <1>1, <1>3, <1>4, <2>3
<1> DEFINE at == PlaceOf(subs, s, j, wantMax)
<1>6. at = CHOOSE x \in 1..j : Passes(x) /\ Stops(x)
  BY DEF PlaceOf
<1> HIDE DEF Passes, Stops, at
<1>7. at \in 1..j /\ Passes(at) /\ Stops(at)
  BY <1>4, <1>5, <1>6
<1> QED
  BY <1>7 DEF Passes, Stops, at

-----------------------------------------------------------------------------
(* The insertion sort.                                                     *)

\* What is at h after the entry at j was moved to at.
From(at, j, h) == IF h < at \/ h > j THEN h ELSE IF h > at THEN h - 1 ELSE j

\* Moving an entry loses none and has none twice.
LEMMA FromIsOneToOne ==
    ASSUME NEW N \in Nat, NEW j \in 1..N, NEW at \in 1..j
    PROVE  /\ \A h \in 1..N : From(at, j, h) \in 1..N
           /\ \A h, i \in 1..N : From(at, j, h) = From(at, j, i) => h = i
           /\ \A n \in 1..N : \E h \in 1..N : From(at, j, h) = n
<1>1. \A h \in 1..N : From(at, j, h) \in 1..N
  BY DEF From
<1>2. \A h, i \in 1..N : From(at, j, h) = From(at, j, i) => h = i
  BY DEF From
<1>3. \A n \in 1..N : \E h \in 1..N : From(at, j, h) = n
  <2> TAKE n \in 1..N
  <2>1. CASE n < at \/ n > j
    <3>1. From(at, j, n) = n
      BY <2>1 DEF From
    <3> QED
      BY <3>1
  <2>2. CASE n = j
    <3>1. From(at, j, at) = j /\ at \in 1..N
      BY DEF From
    <3> QED
      BY <2>2, <3>1
  <2>3. CASE n >= at /\ n < j
    <3>1. From(at, j, n + 1) = n /\ n + 1 \in 1..N
      BY <2>3 DEF From
    <3> QED
      BY <3>1
  <2> QED
    BY <2>1, <2>2, <2>3
<1> QED
  BY <1>1, <1>2, <1>3

\* The entries up to j are in order.
InOrder(subs, s, j, wantMax) ==
    \A h, i \in Seg : h < i /\ i <= j => Before(subs, s[h].sub, s[i].sub, wantMax)

\* Each flag is how the entry is related to one before it, if not the last before it.
Flagged(subs, s, j) ==
    \A i \in Seg : 1 < i /\ i <= j =>
        \E h \in Seg : h < i /\ s[i].flag = Flag(subs, s[i].sub, s[h].sub)

SortedTo(subs, s, j, wantMax) ==
    Arranged(s) /\ InOrder(subs, s, j, wantMax) /\ Flagged(subs, s, j) /\ s[1].flag = "none"

\* t[h] is what a round that moves the entry at j to at makes of the entries s.
IsEntry(subs, s, j, at, t, h) ==
    /\ t[h].sub = s[From(at, j, h)].sub
    /\ h < at \/ h > j => t[h] = s[h]
    /\ at < h /\ h <= j => t[h].flag = Flag(subs, t[h].sub, s[j].sub)
    /\ h = at => t[h].flag = IF at = 1 THEN "none" ELSE Flag(subs, t[h].sub, s[at - 1].sub)
    /\ ~(h < at \/ h > j) => t[h] = [sub |-> t[h].sub, flag |-> t[h].flag]

\* What a round makes of the entries.
LEMMA InsertedEntries ==
    ASSUME segs \in SegmentLists, NEW subs, NEW s, NEW j \in Seg, NEW wantMax,
           NEW h \in Seg
    PROVE  IsEntry(subs, s, j, PlaceOf(subs, s, j, wantMax), Inserted(subs, s, j, wantMax), h)
<1> DEFINE at == PlaceOf(subs, s, j, wantMax)
           t == Inserted(subs, s, j, wantMax)
<1>1. at \in 1..j /\ j \in Nat /\ h \in Nat
  BY PlaceFound, SegFacts
<1>2. t[h] = IF h < at \/ h > j THEN s[h]
             ELSE IF h > at THEN [sub |-> s[h - 1].sub, flag |-> Flag(subs, s[h - 1].sub, s[j].sub)]
             ELSE [sub |-> s[j].sub,
                   flag |-> IF at = 1 THEN "none" ELSE Flag(subs, s[j].sub, s[at - 1].sub)]
  BY DEF Inserted
<1> HIDE DEF at, t
<1>3. ASSUME h < at \/ h > j
      PROVE  IsEntry(subs, s, j, at, t, h)
  BY <1>1, <1>2, <1>3 DEF From, IsEntry
<1>4. ASSUME at < h /\ h <= j
      PROVE  IsEntry(subs, s, j, at, t, h)
  <2>1. t[h] = [sub |-> s[h - 1].sub, flag |-> Flag(subs, s[h - 1].sub, s[j].sub)]
    BY <1>1, <1>2, <1>4
  <2>2. From(at, j, h) = h - 1
    BY <1>1, <1>4 DEF From
  <2> QED
    BY <1>1, <1>4, <2>1, <2>2 DEF IsEntry
<1>5. ASSUME h = at
      PROVE  IsEntry(subs, s, j, at, t, h)
  <2>1. t[h] = [sub |-> s[j].sub,
                flag |-> IF at = 1 THEN "none" ELSE Flag(subs, s[j].sub, s[at - 1].sub)]
    BY <1>1, <1>2, <1>5
  <2>2. From(at, j, h) = j
    BY <1>1, <1>5 DEF From
  <2> QED
    BY <1>1, <1>5, <2>1, <2>2 DEF IsEntry
<1>6. IsEntry(subs, s, j, at, t, h)
  BY <1>1, <1>3, <1>4, <1>5
<1> QED
  BY <1>6 DEF at, t

\* A round keeps each cursor once.
LEMMA InsertedArranged ==
    ASSUME segs \in SegmentLists, NEW subs, NEW s, Arranged(s), NEW j \in Seg, NEW wantMax
    PROVE  Arranged(Inserted(subs, s, j, wantMax))
<1> DEFINE at == PlaceOf(subs, s, j, wantMax)
           t == Inserted(subs, s, j, wantMax)
<1>1. Seg = 1..Len(segs) /\ Len(segs) \in Nat /\ j \in 1..Len(segs) /\ at \in 1..j
  BY PlaceFound, SegFacts
<1>2. \A h \in Seg : IsEntry(subs, s, j, at, t, h)
  BY InsertedEntries
<1>3. DOMAIN t = Seg /\ t = [i \in Seg |-> t[i]]
  BY DEF Inserted
<1> HIDE DEF at, t
<1>4. /\ \A h \in Seg : From(at, j, h) \in Seg
      /\ \A h, i \in Seg : From(at, j, h) = From(at, j, i) => h = i
      /\ \A n \in Seg : \E h \in Seg : From(at, j, h) = n
  <2> DEFINE N == Len(segs)
  <2>1. N \in Nat /\ j \in 1..N /\ at \in 1..j /\ Seg = 1..N
    BY <1>1
  <2> HIDE DEF N
  <2> QED
    <3>1. \A h \in 1..N : From(at, j, h) \in 1..N
      BY <2>1, FromIsOneToOne
    <3>2. \A h, i \in 1..N : From(at, j, h) = From(at, j, i) => h = i
      BY <2>1, FromIsOneToOne
    <3>3. \A n \in 1..N : \E h \in 1..N : From(at, j, h) = n
      BY <2>1, FromIsOneToOne
    <3> QED
      BY <2>1, <3>1, <3>2, <3>3, Zenon
<1>5. ASSUME NEW h \in Seg
      PROVE  t[h] \in Entry
  <2>1. s[h] \in Entry /\ s[From(at, j, h)].sub \in Seg
    BY <1>4 DEF Arranged, Entry
  <2>2. CASE h < at \/ h > j
    BY <1>2, <2>1, <2>2 DEF IsEntry
  <2>3. CASE ~(h < at \/ h > j)
    <3>1. t[h].flag \in {"none", "equal", "greater"}
      <4>1. CASE at < h /\ h <= j
        <5>1. t[h].flag = Flag(subs, t[h].sub, s[j].sub)
          BY <1>2, <4>1 DEF IsEntry
        <5> QED
          BY <5>1, FlagType
      <4>2. CASE h = at
        <5>1. t[h].flag = IF at = 1 THEN "none" ELSE Flag(subs, t[h].sub, s[at - 1].sub)
          BY <1>2, <4>2 DEF IsEntry
        <5> QED
          BY <5>1, FlagType
      <4> QED
        BY <1>1, <2>3, <4>1, <4>2
    <3>2. t[h].sub \in Seg
      BY <1>2, <2>1 DEF IsEntry
    <3>3. t[h] = [sub |-> t[h].sub, flag |-> t[h].flag]
      BY <1>2, <2>3 DEF IsEntry
    <3> QED
      BY <3>1, <3>2, <3>3 DEF Entry
  <2> QED
    BY <2>2, <2>3
<1>6. t \in [Seg -> Entry]
  BY <1>3, <1>5
<1>7. \A i, h \in Seg : t[i].sub = t[h].sub => i = h
  <2> TAKE i, h \in Seg
  <2>1. t[i].sub = s[From(at, j, i)].sub /\ t[h].sub = s[From(at, j, h)].sub
    BY <1>2 DEF IsEntry
  <2>2. \A a, b \in Seg : s[a].sub = s[b].sub => a = b
    BY DEF Arranged
  <2> QED
    BY <1>4, <2>1, <2>2, Zenon
<1>8. \A n \in Seg : \E h \in Seg : t[h].sub = n
  <2> TAKE n \in Seg
  <2>1. PICK i \in Seg : s[i].sub = n
    BY DEF Arranged
  <2>2. PICK h \in Seg : From(at, j, h) = i
    BY <1>4
  <2> QED
    BY <1>2, <2>1, <2>2 DEF IsEntry
<1>9. Arranged(t)
  BY <1>6, <1>7, <1>8 DEF Arranged
<1> QED
  BY <1>9 DEF t

\* A round puts one more entry into its place.
LEMMA InsertedSorted ==
    ASSUME segs \in SegmentLists, NEW subs \in [Seg -> Place], NEW wantMax \in BOOLEAN,
           NEW s, NEW j \in Seg, j # 1, SortedTo(subs, s, j - 1, wantMax)
    PROVE  SortedTo(subs, Inserted(subs, s, j, wantMax), j, wantMax)
<1> DEFINE at == PlaceOf(subs, s, j, wantMax)
           t == Inserted(subs, s, j, wantMax)
           B(a, b) == Before(subs, a, b, wantMax)
<1>1. Seg = 1..Len(segs) /\ Len(segs) \in Nat /\ j \in Nat /\ 1 < j /\ at \in 1..j /\ at \in Seg
  BY PlaceFound, SegFacts
<1>2. \A h \in Seg : IsEntry(subs, s, j, at, t, h)
  BY InsertedEntries
<1>3. Arranged(t)
  BY InsertedArranged DEF SortedTo
<1>4. /\ \A i \in at..j - 1 : B(s[j].sub, s[i].sub)
      /\ at = 1 \/ ~B(s[j].sub, s[at - 1].sub)
  BY PlaceFound
<1>5. /\ \A a, b \in Seg : a # b => B(a, b) \/ B(b, a)
      /\ \A a, b, c \in Seg : B(a, b) /\ B(b, c) => B(a, c)
  BY BeforeOrder
<1>6. /\ \A i \in Seg : s[i].sub \in Seg
      /\ \A i, h \in Seg : s[i].sub = s[h].sub => i = h
  BY DEF SortedTo, Arranged, Entry
<1>7. \A h, i \in Seg : h < i /\ i <= j - 1 => B(s[h].sub, s[i].sub)
  BY DEF SortedTo, InOrder
<1>8. \A i \in Seg : 1 < i /\ i <= j - 1 =>
          \E h \in Seg : h < i /\ s[i].flag = Flag(subs, s[i].sub, s[h].sub)
  BY DEF SortedTo, Flagged
<1>9. s[1].flag = "none"
  BY DEF SortedTo
<1> HIDE DEF at, t, B
<1>10. ASSUME NEW h \in Seg, h < at
       PROVE  B(s[h].sub, s[j].sub)
  <2>1. at - 1 \in Seg /\ at # 1 /\ at - 1 # j /\ at - 1 <= j - 1 /\ h <= at - 1
    BY <1>1, <1>10
  <2>2. B(s[at - 1].sub, s[j].sub)
    <3>1. s[at - 1].sub # s[j].sub /\ s[at - 1].sub \in Seg /\ s[j].sub \in Seg
      BY <1>6, <2>1
    <3>2. ~B(s[j].sub, s[at - 1].sub)
      BY <1>4, <2>1
    <3> QED
      BY <1>5, <3>1, <3>2
  <2>3. CASE h = at - 1
    BY <2>2, <2>3
  <2>4. CASE h < at - 1
    <3>1. B(s[h].sub, s[at - 1].sub)
      BY <1>7, <2>1, <2>4
    <3> QED
      BY <1>5, <1>6, <2>1, <2>2, <3>1
  <2> QED
    BY <1>1, <2>1, <2>3, <2>4
<1>11. ASSUME NEW h \in Seg, NEW i \in Seg, h < i, i <= j
       PROVE  B(t[h].sub, t[i].sub)
  <2>1. t[h].sub = s[From(at, j, h)].sub /\ t[i].sub = s[From(at, j, i)].sub
    BY <1>2 DEF IsEntry
  <2>2. CASE i < at
    <3>1. From(at, j, h) = h /\ From(at, j, i) = i /\ i <= j - 1
      BY <1>1, <1>11, <2>2 DEF From
    <3> QED
      BY <1>7, <1>11, <2>1, <3>1
  <2>3. CASE i = at
    <3>1. From(at, j, h) = h /\ From(at, j, i) = j
      BY <1>1, <1>11, <2>3 DEF From
    <3> QED
      BY <1>10, <1>11, <2>1, <2>3, <3>1
  <2>4. CASE h < at /\ at < i
    <3>1. From(at, j, h) = h /\ From(at, j, i) = i - 1 /\ h < i - 1 /\ i - 1 <= j - 1 /\ i - 1 \in Seg
      BY <1>1, <1>11, <2>4 DEF From
    <3> QED
      BY <1>7, <2>1, <3>1
  <2>5. CASE h = at
    <3>1. From(at, j, h) = j /\ From(at, j, i) = i - 1 /\ i - 1 \in at..j - 1
      BY <1>1, <1>11, <2>5 DEF From
    <3> QED
      BY <1>4, <2>1, <3>1
  <2>6. CASE at < h
    <3>1. /\ From(at, j, h) = h - 1 /\ From(at, j, i) = i - 1
          /\ h - 1 \in Seg /\ i - 1 \in Seg /\ h - 1 < i - 1 /\ i - 1 <= j - 1
      BY <1>1, <1>11, <2>6 DEF From
    <3> QED
      BY <1>7, <2>1, <3>1
  <2> QED
    BY <1>1, <1>11, <2>2, <2>3, <2>4, <2>5, <2>6
<1>12. InOrder(subs, t, j, wantMax)
  BY <1>11 DEF InOrder, B
<1>13. Flagged(subs, t, j)
  <2> SUFFICES ASSUME NEW i \in Seg, 1 < i, i <= j
               PROVE  \E h \in Seg : h < i /\ t[i].flag = Flag(subs, t[i].sub, t[h].sub)
    BY DEF Flagged
  <2>1. CASE i < at
    <3>1. i <= j - 1
      BY <1>1, <2>1
    <3>2. PICK h \in Seg : h < i /\ s[i].flag = Flag(subs, s[i].sub, s[h].sub)
      BY <1>8, <3>1
    <3>3. h < at
      BY <1>1, <2>1, <3>2
    <3>4. t[i] = s[i] /\ t[h] = s[h]
      BY <1>2, <2>1, <3>3 DEF IsEntry
    <3> QED
      BY <3>2, <3>4
  <2>2. CASE i = at
    <3>1. at - 1 \in Seg /\ at - 1 < at /\ at # 1
      BY <1>1, <2>2
    <3>2. t[at - 1] = s[at - 1] /\ t[i].flag = Flag(subs, t[i].sub, s[at - 1].sub)
      BY <1>2, <2>2, <3>1 DEF IsEntry
    <3> QED
      BY <2>2, <3>1, <3>2
  <2>3. CASE at < i
    <3>1. t[i].flag = Flag(subs, t[i].sub, s[j].sub)
      BY <1>2, <2>3 DEF IsEntry
    <3>2. From(at, j, at) = j
      BY <1>1 DEF From
    <3>3. t[at].sub = s[j].sub
      BY <1>1, <1>2, <3>2 DEF IsEntry
    <3> QED
      BY <1>1, <2>3, <3>1, <3>3
  <2> QED
    BY <1>1, <2>1, <2>2, <2>3
<1>14. t[1].flag = "none"
  <2>1. 1 \in Seg
    BY SegFacts
  <2>2. CASE at = 1
    BY <1>2, <2>1, <2>2 DEF IsEntry
  <2>3. CASE at # 1
    <3>1. 1 < at
      BY <1>1, <2>3
    <3> QED
      BY <1>2, <1>9, <2>1, <3>1 DEF IsEntry
  <2> QED
    BY <2>2, <2>3
<1> QED
  BY <1>3, <1>12, <1>13, <1>14 DEF SortedTo, t

Reset(sorted) == [j \in Seg |-> [sub |-> sorted[j].sub, flag |-> "none"]]

\* r holds what each round of the sort leaves.
AreRounds(subs, sorted, wantMax, r) ==
    r = [j \in Seg |-> IF j = 1 THEN Reset(sorted) ELSE Inserted(subs, r[j - 1], j, wantMax)]

\* The rounds are what they are said to be.
LEMMA RoundsExist ==
    ASSUME segs \in SegmentLists, NEW subs, NEW sorted, Arranged(sorted), NEW wantMax
    PROVE  \E r : AreRounds(subs, sorted, wantMax, r)
<1> DEFINE X == {s \in [Seg -> Entry] : Arranged(s)}
           N == Len(segs)
           R(s, j) == Inserted(subs, s, j, wantMax)
           g == [p \in Nat \X X |-> IF p[1] \in 2..N THEN R(p[2], p[1]) ELSE p[2]]
           a == Reset(sorted)
<1>1. Seg = 1..N /\ N \in Nat /\ 1 <= N
  BY SegFacts
<1>2. \A s \in X : Arranged(s)
  OBVIOUS
<1>3. \A s : Arranged(s) => s \in X
  BY DEF Arranged
<1>4. a \in X
  <2>1. \A j \in Seg : a[j] \in Entry /\ a[j].sub = sorted[j].sub
    BY DEF Reset, Arranged, Entry
  <2>2. a \in [Seg -> Entry]
    BY <2>1 DEF Reset
  <2> HIDE DEF a
  <2>3. Arranged(a)
    BY <2>1, <2>2 DEF Arranged
  <2> QED
    BY <1>3, <2>3
<1>5. \A s \in X, j \in Seg : R(s, j) \in X
  BY <1>2, <1>3, InsertedArranged
<1> HIDE DEF X, a, R
<1>6. g \in [Nat \X X -> X]
  <2>1. ASSUME NEW n \in Nat, NEW s \in X
        PROVE  (IF n \in 2..N THEN R(s, n) ELSE s) \in X
    <3>1. n \in 2..N => n \in Seg
      BY <1>1
    <3> QED
      BY <1>5, <3>1
  <2> QED
    BY <2>1
<1>7. PICK f \in [1..N -> X] : f[1] = a /\ \A n \in 2..N : f[n] = g[<<n, f[n - 1]>>]
  <2> HIDE DEF g, N
  <2>1. AreSteps(g, X)
    BY <1>6 DEF AreSteps
  <2>2. PICK f : IsLoopOf(f, X, a, 1, N, g)
    BY <1>1, <1>4, <2>1, LoopExists
  <2>3. f \in [1..N -> X] /\ f[1] = a
    BY <2>2 DEF IsLoopOf
  <2>4. \A n \in 2..N : f[n] = g[<<n, f[n - 1]>>]
    <3>1. \A n \in 2..N : n \in 1 + 1..N
      OBVIOUS
    <3>2. \A n \in 1 + 1..N : f[n] = g[<<n, f[n - 1]>>]
      BY <2>2 DEF IsLoopOf
    <3> QED
      BY <3>1, <3>2, Zenon
  <2> QED
    BY <2>3, <2>4, Zenon
<1>8. ASSUME NEW j \in Seg
      PROVE  f[j] = IF j = 1 THEN a ELSE R(f[j - 1], j)
  <2>1. CASE j = 1
    BY <1>7, <2>1
  <2>2. CASE j # 1
    <3>1. j \in 2..N /\ j - 1 \in 1..N /\ j \in Nat
      BY <1>1, <2>2
    <3>2. f[j - 1] \in X
      BY <1>7, <3>1
    <3>3. g[<<j, f[j - 1]>>] = R(f[j - 1], j)
      BY <3>1, <3>2
    <3> QED
      BY <1>7, <2>2, <3>1, <3>3
  <2> QED
    BY <2>1, <2>2
<1>9. f = [j \in Seg |-> IF j = 1 THEN a ELSE R(f[j - 1], j)]
  BY <1>1, <1>7, <1>8
<1>10. AreRounds(subs, sorted, wantMax, f)
  BY <1>9 DEF AreRounds, a, R
<1> QED
  BY <1>10

\* Each round leaves one more entry in order.
LEMMA RoundsSort ==
    ASSUME segs \in SegmentLists, NEW subs \in [Seg -> Place], NEW sorted, Arranged(sorted),
           NEW wantMax \in BOOLEAN, NEW r, AreRounds(subs, sorted, wantMax, r)
    PROVE  \A j \in Seg : SortedTo(subs, r[j], j, wantMax)
<1> DEFINE Bad == {j \in Seg : ~SortedTo(subs, r[j], j, wantMax)}
           a == Reset(sorted)
<1>1. Seg = 1..Len(segs) /\ Len(segs) \in Nat /\ 1 \in Seg /\ Seg \subseteq Int /\ IsFiniteSet(Seg)
  BY SegFacts
<1>2. \A j \in Seg : r[j] = IF j = 1 THEN a ELSE Inserted(subs, r[j - 1], j, wantMax)
  BY DEF AreRounds
<1>3. SortedTo(subs, a, 1, wantMax)
  <2>1. \A j \in Seg : a[j] \in Entry /\ a[j].sub = sorted[j].sub /\ a[j].flag = "none"
    BY DEF Reset, Arranged, Entry
  <2>2. a \in [Seg -> Entry]
    BY <2>1 DEF Reset
  <2> HIDE DEF a
  <2>3. Arranged(a)
    BY <2>1, <2>2 DEF Arranged
  <2>4. InOrder(subs, a, 1, wantMax) /\ Flagged(subs, a, 1)
    BY <1>1 DEF InOrder, Flagged
  <2> QED
    BY <1>1, <2>1, <2>3, <2>4 DEF SortedTo
<1> HIDE DEF a
<1>4. ASSUME Bad # {}
      PROVE  FALSE
  <2>1. Bad \in SUBSET Int /\ IsFiniteSet(Bad)
    BY <1>1, FS_Subset
  <2>2. PICK j \in Bad : \A i \in Bad : j <= i
    <3> HIDE DEF Bad
    <3> QED
      BY <1>4, <2>1, LeastOfFinite
  <2>3. j \in Seg /\ ~SortedTo(subs, r[j], j, wantMax)
    BY <2>2
  <2>4. j # 1
    BY <1>1, <1>2, <1>3, <2>3
  <2>5. j - 1 \in Seg /\ ~(j <= j - 1)
    BY <1>1, <2>3, <2>4
  <2>6. SortedTo(subs, r[j - 1], j - 1, wantMax)
    BY <2>2, <2>5
  <2>7. SortedTo(subs, Inserted(subs, r[j - 1], j, wantMax), j, wantMax)
    BY <2>3, <2>4, <2>6, InsertedSorted
  <2> QED
    BY <1>2, <2>3, <2>4, <2>7
<1> QED
  BY <1>4

\* sort sorts, and flags the first entry unless all have ended.
LEMMA SortedSorts ==
    ASSUME segs \in SegmentLists, NEW subs \in [Seg -> Place], NEW sorted, Arranged(sorted),
           NEW wantMax \in BOOLEAN
    PROVE  \E s : /\ SortedTo(subs, s, Len(segs), wantMax)
                  /\ Sorted(subs, sorted, wantMax) =
                         IF subs[s[1].sub] = Nowhere THEN s ELSE [s EXCEPT ![1].flag = "equal"]
<1> DEFINE Rounds == CHOOSE r : AreRounds(subs, sorted, wantMax, r)
           s == Rounds[Len(segs)]
<1>1. AreRounds(subs, sorted, wantMax, Rounds)
  BY RoundsExist
<1>2. Len(segs) \in Seg
  BY SegFacts
<1>3. SortedTo(subs, s, Len(segs), wantMax)
  <2> HIDE DEF Rounds
  <2> QED
    BY <1>1, <1>2, RoundsSort
<1>4. Sorted(subs, sorted, wantMax) =
          IF subs[s[1].sub] = Nowhere THEN s ELSE [s EXCEPT ![1].flag = "equal"]
  BY DEF Sorted, AreRounds, Reset
<1> QED
  BY <1>3, <1>4

\* What stands between two equal keys is equal to them.
LEMMA BeforeBetween ==
    ASSUME segs \in SegmentLists, NEW subs \in [Seg -> Place], NEW wantMax \in BOOLEAN,
           NEW a \in Seg, NEW b \in Seg, NEW c \in Seg,
           a = b \/ Before(subs, a, b, wantMax), b = c \/ Before(subs, b, c, wantMax),
           subs[a] = subs[c], subs[a] # Nowhere
    PROVE  subs[b] = subs[a]
<1>1. /\ subs[a] = Nowhere \/ (subs[a] \in Int /\ subs[a] # Nowhere)
      /\ subs[b] = Nowhere \/ (subs[b] \in Int /\ subs[b] # Nowhere)
  BY KeyFacts DEF Place
<1>2. CASE wantMax = TRUE
  BY <1>1, <1>2 DEF Before
<1>3. CASE wantMax = FALSE
  BY <1>1, <1>3 DEF Before
<1> QED
  BY <1>2, <1>3

\* When the entries are sorted, the flags that are equal from the second on are those
\* of the cursors that have the key of the first.
LEMMA FlagsTell ==
    ASSUME segs \in SegmentLists, NEW subs \in [Seg -> Place], NEW wantMax \in BOOLEAN,
           NEW s, SortedTo(subs, s, Len(segs), wantMax), subs[s[1].sub] # Nowhere,
           NEW n \in Seg, n # 1
    PROVE  (\A i \in 2..n : s[i].flag = "equal") <=> subs[s[n].sub] = subs[s[1].sub]
<1> DEFINE K(i) == subs[s[i].sub]
           Bad == {i \in Seg : i <= n /\ K(i) # K(1)}
<1>1. Seg = 1..Len(segs) /\ Len(segs) \in Nat /\ 1 \in Seg /\ Seg \subseteq Int /\ IsFiniteSet(Seg)
  BY SegFacts
<1>2. \A i \in Seg : s[i].sub \in Seg
  BY DEF SortedTo, Arranged, Entry
<1>3. \A i \in Seg : 1 < i => \E h \in Seg : h < i /\ s[i].flag = Flag(subs, s[i].sub, s[h].sub)
  BY <1>1 DEF SortedTo, Flagged
<1>4. \A h, i \in Seg : h < i => Before(subs, s[h].sub, s[i].sub, wantMax)
  BY <1>1 DEF SortedTo, InOrder
<1>5. ASSUME \A i \in 2..n : s[i].flag = "equal"
      PROVE  K(n) = K(1)
  <2>1. ASSUME Bad # {}
        PROVE  FALSE
    <3>1. Bad \in SUBSET Int /\ IsFiniteSet(Bad)
      BY <1>1, FS_Subset
    <3>2. PICK i \in Bad : \A h \in Bad : i <= h
      <4> HIDE DEF Bad
      <4> QED
        BY <2>1, <3>1, LeastOfFinite
    <3>3. i \in Seg /\ i <= n /\ K(i) # K(1) /\ i # 1
      BY <3>2
    <3>4. 1 < i /\ i \in 2..n
      BY <1>1, <3>3
    <3>5. PICK h \in Seg : h < i /\ s[i].flag = Flag(subs, s[i].sub, s[h].sub)
      BY <1>3, <3>3, <3>4
    <3>6. Flag(subs, s[i].sub, s[h].sub) = "equal"
      BY <1>5, <3>4, <3>5
    <3>7. K(i) = K(h)
      BY <3>6 DEF Flag
    <3>8. h \notin Bad
      BY <1>1, <3>2, <3>3, <3>5
    <3>9. h <= n
      BY <1>1, <3>3, <3>5
    <3> QED
      BY <3>3, <3>7, <3>8, <3>9
  <2>2. n <= n
    BY <1>1
  <2> QED
    BY <2>1, <2>2
<1>6. ASSUME K(n) = K(1), NEW i \in 2..n
      PROVE  s[i].flag = "equal"
  <2>1. i \in Seg /\ 1 < i /\ i <= n
    BY <1>1
  <2>2. PICK h \in Seg : h < i /\ s[i].flag = Flag(subs, s[i].sub, s[h].sub)
    BY <1>3, <2>1
  <2>3. ASSUME NEW j \in Seg, j <= n
        PROVE  K(j) = K(1)
    <3>1. j = 1 \/ 1 < j
      BY <1>1
    <3>2. j = n \/ j < n
      BY <1>1, <2>3
    <3>3. s[1].sub = s[j].sub \/ Before(subs, s[1].sub, s[j].sub, wantMax)
      BY <1>1, <1>4, <3>1
    <3>4. s[j].sub = s[n].sub \/ Before(subs, s[j].sub, s[n].sub, wantMax)
      BY <1>4, <3>2
    <3>5. s[1].sub \in Seg /\ s[j].sub \in Seg /\ s[n].sub \in Seg
      BY <1>1, <1>2
    <3> DEFINE a == s[1].sub
               b == s[j].sub
               c == s[n].sub
    <3>6. /\ a \in Seg /\ b \in Seg /\ c \in Seg
          /\ a = b \/ Before(subs, a, b, wantMax)
          /\ b = c \/ Before(subs, b, c, wantMax)
          /\ subs[a] = subs[c] /\ subs[a] # Nowhere
      BY <1>6, <3>3, <3>4, <3>5, Zenon
    <3> HIDE DEF a, b, c
    <3>7. subs[b] = subs[a]
      BY <3>6, BeforeBetween
    <3> QED
      BY <3>7 DEF a, b
  <2>4. K(i) = K(1) /\ K(h) = K(1) /\ K(1) # Nowhere
    <3>1. h <= n
      BY <1>1, <2>1, <2>2
    <3> QED
      BY <2>1, <2>3, <3>1
  <2> QED
    BY <2>2, <2>4 DEF Flag
<1> QED
  BY <1>5, <1>6

\* f is what find_min or find_max makes of m.
IsFound(m, wantMax, f) ==
    /\ f \in Multi /\ Arranged(f.sorted)
    /\ f.subs = m.subs /\ f.panicked = m.panicked
    /\ f.dir = IF wantMax THEN "backward" ELSE "forward"
    /\ f.cur = NoCursor => \A i \in Seg : m.subs[i] = Nowhere
    /\ f.cur # NoCursor =>
           /\ f.cur \in Seg /\ m.subs[f.cur] # Nowhere
           /\ \A i \in Seg : i # f.cur => Before(m.subs, f.cur, i, wantMax)
           /\ f.cur = f.sorted[1].sub
           /\ EqualRun(f) = {i \in Seg \ {f.cur} : m.subs[i] = m.subs[f.cur]}

\* They find the first by key and segment, and flag those that have its key.
LEMMA FoundIsFound ==
    ASSUME segs \in SegmentLists, NEW m \in Multi, Arranged(m.sorted), NEW wantMax \in BOOLEAN
    PROVE  IsFound(m, wantMax, Found(m, wantMax))
<1> DEFINE subs == m.subs
           u == Sorted(m.subs, m.sorted, wantMax)
           f == Found(m, wantMax)
<1>1. PICK s : /\ SortedTo(subs, s, Len(segs), wantMax)
               /\ u = IF subs[s[1].sub] = Nowhere THEN s ELSE [s EXCEPT ![1].flag = "equal"]
  BY SortedSorts DEF Multi
<1>2. Seg = 1..Len(segs) /\ Len(segs) \in Nat /\ 1 \in Seg /\ NoCursor \notin Seg
  BY SegFacts
<1>3. subs \in [Seg -> Place]
  BY DEF Multi
<1>4. s \in [Seg -> Entry] /\ Arranged(s) /\ s[1].flag = "none"
  BY <1>1 DEF SortedTo, Arranged
<1>5. /\ f.subs = m.subs /\ f.panicked = m.panicked
      /\ f.dir = (IF wantMax THEN "backward" ELSE "forward")
      /\ f.sorted = u /\ f.cur = IF u[1].flag = "none" THEN NoCursor ELSE u[1].sub
      /\ f = [subs |-> f.subs, sorted |-> f.sorted, cur |-> f.cur, dir |-> f.dir,
              panicked |-> f.panicked]
  <2>1. f = [m EXCEPT !.sorted = u, !.dir = IF wantMax THEN "backward" ELSE "forward",
                      !.cur = IF u[1].flag = "none" THEN NoCursor ELSE u[1].sub]
    BY DEF Found
  <2> HIDE DEF u, f
  <2> QED
    BY <2>1 DEF Multi
<1> HIDE DEF u, f, subs
<1>6. /\ u \in [Seg -> Entry]
      /\ \A i \in Seg : u[i].sub = s[i].sub
      /\ \A i \in Seg : i # 1 => u[i].flag = s[i].flag
      /\ u[1].flag = "none" <=> subs[s[1].sub] = Nowhere
  <2>1. CASE subs[s[1].sub] = Nowhere
    BY <1>1, <1>4, <2>1
  <2>2. CASE subs[s[1].sub] # Nowhere
    <3>1. u = [s EXCEPT ![1].flag = "equal"]
      BY <1>1, <2>2
    <3>2. s[1] \in Entry
      BY <1>2, <1>4
    <3>3. u[1] = [s[1] EXCEPT !.flag = "equal"]
      BY <1>2, <1>4, <3>1
    <3>4. u[1] \in Entry /\ u[1].sub = s[1].sub /\ u[1].flag = "equal"
      BY <3>2, <3>3 DEF Entry
    <3>5. \A i \in Seg : i # 1 => u[i] = s[i]
      BY <1>4, <3>1
    <3>6. u \in [Seg -> Entry]
      BY <1>4, <3>1, <3>4, <3>5
    <3> QED
      BY <2>2, <3>4, <3>5, <3>6
  <2> QED
    BY <2>1, <2>2
<1>7. Arranged(u)
  <2>1. \A i, j \in Seg : u[i].sub = u[j].sub => i = j
    <3>1. \A i, j \in Seg : s[i].sub = s[j].sub => i = j
      BY <1>4 DEF Arranged
    <3> QED
      BY <1>6, <3>1, Zenon
  <2>2. \A n \in Seg : \E j \in Seg : u[j].sub = n
    <3>1. \A n \in Seg : \E j \in Seg : s[j].sub = n
      BY <1>4 DEF Arranged
    <3> QED
      BY <1>6, <3>1, Zenon
  <2>3. u \in [Seg -> Entry]
    BY <1>6
  <2> QED
    BY <2>1, <2>2, <2>3 DEF Arranged
<1>8. u[1].sub \in Seg /\ s[1].sub \in Seg /\ u[1].sub = s[1].sub
  BY <1>2, <1>6 DEF Entry
<1>9. \A i \in Seg : i # s[1].sub => Before(subs, s[1].sub, i, wantMax)
  <2> TAKE i \in Seg
  <2> HAVE i # s[1].sub
  <2>1. PICK h \in Seg : s[h].sub = i
    BY <1>4 DEF Arranged
  <2>2. 1 < h /\ h <= Len(segs)
    BY <1>2, <2>1
  <2> QED
    BY <1>1, <1>2, <2>1, <2>2 DEF SortedTo, InOrder
<1>10. f \in Multi
  <2>1. f.cur \in Seg \cup {NoCursor} /\ f.dir \in Direction
    BY <1>5, <1>8 DEF Direction
  <2>2. f.subs \in [Seg -> Place] /\ f.sorted \in [Seg -> Entry] /\ f.panicked \in BOOLEAN
    BY <1>3, <1>5, <1>6 DEF Multi, subs
  <2> DEFINE a == f.subs
             b == f.sorted
             c == f.cur
             d == f.dir
             e == f.panicked
  <2>3. f = [subs |-> a, sorted |-> b, cur |-> c, dir |-> d, panicked |-> e]
    BY <1>5, Zenon
  <2>4. /\ a \in [Seg -> Place] /\ b \in [Seg -> Entry] /\ c \in Seg \cup {NoCursor}
        /\ d \in Direction /\ e \in BOOLEAN
    BY <2>1, <2>2
  <2> HIDE DEF a, b, c, d, e
  <2> QED
    BY <2>3, <2>4 DEF Multi
<1>11. ASSUME f.cur = NoCursor, NEW i \in Seg
       PROVE  subs[i] = Nowhere
  <2>1. subs[s[1].sub] = Nowhere
    BY <1>2, <1>5, <1>6, <1>8, <1>11
  <2>2. i = s[1].sub \/ Before(subs, s[1].sub, i, wantMax)
    BY <1>9
  <2> QED
    BY <2>1, <2>2 DEF Before
<1>12. ASSUME f.cur # NoCursor
       PROVE  /\ f.cur \in Seg /\ subs[f.cur] # Nowhere
              /\ \A i \in Seg : i # f.cur => Before(subs, f.cur, i, wantMax)
              /\ f.cur = f.sorted[1].sub
              /\ EqualRun(f) = {i \in Seg \ {f.cur} : subs[i] = subs[f.cur]}
  <2>1. u[1].flag # "none" /\ f.cur = s[1].sub
    BY <1>5, <1>8, <1>12
  <2>2. f.cur \in Seg /\ subs[f.cur] # Nowhere /\ f.cur = f.sorted[1].sub
    BY <1>5, <1>6, <1>8, <2>1
  <2>3. \A n \in Seg \ {1} :
            (\A i \in 2..n : f.sorted[i].flag = "equal") <=> subs[s[n].sub] = subs[f.cur]
    <3> TAKE n \in Seg \ {1}
    <3>1. (\A i \in 2..n : s[i].flag = "equal") <=> subs[s[n].sub] = subs[s[1].sub]
      BY <1>1, <1>3, <2>1, <2>2, FlagsTell
    <3>2. \A i \in 2..n : f.sorted[i].flag = s[i].flag
      <4>1. \A i \in 2..n : i \in Seg /\ i # 1
        BY <1>2
      <4> QED
        BY <1>5, <1>6, <4>1
    <3> QED
      BY <2>1, <3>1, <3>2
  <2>4. EqualRun(f) = {s[n].sub : n \in {h \in Seg \ {1} : subs[s[h].sub] = subs[f.cur]}}
    <3>1. EqualRun(f) = {f.sorted[j].sub : j \in {n \in Seg \ {1} :
                             \A i \in 2..n : f.sorted[i].flag = "equal"}}
      BY DEF EqualRun
    <3>2. {n \in Seg \ {1} : \A i \in 2..n : f.sorted[i].flag = "equal"}
              = {h \in Seg \ {1} : subs[s[h].sub] = subs[f.cur]}
      BY <2>3
    <3> DEFINE T == {h \in Seg \ {1} : subs[s[h].sub] = subs[f.cur]}
    <3>3. \A j \in T : f.sorted[j].sub = s[j].sub
      BY <1>5, <1>6
    <3>4. EqualRun(f) = {f.sorted[j].sub : j \in T}
      BY <3>1, <3>2
    <3> HIDE DEF T
    <3>5. {f.sorted[j].sub : j \in T} = {s[j].sub : j \in T}
      BY <3>3
    <3>6. EqualRun(f) = {s[n].sub : n \in T}
      BY <3>4, <3>5
    <3> QED
      BY <3>6 DEF T
  <2>5. ASSUME NEW i \in Seg, i # f.cur, subs[i] = subs[f.cur]
        PROVE  i \in EqualRun(f)
    <3>1. PICK h \in Seg : s[h].sub = i
      BY <1>4 DEF Arranged
    <3>2. h # 1
      BY <2>1, <2>5, <3>1
    <3> QED
      BY <2>4, <2>5, <3>1, <3>2
  <2>6. ASSUME NEW i \in EqualRun(f)
        PROVE  i \in Seg /\ i # f.cur /\ subs[i] = subs[f.cur]
    <3>1. PICK h \in Seg \ {1} : subs[s[h].sub] = subs[f.cur] /\ i = s[h].sub
      BY <2>4, <2>6
    <3>2. s[h].sub \in Seg /\ s[h].sub # s[1].sub
      BY <1>2, <1>4, <3>1 DEF Arranged, Entry
    <3> QED
      BY <2>1, <3>1, <3>2
  <2>7. EqualRun(f) = {i \in Seg \ {f.cur} : subs[i] = subs[f.cur]}
    BY <2>5, <2>6
  <2>8. \A i \in Seg : i # f.cur => Before(subs, f.cur, i, wantMax)
    BY <1>9, <2>1
  <2> QED
    BY <2>2, <2>7, <2>8
<1>13. IsFound(m, wantMax, f)
  BY <1>5, <1>7, <1>10, <1>11, <1>12 DEF IsFound, subs
<1> QED
  BY <1>13 DEF f

-----------------------------------------------------------------------------
(* Where the calls of a MultiCursor go.                                    *)

AllKeys == {k \in Keys : \E i \in Seg : k \in KeysOf(i)}

\* The key a cursor stands on.
At(m) == IF MultiValid(m) THEN MultiKey(m) ELSE Nowhere

\* Keys that have all that come after them, and all that come before them.
GoesUp(U) == U \subseteq Keys /\ \A k \in U, l \in Keys : k <= l => l \in U
GoesDown(U) == U \subseteq Keys /\ \A k \in U, l \in Keys : l <= k => l \in U

\* The parts of a cursor on segments.
LEMMA MultiParts ==
    ASSUME NEW m \in Multi
    PROVE  /\ m.subs \in [Seg -> Place] /\ m.sorted \in [Seg -> Entry]
           /\ m.cur \in Seg \cup {NoCursor} /\ m.dir \in Direction /\ m.panicked \in BOOLEAN
BY DEF Multi

\* A key is a number, and not nowhere.
LEMMA KeyOrNowhere ==
    /\ \A i, k : k \in KeysOf(i) => k \in Int /\ k # Nowhere /\ k \in Keys
    /\ \A i \in Seg : KeysOf(i) \subseteq AllKeys
    /\ AllKeys \subseteq Keys
BY KeyFacts DEF AllKeys

\* find_min after each cursor went to the least of its keys that are far enough.
LEMMA MinFollows ==
    ASSUME segs \in SegmentLists, NEW m \in Multi, ~m.panicked, NEW U, GoesUp(U),
           \A i \in Seg : IsLeastOf(m.subs[i], KeysOf(i) \cap U),
           NEW f, IsFound(m, FALSE, f)
    PROVE  SoundCursor(f) /\ f.dir = "forward" /\ IsLeastOf(At(f), AllKeys \cap U)
<1> DEFINE subs == m.subs
           key == subs[f.cur]
           c == f.cur
<1>1. /\ f \in Multi /\ Arranged(f.sorted) /\ f.subs = subs /\ ~f.panicked /\ f.dir = "forward"
  BY DEF IsFound
<1>2. \A i \in Seg : subs[i] \in KeysOf(i) \cup {Nowhere}
  BY DEF IsLeastOf
<1>3. SoundMulti(f)
  BY <1>1, <1>2 DEF SoundMulti
<1>4. \A i \in Seg : KeysOf(i) \cap U \subseteq AllKeys \cap U
  BY KeyOrNowhere
<1>5. \A k \in AllKeys \cap U : \E i \in Seg : k \in KeysOf(i) \cap U
  BY DEF AllKeys
<1>6. Nowhere \notin Keys /\ Seg \subseteq Int /\ NoCursor \notin Seg
  BY KeyFacts, SegFacts
<1>7. ASSUME c = NoCursor
      PROVE  ~MultiValid(f) /\ IsLeastOf(At(f), AllKeys \cap U)
  <2>1. ~MultiValid(f) /\ At(f) = Nowhere
    BY <1>7 DEF MultiValid, At
  <2>2. \A i \in Seg : subs[i] = Nowhere
    BY <1>7 DEF IsFound
  <2>3. \A i \in Seg : KeysOf(i) \cap U = {}
    BY <2>2, KeyOrNowhere DEF IsLeastOf
  <2>4. AllKeys \cap U = {}
    BY <1>5, <2>3
  <2> QED
    BY <2>1, <2>4 DEF IsLeastOf
<1>8. ASSUME c # NoCursor
      PROVE  /\ IsLeastOf(At(f), AllKeys \cap U) /\ MultiKey(f) = key
             /\ OnNewest(f) /\ GoesForward(f)
  <2>1. /\ c \in Seg /\ key # Nowhere /\ c = f.sorted[1].sub
        /\ \A i \in Seg : i # c => Before(subs, c, i, FALSE)
        /\ EqualRun(f) = {i \in Seg \ {c} : subs[i] = key}
    BY <1>8 DEF IsFound
  <2>2. MultiKey(f) = key /\ At(f) = key
    BY <1>1, <1>8, <2>1 DEF MultiKey, At, MultiValid
  <2>3. key \in KeysOf(c) \cap U /\ key \in Int
    BY <2>1, KeyOrNowhere DEF IsLeastOf
  <2>4. \A i \in Seg : \/ KeysOf(i) \cap U = {} /\ subs[i] = Nowhere
                       \/ /\ subs[i] \in KeysOf(i) \cap U /\ subs[i] \in Int /\ subs[i] # Nowhere
                          /\ \A l \in KeysOf(i) \cap U : subs[i] <= l
    BY KeyOrNowhere DEF IsLeastOf
  <2>5. \A i \in Seg : subs[i] = Nowhere \/ key < subs[i] \/ (subs[i] = key /\ c <= i)
    <3> TAKE i \in Seg
    <3>1. CASE i = c
      BY <1>6, <2>1, <3>1
    <3>2. CASE i # c
      <4>1. Before(subs, c, i, FALSE)
        BY <2>1, <3>2
      <4>2. \/ subs[i] = Nowhere
            \/ subs[c] = subs[i] /\ c < i
            \/ subs[c] < subs[i]
        BY <4>1 DEF Before
      <4>3. c < i => c <= i
        <5>1. c \in Int /\ i \in Int
          BY <1>6, <2>1
        <5> HIDE DEF c
        <5> QED
          BY <5>1
      <4> QED
        BY <4>2, <4>3, Zenon
    <3> QED
      BY <3>1, <3>2
  <2> HIDE DEF key, subs, c
  <2>6. \A i \in Seg : \A l \in KeysOf(i) \cap U : subs[i] # Nowhere /\ key <= l /\ l \in Int
    <3> TAKE i \in Seg
    <3> TAKE l \in KeysOf(i) \cap U
    <3>1. l \in Int
      BY KeyOrNowhere
    <3>2. subs[i] \in Int /\ subs[i] # Nowhere /\ subs[i] <= l
      BY <2>4
    <3> QED
      BY <2>3, <2>5, <3>1, <3>2
  <2>7. \A l \in AllKeys \cap U : key <= l
    BY <1>5, <2>6
  <2>8. key \in AllKeys \cap U
    BY <1>4, <2>1, <2>3
  <2>9. \A i \in Seg : key \in KeysOf(i) <=> subs[i] = key
    <3> TAKE i \in Seg
    <3>1. ASSUME key \in KeysOf(i)
          PROVE  subs[i] = key
      <4>1. key \in KeysOf(i) \cap U
        BY <2>3, <3>1
      <4>2. subs[i] \in Int /\ subs[i] # Nowhere /\ subs[i] <= key
        BY <2>4, <4>1
      <4> QED
        BY <2>3, <2>5, <4>2
    <3>2. subs[i] = key => key \in KeysOf(i)
      BY <2>3, <2>4, KeyOrNowhere
    <3> QED
      BY <3>1, <3>2
  <2>10. OnNewest(f)
    <3> SUFFICES ASSUME NEW j \in Seg, j < c, key \in KeysOf(j)
                 PROVE  FALSE
      BY <2>2 DEF OnNewest, c
    <3>1. subs[j] = key
      BY <2>9
    <3> QED
      BY <1>6, <2>1, <2>3, <2>5, <3>1, KeyOrNowhere
  <2>11. \A i \in Seg : subs[i] = SubSeek(i, key, "GE")
    <3> TAKE i \in Seg
    <3>1. KeysFrom(i, key) \subseteq KeysOf(i) \cap U
      <4> SUFFICES ASSUME NEW l \in KeysFrom(i, key)
                   PROVE  l \in U
        BY DEF KeysFrom
      <4>1. l \in Keys /\ key <= l
        BY <2>3, KeyOrNowhere DEF KeysFrom
      <4> QED
        BY <2>3, <4>1 DEF GoesUp
    <3>2. IsLeastOf(subs[i], KeysFrom(i, key))
      <4>1. CASE subs[i] = Nowhere
        BY <2>4, <3>1, <4>1 DEF IsLeastOf
      <4>2. CASE subs[i] # Nowhere
        <5>1. subs[i] \in KeysOf(i) /\ subs[i] \in Int /\ \A l \in KeysFrom(i, key) : subs[i] <= l
          BY <2>4, <3>1, <4>2
        <5>2. subs[i] >= key
          BY <2>3, <2>5, <4>2, <5>1
        <5> QED
          BY <5>1, <5>2 DEF IsLeastOf, KeysFrom
      <4> QED
        BY <4>1, <4>2
    <3> QED
      BY <3>2, SubGoes
  <2>12. EqualRun(f) = {i \in Seg \ {c} : key \in KeysOf(i)}
    BY <2>1, <2>9
  <2>13. GoesForward(f)
    BY <1>1, <2>1, <2>2, <2>11, <2>12 DEF GoesForward, subs, c
  <2>14. IsLeastOf(key, AllKeys \cap U)
    BY <2>7, <2>8 DEF IsLeastOf
  <2> QED
    BY <2>2, <2>10, <2>13, <2>14 DEF key, subs, c
<1>9. Placed(f)
  BY <1>1, <1>7, <1>8 DEF Placed
<1> QED
  BY <1>1, <1>3, <1>7, <1>8, <1>9 DEF SoundCursor

\* find_max after each cursor went to the greatest of its keys that are far enough.
LEMMA MaxFollows ==
    ASSUME segs \in SegmentLists, NEW m \in Multi, ~m.panicked, NEW U, GoesDown(U),
           \A i \in Seg : IsGreatestOf(m.subs[i], KeysOf(i) \cap U),
           NEW f, IsFound(m, TRUE, f)
    PROVE  SoundCursor(f) /\ f.dir = "backward" /\ IsGreatestOf(At(f), AllKeys \cap U)
<1> DEFINE subs == m.subs
           key == subs[f.cur]
           c == f.cur
<1>1. /\ f \in Multi /\ Arranged(f.sorted) /\ f.subs = subs /\ ~f.panicked /\ f.dir = "backward"
  BY DEF IsFound
<1>2. \A i \in Seg : subs[i] \in KeysOf(i) \cup {Nowhere}
  BY DEF IsGreatestOf
<1>3. SoundMulti(f)
  BY <1>1, <1>2 DEF SoundMulti
<1>4. \A i \in Seg : KeysOf(i) \cap U \subseteq AllKeys \cap U
  BY KeyOrNowhere
<1>5. \A k \in AllKeys \cap U : \E i \in Seg : k \in KeysOf(i) \cap U
  BY DEF AllKeys
<1>6. Nowhere \notin Keys /\ Seg \subseteq Int /\ NoCursor \notin Seg
  BY KeyFacts, SegFacts
<1>7. ASSUME c = NoCursor
      PROVE  ~MultiValid(f) /\ IsGreatestOf(At(f), AllKeys \cap U)
  <2>1. ~MultiValid(f) /\ At(f) = Nowhere
    BY <1>7 DEF MultiValid, At
  <2>2. \A i \in Seg : subs[i] = Nowhere
    BY <1>7 DEF IsFound
  <2>3. \A i \in Seg : KeysOf(i) \cap U = {}
    BY <2>2, KeyOrNowhere DEF IsGreatestOf
  <2>4. AllKeys \cap U = {}
    BY <1>5, <2>3
  <2> QED
    BY <2>1, <2>4 DEF IsGreatestOf
<1>8. ASSUME c # NoCursor
      PROVE  /\ IsGreatestOf(At(f), AllKeys \cap U) /\ MultiKey(f) = key
             /\ OnNewest(f) /\ GoesBackward(f)
  <2>1. /\ c \in Seg /\ key # Nowhere
        /\ \A i \in Seg : i # c => Before(subs, c, i, TRUE)
    BY <1>8 DEF IsFound
  <2>2. MultiKey(f) = key /\ At(f) = key
    BY <1>1, <1>8, <2>1 DEF MultiKey, At, MultiValid
  <2>3. key \in KeysOf(c) \cap U /\ key \in Int
    BY <2>1, KeyOrNowhere DEF IsGreatestOf
  <2>4. \A i \in Seg : \/ KeysOf(i) \cap U = {} /\ subs[i] = Nowhere
                       \/ /\ subs[i] \in KeysOf(i) \cap U /\ subs[i] \in Int /\ subs[i] # Nowhere
                          /\ \A l \in KeysOf(i) \cap U : l <= subs[i]
    BY KeyOrNowhere DEF IsGreatestOf
  <2>5. \A i \in Seg : subs[i] = Nowhere \/ subs[i] < key \/ (subs[i] = key /\ c <= i)
    <3> TAKE i \in Seg
    <3>1. CASE i = c
      BY <1>6, <2>1, <3>1
    <3>2. CASE i # c
      <4>1. Before(subs, c, i, TRUE)
        BY <2>1, <3>2
      <4>2. \/ subs[i] = Nowhere
            \/ subs[c] = subs[i] /\ c < i
            \/ subs[c] > subs[i]
        BY <4>1 DEF Before
      <4>3. c < i => c <= i
        <5>1. c \in Int /\ i \in Int
          BY <1>6, <2>1
        <5> HIDE DEF c
        <5> QED
          BY <5>1
      <4> QED
        BY <4>2, <4>3, Zenon
    <3> QED
      BY <3>1, <3>2
  <2> HIDE DEF key, subs, c
  <2>6. \A i \in Seg : \A l \in KeysOf(i) \cap U : subs[i] # Nowhere /\ l <= key /\ l \in Int
    <3> TAKE i \in Seg
    <3> TAKE l \in KeysOf(i) \cap U
    <3>1. l \in Int
      BY KeyOrNowhere
    <3>2. subs[i] \in Int /\ subs[i] # Nowhere /\ l <= subs[i]
      BY <2>4
    <3> QED
      BY <2>3, <2>5, <3>1, <3>2
  <2>7. \A l \in AllKeys \cap U : l <= key
    BY <1>5, <2>6
  <2>8. key \in AllKeys \cap U
    BY <1>4, <2>1, <2>3
  <2>9. \A i \in Seg : key \in KeysOf(i) <=> subs[i] = key
    <3> TAKE i \in Seg
    <3>1. ASSUME key \in KeysOf(i)
          PROVE  subs[i] = key
      <4>1. key \in KeysOf(i) \cap U
        BY <2>3, <3>1
      <4>2. subs[i] \in Int /\ subs[i] # Nowhere /\ key <= subs[i]
        BY <2>4, <4>1
      <4> QED
        BY <2>3, <2>5, <4>2
    <3>2. subs[i] = key => key \in KeysOf(i)
      BY <2>3, <2>4, KeyOrNowhere
    <3> QED
      BY <3>1, <3>2
  <2>10. OnNewest(f)
    <3> SUFFICES ASSUME NEW j \in Seg, j < c, key \in KeysOf(j)
                 PROVE  FALSE
      BY <2>2 DEF OnNewest, c
    <3>1. subs[j] = key
      BY <2>9
    <3> QED
      BY <1>6, <2>1, <2>3, <2>5, <3>1, KeyOrNowhere
  <2>11. \A i \in Seg : subs[i] = SubSeek(i, key, "LE")
    <3> TAKE i \in Seg
    <3>1. KeysUpTo(i, key) \subseteq KeysOf(i) \cap U
      <4> SUFFICES ASSUME NEW l \in KeysUpTo(i, key)
                   PROVE  l \in U
        BY DEF KeysUpTo
      <4>1. l \in Keys /\ l <= key
        BY <2>3, KeyOrNowhere DEF KeysUpTo
      <4> QED
        BY <2>3, <4>1 DEF GoesDown
    <3>2. IsGreatestOf(subs[i], KeysUpTo(i, key))
      <4>1. CASE subs[i] = Nowhere
        BY <2>4, <3>1, <4>1 DEF IsGreatestOf
      <4>2. CASE subs[i] # Nowhere
        <5>1. subs[i] \in KeysOf(i) /\ subs[i] \in Int /\ \A l \in KeysUpTo(i, key) : l <= subs[i]
          BY <2>4, <3>1, <4>2
        <5>2. subs[i] <= key
          BY <2>3, <2>5, <4>2, <5>1
        <5> QED
          BY <5>1, <5>2 DEF IsGreatestOf, KeysUpTo
      <4> QED
        BY <4>1, <4>2
    <3> QED
      BY <3>2, SubGoes
  <2>12. GoesBackward(f)
    BY <1>1, <2>2, <2>11 DEF GoesBackward, subs
  <2>13. IsGreatestOf(key, AllKeys \cap U)
    BY <2>7, <2>8 DEF IsGreatestOf
  <2> QED
    BY <2>2, <2>10, <2>12, <2>13 DEF key, subs, c
<1>9. Placed(f)
  BY <1>1, <1>7, <1>8 DEF Placed
<1> QED
  BY <1>1, <1>3, <1>7, <1>8, <1>9 DEF SoundCursor

\* find_min goes to the least of all keys that are far enough.
LEMMA FindMinGoes ==
    ASSUME segs \in SegmentLists, NEW m \in Multi, Arranged(m.sorted), ~m.panicked,
           NEW U, GoesUp(U), \A i \in Seg : IsLeastOf(m.subs[i], KeysOf(i) \cap U)
    PROVE  /\ SoundCursor(FindMin(m)) /\ FindMin(m).dir = "forward"
           /\ IsLeastOf(At(FindMin(m)), AllKeys \cap U)
<1>1. IsFound(m, FALSE, FindMin(m))
  BY FoundIsFound DEF FindMin
<1> DEFINE f == FindMin(m)
<1> HIDE DEF f
<1>2. SoundCursor(f) /\ f.dir = "forward" /\ IsLeastOf(At(f), AllKeys \cap U)
  BY <1>1, MinFollows DEF f
<1> QED
  BY <1>2 DEF f

\* find_max goes to the greatest of all keys that are far enough.
LEMMA FindMaxGoes ==
    ASSUME segs \in SegmentLists, NEW m \in Multi, Arranged(m.sorted), ~m.panicked,
           NEW U, GoesDown(U), \A i \in Seg : IsGreatestOf(m.subs[i], KeysOf(i) \cap U)
    PROVE  /\ SoundCursor(FindMax(m)) /\ FindMax(m).dir = "backward"
           /\ IsGreatestOf(At(FindMax(m)), AllKeys \cap U)
<1>1. IsFound(m, TRUE, FindMax(m))
  BY FoundIsFound DEF FindMax
<1> DEFINE f == FindMax(m)
<1> HIDE DEF f
<1>2. SoundCursor(f) /\ f.dir = "backward" /\ IsGreatestOf(At(f), AllKeys \cap U)
  BY <1>1, MaxFollows DEF f
<1> QED
  BY <1>2 DEF f

\* The cursors on the segments have been moved to p.
Repositioned(m, p) == [m EXCEPT !.subs = p]

\* That changes nothing else.
LEMMA Reposition ==
    ASSUME NEW m \in Multi, NEW p \in [Seg -> Place]
    PROVE  /\ Repositioned(m, p) \in Multi /\ Repositioned(m, p).subs = p
           /\ Repositioned(m, p).sorted = m.sorted /\ Repositioned(m, p).panicked = m.panicked
BY DEF Multi, Repositioned

\* A place of a cursor on a segment.
LEMMA PlaceOfKey ==
    ASSUME NEW i, NEW x, NEW U, IsLeastOf(x, KeysOf(i) \cap U) \/ IsGreatestOf(x, KeysOf(i) \cap U)
    PROVE  x \in Place
BY KeyFacts DEF IsLeastOf, IsGreatestOf, Place

\* All keys go up and down, and so do those on one side of a key.
LEMMA Sides ==
    /\ GoesUp(Keys) /\ GoesDown(Keys)
    /\ \A k \in Int : /\ GoesUp({l \in Keys : l >= k}) /\ GoesUp({l \in Keys : l > k})
                      /\ GoesDown({l \in Keys : l <= k}) /\ GoesDown({l \in Keys : l < k})
<1>1. \A k \in Keys : k \in Int
  BY KeyFacts
<1> QED
  BY <1>1 DEF GoesUp, GoesDown

\* first goes to the least key.
LEMMA FirstGoes ==
    ASSUME segs \in SegmentLists, NEW m \in Multi, Arranged(m.sorted), ~m.panicked
    PROVE  /\ SoundCursor(MultiFirst(m)) /\ MultiFirst(m).dir = "forward"
           /\ IsLeastOf(At(MultiFirst(m)), AllKeys)
<1> DEFINE p == [i \in Seg |-> Least(KeysOf(i))]
           v == Repositioned(m, p)
<1>1. \A i \in Seg : IsLeastOf(p[i], KeysOf(i) \cap Keys)
  <2>1. \A i : KeysOf(i) \cap Keys = KeysOf(i) /\ KeysOf(i) \in SUBSET Keys
    BY KeyFacts
  <2> QED
    BY <2>1, IsLeast
<1>2. p \in [Seg -> Place]
  BY <1>1, PlaceOfKey
<1>3. MultiFirst(m) = FindMin(v)
  BY DEF MultiFirst, Repositioned
<1> HIDE DEF p
<1>4. v \in Multi /\ v.subs = p /\ Arranged(v.sorted) /\ ~v.panicked
  BY <1>2, Reposition
<1>5. \A i \in Seg : IsLeastOf(v.subs[i], KeysOf(i) \cap Keys)
  BY <1>1, <1>4
<1> HIDE DEF v
<1>6. /\ SoundCursor(FindMin(v)) /\ FindMin(v).dir = "forward"
      /\ IsLeastOf(At(FindMin(v)), AllKeys \cap Keys)
  BY <1>4, <1>5, Sides, FindMinGoes
<1>7. AllKeys \cap Keys = AllKeys
  BY KeyOrNowhere
<1> QED
  BY <1>3, <1>6, <1>7

\* last goes to the greatest key.
LEMMA LastGoes ==
    ASSUME segs \in SegmentLists, NEW m \in Multi, Arranged(m.sorted), ~m.panicked
    PROVE  /\ SoundCursor(MultiLast(m)) /\ MultiLast(m).dir = "backward"
           /\ IsGreatestOf(At(MultiLast(m)), AllKeys)
<1> DEFINE p == [i \in Seg |-> Greatest(KeysOf(i))]
           v == Repositioned(m, p)
<1>1. \A i \in Seg : IsGreatestOf(p[i], KeysOf(i) \cap Keys)
  <2>1. \A i : KeysOf(i) \cap Keys = KeysOf(i) /\ KeysOf(i) \in SUBSET Keys
    BY KeyFacts
  <2> QED
    BY <2>1, IsLeast
<1>2. p \in [Seg -> Place]
  BY <1>1, PlaceOfKey
<1>3. MultiLast(m) = FindMax(v)
  BY DEF MultiLast, Repositioned
<1> HIDE DEF p
<1>4. v \in Multi /\ v.subs = p /\ Arranged(v.sorted) /\ ~v.panicked
  BY <1>2, Reposition
<1>5. \A i \in Seg : IsGreatestOf(v.subs[i], KeysOf(i) \cap Keys)
  BY <1>1, <1>4
<1> HIDE DEF v
<1>6. /\ SoundCursor(FindMax(v)) /\ FindMax(v).dir = "backward"
      /\ IsGreatestOf(At(FindMax(v)), AllKeys \cap Keys)
  BY <1>4, <1>5, Sides, FindMaxGoes
<1>7. AllKeys \cap Keys = AllKeys
  BY KeyOrNowhere
<1> QED
  BY <1>3, <1>6, <1>7

\* What a seek of k is to find among all keys.
Finds(k, op, x) ==
    CASE op = "EQ" -> x = IF k \in AllKeys THEN k ELSE Nowhere
      [] op = "LE" -> IsGreatestOf(x, {l \in AllKeys : l <= k})
      [] op = "GE" -> IsLeastOf(x, {l \in AllKeys : l >= k})

\* seek finds it, whichever cursors it moved.
LEMMA SeekGoes ==
    ASSUME segs \in SegmentLists, NEW m \in Multi, SoundMulti(m),
           NEW k \in Int, k # Nowhere, NEW op \in {"EQ", "LE", "GE"}
    PROVE  /\ SoundCursor(MultiSeek(m, k, op)) /\ Finds(k, op, At(MultiSeek(m, k, op)))
<1> DEFINE hits == {i \in Seg : SubSeek(i, k, op) = k}
           hit == Least(hits)
           p == [i \in Seg |-> IF hits = {} \/ i <= hit THEN SubSeek(i, k, op) ELSE m.subs[i]]
           v == [m EXCEPT !.cur = NoCursor, !.dir = "wandering", !.subs = p]
<1>1. MultiSeek(m, k, op) =
          IF hits # {} THEN [v EXCEPT !.cur = hit]
          ELSE CASE op = "EQ" -> v [] op = "LE" -> FindMax(v) [] op = "GE" -> FindMin(v)
  BY DEF MultiSeek, Multi
<1>2. \A i \in Seg : SubSeek(i, k, op) \in KeysOf(i) \cup {Nowhere}
  BY SubStays
<1>3. \A i \in Seg : i \in hits <=> k \in KeysOf(i)
  <2> TAKE i \in Seg
  <2>1. i \in hits => k \in KeysOf(i)
    BY <1>2
  <2>2. ASSUME k \in KeysOf(i)
        PROVE  SubSeek(i, k, op) = k
    <3>1. op = "EQ" => SubSeek(i, k, op) = k
      BY <2>2, SubGoes
    <3>2. IsLeastOf(k, KeysFrom(i, k)) /\ IsGreatestOf(k, KeysUpTo(i, k))
      BY <2>2 DEF IsLeastOf, IsGreatestOf, KeysFrom, KeysUpTo
    <3>3. SubSeek(i, k, "GE") = k /\ SubSeek(i, k, "LE") = k
      BY <3>2, SubGoes
    <3> QED
      BY <3>1, <3>3
  <2> QED
    BY <2>1, <2>2
<1>4. m.subs \in [Seg -> Place] /\ Arranged(m.sorted) /\ ~m.panicked
      /\ \A i \in Seg : m.subs[i] \in KeysOf(i) \cup {Nowhere}
  BY MultiParts DEF SoundMulti
<1>5. p \in [Seg -> Place] /\ \A i \in Seg : p[i] \in KeysOf(i) \cup {Nowhere}
  BY <1>2, <1>4, KeyFacts DEF Place
<1> HIDE DEF p, hits
<1>6. /\ v \in Multi /\ v.subs = p /\ v.sorted = m.sorted /\ v.panicked = m.panicked
      /\ v.cur = NoCursor /\ v.dir = "wandering"
  BY <1>5 DEF Multi, Direction
<1>7. SoundMulti(v)
  BY <1>4, <1>5, <1>6 DEF SoundMulti
<1>8. CASE hits # {}
  <2>1. hits \in SUBSET Int /\ IsFiniteSet(hits)
    BY SegFacts, FS_Subset DEF hits
  <2>2. hit \in hits /\ \A i \in hits : hit <= i
    BY <1>8, <2>1, LeastOfFinite
  <2>3. hit \in Seg /\ hit \in Int /\ Seg \subseteq Int
    BY <2>1, <2>2, SegFacts DEF hits
  <2>4. p[hit] = k
    BY <2>2, <2>3 DEF p, hits
  <2> DEFINE f == [v EXCEPT !.cur = hit]
  <2> HIDE DEF hit, v
  <2>5. /\ f \in Multi /\ f.subs = p /\ f.sorted = m.sorted /\ f.panicked = m.panicked
        /\ f.cur = hit /\ f.dir = "wandering"
    BY <1>6, <2>3 DEF Multi, Direction
  <2>6. MultiSeek(m, k, op) = f
    BY <1>1, <1>8 DEF v
  <2> HIDE DEF f
  <2>7. SoundMulti(f)
    BY <1>4, <1>5, <2>5 DEF SoundMulti
  <2>8. MultiValid(f) /\ MultiKey(f) = k /\ At(f) = k
    BY <2>3, <2>4, <2>5, SegFacts DEF MultiValid, MultiKey, At
  <2>9. OnNewest(f)
    <3> SUFFICES ASSUME NEW j \in Seg, j < hit, k \in KeysOf(j)
                 PROVE  FALSE
      BY <2>5, <2>8 DEF OnNewest
    <3> QED
      BY <1>3, <2>2, <2>3
  <2>10. SoundCursor(f)
    BY <2>5, <2>7, <2>9 DEF SoundCursor, Placed
  <2>11. k \in AllKeys
    BY <1>3, <2>2, <2>3, KeyOrNowhere
  <2>12. Finds(k, op, k)
    <3>1. IsLeastOf(k, {l \in AllKeys : l >= k}) /\ IsGreatestOf(k, {l \in AllKeys : l <= k})
      BY <2>11 DEF IsLeastOf, IsGreatestOf
    <3> QED
      BY <2>11, <3>1 DEF Finds
  <2> QED
    BY <2>5, <2>6, <2>8, <2>10, <2>12
<1>9. CASE hits = {}
  <2>1. k \notin AllKeys
    BY <1>3, <1>9 DEF AllKeys
  <2>2. \A i \in Seg : v.subs[i] = SubSeek(i, k, op)
    BY <1>6, <1>9 DEF p
  <2>3. CASE op = "EQ"
    <3>1. MultiSeek(m, k, op) = v
      BY <1>1, <1>9, <2>3
    <3> HIDE DEF v
    <3>2. ~MultiValid(v) /\ At(v) = Nowhere
      BY <1>6 DEF MultiValid, At
    <3>3. SoundCursor(v)
      BY <1>7, <3>2 DEF SoundCursor, Placed
    <3>4. Finds(k, op, Nowhere)
      BY <2>1, <2>3 DEF Finds
    <3> QED
      BY <2>3, <3>1, <3>2, <3>3, <3>4
  <2>4. CASE op = "LE"
    <3>1. MultiSeek(m, k, op) = FindMax(v)
      BY <1>1, <1>9, <2>4
    <3> HIDE DEF v
    <3> DEFINE U == {l \in Keys : l <= k}
    <3>2. \A i \in Seg : IsGreatestOf(v.subs[i], KeysOf(i) \cap U)
      <4> TAKE i \in Seg
      <4>1. KeysOf(i) \cap U = KeysUpTo(i, k)
        BY KeyFacts DEF KeysUpTo
      <4>2. IsGreatestOf(v.subs[i], KeysUpTo(i, k))
        BY <2>2, <2>4, SubGoes
      <4> QED
        BY <4>1, <4>2
    <3>3. GoesDown(U)
      BY Sides
    <3>4. AllKeys \cap U = {l \in AllKeys : l <= k}
      BY KeyOrNowhere
    <3> HIDE DEF U
    <3>5. Arranged(v.sorted) /\ ~v.panicked
      BY <1>4, <1>6
    <3>6. /\ SoundCursor(FindMax(v)) /\ FindMax(v).dir = "backward"
          /\ IsGreatestOf(At(FindMax(v)), AllKeys \cap U)
      BY <1>6, <3>2, <3>3, <3>5, FindMaxGoes
    <3>7. Finds(k, op, At(FindMax(v)))
      BY <2>4, <3>4, <3>6 DEF Finds
    <3> QED
      BY <3>1, <3>6, <3>7
  <2>5. CASE op = "GE"
    <3>1. MultiSeek(m, k, op) = FindMin(v)
      BY <1>1, <1>9, <2>5
    <3> HIDE DEF v
    <3> DEFINE U == {l \in Keys : l >= k}
    <3>2. \A i \in Seg : IsLeastOf(v.subs[i], KeysOf(i) \cap U)
      <4> TAKE i \in Seg
      <4>1. KeysOf(i) \cap U = KeysFrom(i, k)
        BY KeyFacts DEF KeysFrom
      <4>2. IsLeastOf(v.subs[i], KeysFrom(i, k))
        BY <2>2, <2>5, SubGoes
      <4> QED
        BY <4>1, <4>2
    <3>3. GoesUp(U)
      BY Sides
    <3>4. AllKeys \cap U = {l \in AllKeys : l >= k}
      BY KeyOrNowhere
    <3> HIDE DEF U
    <3>5. Arranged(v.sorted) /\ ~v.panicked
      BY <1>4, <1>6
    <3>6. /\ SoundCursor(FindMin(v)) /\ FindMin(v).dir = "forward"
          /\ IsLeastOf(At(FindMin(v)), AllKeys \cap U)
      BY <1>6, <3>2, <3>3, <3>5, FindMinGoes
    <3>7. Finds(k, op, At(FindMin(v)))
      BY <2>5, <3>4, <3>6 DEF Finds
    <3> QED
      BY <2>5, <3>1, <3>6, <3>7
  <2> QED
    BY <2>3, <2>4, <2>5
<1> QED
  BY <1>8, <1>9

\* A valid cursor stands on a key of the segment whose cursor is current.
LEMMA ValidKey ==
    ASSUME segs \in SegmentLists, NEW m \in Multi, SoundMulti(m), MultiValid(m)
    PROVE  /\ m.cur \in Seg /\ MultiKey(m) \in KeysOf(m.cur) /\ MultiKey(m) \in Int
           /\ MultiKey(m) \in AllKeys /\ MultiKey(m) \in Keys /\ MultiKey(m) # Nowhere
           /\ At(m) = MultiKey(m)
<1>1. m.cur \in Seg /\ MultiKey(m) \in KeysOf(m.cur) /\ At(m) = MultiKey(m)
  BY MultiParts DEF SoundMulti, MultiValid, MultiKey, At
<1> QED
  BY <1>1, KeyOrNowhere

\* A cursor that is not current gets beyond the key.
LEMMA BeyondGoes ==
    ASSUME segs \in SegmentLists, NEW m \in Multi, NEW key \in Int, key # Nowhere, NEW i \in Seg,
           m.subs[i] \in KeysOf(i) \cup {Nowhere},
           m.dir = "wandering" \/ (m.dir = "backward" /\ m.subs[i] = SubSeek(i, key, "LE"))
    PROVE  IsLeastOf(Beyond(m, i, key), KeysAfter(i, key)) /\ ~Unreachable(m, i, key)
<1>1. \A l \in KeysOf(i) : l \in Int /\ l # Nowhere
  BY KeyOrNowhere
<1>2. IsLeastOf(AfterSeek(i, key), KeysAfter(i, key))
  <2> DEFINE at == SubSeek(i, key, "GE")
  <2>1. IsLeastOf(at, KeysFrom(i, key))
    BY SubGoes
  <2>2. AfterSeek(i, key) = IF at = key THEN SubNext(i, key) ELSE at
    BY DEF AfterSeek
  <2>3. IsLeastOf(SubNext(i, key), KeysAfter(i, key))
    BY SubGoes
  <2> HIDE DEF at
  <2>4. ASSUME at # key
        PROVE  IsLeastOf(at, KeysAfter(i, key))
    <3>1. KeysAfter(i, key) \subseteq KeysFrom(i, key)
      BY <1>1 DEF KeysAfter, KeysFrom
    <3>2. at \in KeysFrom(i, key) => at \in KeysAfter(i, key)
      BY <1>1, <2>4 DEF KeysAfter, KeysFrom
    <3> QED
      BY <2>1, <3>1, <3>2 DEF IsLeastOf
  <2> QED
    BY <2>2, <2>3, <2>4
<1>3. CASE m.dir = "wandering" \/ m.subs[i] = Nowhere
  <2>1. Beyond(m, i, key) = AfterSeek(i, key)
    BY <1>3 DEF Beyond
  <2>2. ~Unreachable(m, i, key)
    BY <1>3 DEF Unreachable
  <2> QED
    BY <1>2, <2>1, <2>2
<1>4. CASE m.dir = "backward" /\ m.subs[i] # Nowhere /\ m.subs[i] = SubSeek(i, key, "LE")
  <2> DEFINE was == m.subs[i]
             one == SubNext(i, was)
  <2>1. was \in KeysUpTo(i, key) /\ was \in Int /\ \A l \in KeysUpTo(i, key) : l <= was
    <3>1. IsGreatestOf(was, KeysUpTo(i, key))
      BY <1>4, SubGoes
    <3> QED
      BY <1>1, <1>4, <3>1 DEF IsGreatestOf, KeysUpTo
  <2>2. IsLeastOf(one, KeysAfter(i, was))
    BY SubGoes
  <2>3. Beyond(m, i, key) = IF one = key THEN SubNext(i, one) ELSE one
    BY <1>4 DEF Beyond, AfterStep
  <2> HIDE DEF one, was
  <2>4. KeysAfter(i, was) = KeysAfter(i, key)
    <3>1. was <= key
      BY <2>1 DEF KeysUpTo
    <3>2. \A l \in KeysOf(i) : l > was => l > key
      <4> TAKE l \in KeysOf(i)
      <4>1. l <= key => l \in KeysUpTo(i, key)
        BY DEF KeysUpTo
      <4> QED
        BY <1>1, <2>1, <4>1
    <3> QED
      BY <1>1, <2>1, <3>1, <3>2 DEF KeysAfter
  <2>5. one = Nowhere \/ (one \in Int /\ one > key)
    BY <1>1, <2>2, <2>4 DEF IsLeastOf, KeysAfter
  <2>6. one # key /\ ~(one # Nowhere /\ one < key)
    BY <2>5
  <2>7. IsLeastOf(Beyond(m, i, key), KeysAfter(i, key))
    BY <2>2, <2>3, <2>4, <2>6
  <2>8. ~(was > key)
    BY <2>1 DEF KeysUpTo
  <2>9. ~Unreachable(m, i, key)
    BY <2>6, <2>8 DEF Unreachable, one, was
  <2> QED
    BY <2>7, <2>9
<1> QED
  BY <1>3, <1>4

\* next goes to the next key, from whatever direction, and reaches no place that
\* should be unreachable.
LEMMA NextGoes ==
    ASSUME segs \in SegmentLists, NEW m, SoundCursor(m), MultiValid(m)
    PROVE  /\ SoundCursor(MultiNext(m)) /\ MultiNext(m).dir = "forward"
           /\ IsLeastOf(At(MultiNext(m)), {l \in AllKeys : l > MultiKey(m)})
<1> DEFINE key == MultiKey(m)
           others == Seg \ {m.cur}
           moved == [i \in Seg |->
                        IF i = m.cur THEN SubNext(i, key)
                        ELSE IF m.dir # "forward" THEN Beyond(m, i, key)
                        ELSE IF i \in EqualRun(m) THEN SubNext(i, m.subs[i]) ELSE m.subs[i]]
           fails == IF m.dir = "forward" THEN m.cur # m.sorted[1].sub
                    ELSE \E i \in others : Unreachable(m, i, key)
           v == [m EXCEPT !.subs = moved, !.panicked = @ \/ fails]
           U == {l \in Keys : l > key}
<1>1. MultiNext(m) = FindMin(v)
  BY DEF MultiNext
<1>2. m \in Multi /\ SoundMulti(m) /\ Arranged(m.sorted) /\ ~m.panicked
      /\ \A i \in Seg : m.subs[i] \in KeysOf(i) \cup {Nowhere}
  BY DEF SoundCursor, SoundMulti
<1>3. m.cur \in Seg /\ key \in KeysOf(m.cur) /\ key \in Int /\ key # Nowhere /\ key = m.subs[m.cur]
  BY <1>2, ValidKey DEF MultiKey
<1>4. /\ m.dir = "forward" => GoesForward(m)
      /\ m.dir = "backward" => GoesBackward(m)
      /\ m.dir \in Direction
  BY <1>2, MultiParts DEF SoundCursor, Placed
<1> HIDE DEF key
<1>5. \A i \in Seg : IsLeastOf(SubNext(i, key), KeysAfter(i, key))
  BY SubGoes
<1>6. ASSUME m.dir # "forward", NEW i \in Seg
      PROVE  IsLeastOf(Beyond(m, i, key), KeysAfter(i, key)) /\ ~Unreachable(m, i, key)
  <2>1. m.dir = "wandering" \/ (m.dir = "backward" /\ m.subs[i] = SubSeek(i, key, "LE"))
    BY <1>4, <1>6 DEF Direction, GoesBackward, key
  <2> QED
    BY <1>2, <1>3, <2>1, BeyondGoes
<1>7. ASSUME m.dir = "forward", NEW i \in Seg, i # m.cur
      PROVE  IsLeastOf(IF i \in EqualRun(m) THEN SubNext(i, m.subs[i]) ELSE m.subs[i],
                       KeysAfter(i, key))
  <2>1. IsLeastOf(m.subs[i], KeysFrom(i, key))
    BY <1>4, <1>7, SubGoes DEF GoesForward, key
  <2>2. i \in EqualRun(m) <=> key \in KeysOf(i)
    BY <1>4, <1>7 DEF GoesForward, key
  <2>3. \A l \in KeysOf(i) : l \in Int /\ l # Nowhere
    BY KeyOrNowhere
  <2>4. CASE key \in KeysOf(i)
    <3>1. IsLeastOf(key, KeysFrom(i, key))
      BY <1>3, <2>4 DEF IsLeastOf, KeysFrom
    <3>2. m.subs[i] = key
      <4>1. m.subs[i] = SubSeek(i, key, "GE") /\ key = SubSeek(i, key, "GE")
        BY <2>1, <3>1, SubGoes
      <4> QED
        BY <4>1
    <3> QED
      BY <1>5, <2>2, <2>4, <3>2
  <2>5. CASE key \notin KeysOf(i)
    <3>1. KeysFrom(i, key) = KeysAfter(i, key)
      BY <1>3, <2>3, <2>5 DEF KeysFrom, KeysAfter
    <3> QED
      BY <2>1, <2>2, <2>5, <3>1
  <2> QED
    BY <2>4, <2>5
<1>8. \A i \in Seg : IsLeastOf(moved[i], KeysAfter(i, key))
  BY <1>5, <1>6, <1>7
<1>9. \A i : KeysAfter(i, key) = KeysOf(i) \cap U
  BY KeyFacts DEF KeysAfter
<1>10. fails = FALSE
  <2>1. CASE m.dir = "forward"
    BY <1>4, <2>1 DEF GoesForward
  <2>2. CASE m.dir # "forward"
    BY <1>6, <2>2
  <2> QED
    BY <2>1, <2>2
<1> HIDE DEF fails, moved
<1>11. v.subs = moved /\ v.sorted = m.sorted /\ v.panicked = (m.panicked \/ fails)
       /\ v.cur = m.cur /\ v.dir = m.dir
       /\ v = [subs |-> v.subs, sorted |-> v.sorted, cur |-> v.cur, dir |-> v.dir,
               panicked |-> v.panicked]
  <2>1. DOMAIN m = {"subs", "sorted", "cur", "dir", "panicked"}
    BY <1>2 DEF Multi
  <2> DEFINE bad == m.panicked \/ fails
  <2>2. v = [m EXCEPT !.subs = moved, !.panicked = bad]
    OBVIOUS
  <2> HIDE DEF bad, v
  <2>3. /\ v.subs = moved /\ v.sorted = m.sorted /\ v.panicked = bad
        /\ v.cur = m.cur /\ v.dir = m.dir
        /\ DOMAIN v = {"subs", "sorted", "cur", "dir", "panicked"}
    BY <2>1, <2>2
  <2>4. v = [subs |-> v.subs, sorted |-> v.sorted, cur |-> v.cur, dir |-> v.dir,
             panicked |-> v.panicked]
    BY <2>1, <2>2, <2>3
  <2> QED
    BY <2>3, <2>4 DEF bad
<1>12. ~v.panicked /\ v.panicked \in BOOLEAN
  BY <1>2, <1>10, <1>11
<1>13. DOMAIN moved = Seg /\ moved = [i \in Seg |-> moved[i]]
  BY DEF moved
<1>14. moved \in [Seg -> Place]
  <2>1. \A i \in Seg : moved[i] \in Place
    BY <1>8, <1>9, PlaceOfKey
  <2> QED
    BY <1>13, <2>1
<1> HIDE DEF v
<1>15. v \in Multi
  <2> DEFINE a == v.subs
             b == v.sorted
             c == v.cur
             d == v.dir
             e == v.panicked
  <2>1. v = [subs |-> a, sorted |-> b, cur |-> c, dir |-> d, panicked |-> e]
    BY <1>11, Zenon
  <2>2. /\ a \in [Seg -> Place] /\ b \in [Seg -> Entry] /\ c \in Seg \cup {NoCursor}
        /\ d \in Direction /\ e \in BOOLEAN
    BY <1>2, <1>11, <1>12, <1>14, MultiParts
  <2> HIDE DEF a, b, c, d, e
  <2> QED
    BY <2>1, <2>2 DEF Multi
<1>16. \A i \in Seg : IsLeastOf(v.subs[i], KeysOf(i) \cap U)
  BY <1>8, <1>9, <1>11
<1>17. GoesUp(U) /\ AllKeys \cap U = {l \in AllKeys : l > key}
  BY <1>3, Sides, KeyOrNowhere
<1> HIDE DEF U
<1>18. Arranged(v.sorted)
  BY <1>2, <1>11
<1>19. /\ SoundCursor(FindMin(v)) /\ FindMin(v).dir = "forward"
       /\ IsLeastOf(At(FindMin(v)), AllKeys \cap U)
  BY <1>12, <1>15, <1>16, <1>17, <1>18, FindMinGoes
<1> QED
  BY <1>1, <1>17, <1>19 DEF key

\* prev goes to the previous key.
LEMMA PrevGoes ==
    ASSUME segs \in SegmentLists, NEW m, SoundCursor(m), MultiValid(m)
    PROVE  /\ SoundCursor(MultiPrev(m)) /\ MultiPrev(m).dir = "backward"
           /\ IsGreatestOf(At(MultiPrev(m)), {l \in AllKeys : l < MultiKey(m)})
<1> DEFINE key == MultiKey(m)
           Sought(i) == IF m.dir # "backward" /\ i # m.cur THEN SubSeek(i, key, "LE")
                        ELSE m.subs[i]
           moved == [i \in Seg |-> IF Sought(i) = key THEN SubPrev(i, key) ELSE Sought(i)]
           v == Repositioned(m, moved)
           U == {l \in Keys : l < key}
<1>1. MultiPrev(m) = FindMax(v)
  BY DEF MultiPrev, Repositioned
<1>2. m \in Multi /\ SoundMulti(m) /\ Arranged(m.sorted) /\ ~m.panicked
  BY DEF SoundCursor, SoundMulti
<1>3. m.cur \in Seg /\ key \in KeysOf(m.cur) /\ key \in Int /\ key # Nowhere /\ key = m.subs[m.cur]
  BY <1>2, ValidKey DEF MultiKey
<1>4. m.dir = "backward" => GoesBackward(m)
  BY DEF SoundCursor, Placed
<1> HIDE DEF key
<1>5. ASSUME NEW i \in Seg
      PROVE  IsGreatestOf(moved[i], KeysBefore(i, key))
  <2>1. \A l \in KeysOf(i) : l \in Int /\ l # Nowhere
    BY KeyOrNowhere
  <2>2. Sought(i) = SubSeek(i, key, "LE")
    <3>1. CASE m.dir = "backward"
      BY <1>4, <3>1 DEF GoesBackward, key
    <3>2. CASE m.dir # "backward" /\ i # m.cur
      BY <3>2
    <3>3. CASE i = m.cur
      <4>1. IsGreatestOf(key, KeysUpTo(i, key))
        BY <1>3, <3>3 DEF IsGreatestOf, KeysUpTo
      <4>2. key = SubSeek(i, key, "LE")
        BY <4>1, SubGoes
      <4> QED
        BY <1>3, <3>1, <3>3, <4>2
    <3> QED
      BY <3>1, <3>2, <3>3
  <2>3. moved[i] = IF SubSeek(i, key, "LE") = key THEN SubPrev(i, key) ELSE SubSeek(i, key, "LE")
    BY <2>2
  <2> DEFINE at == SubSeek(i, key, "LE")
  <2>4. IsGreatestOf(at, KeysUpTo(i, key)) /\ IsGreatestOf(SubPrev(i, key), KeysBefore(i, key))
    BY SubGoes
  <2>5. moved[i] = IF at = key THEN SubPrev(i, key) ELSE at
    BY <2>3
  <2> HIDE DEF at, moved
  <2>6. ASSUME at # key
        PROVE  IsGreatestOf(at, KeysBefore(i, key))
    <3>1. KeysBefore(i, key) \subseteq KeysUpTo(i, key)
      <4>1. \A l \in KeysOf(i) : l < key => l <= key
        BY <1>3, <2>1
      <4> QED
        BY <4>1 DEF KeysBefore, KeysUpTo
    <3>2. at \in KeysUpTo(i, key) => at \in KeysBefore(i, key)
      BY <1>3, <2>1, <2>6 DEF KeysBefore, KeysUpTo
    <3> QED
      BY <2>4, <3>1, <3>2 DEF IsGreatestOf
  <2> QED
    BY <2>4, <2>5, <2>6
<1> HIDE DEF moved
<1>6. \A i : KeysBefore(i, key) = KeysOf(i) \cap U
  BY KeyFacts DEF KeysBefore
<1>7. \A i \in Seg : IsGreatestOf(moved[i], KeysOf(i) \cap U)
  BY <1>5, <1>6
<1>8. DOMAIN moved = Seg /\ moved = [i \in Seg |-> moved[i]]
  BY DEF moved
<1>9. moved \in [Seg -> Place]
  <2>1. \A i \in Seg : moved[i] \in Place
    BY <1>7, PlaceOfKey
  <2> QED
    BY <1>8, <2>1
<1>10. v \in Multi /\ v.subs = moved /\ Arranged(v.sorted) /\ ~v.panicked
  BY <1>2, <1>9, Reposition
<1> HIDE DEF v
<1>11. \A i \in Seg : IsGreatestOf(v.subs[i], KeysOf(i) \cap U)
  BY <1>7, <1>10
<1>12. GoesDown(U) /\ AllKeys \cap U = {l \in AllKeys : l < key}
  BY <1>3, Sides, KeyOrNowhere
<1> HIDE DEF U
<1>13. /\ SoundCursor(FindMax(v)) /\ FindMax(v).dir = "backward"
       /\ IsGreatestOf(At(FindMax(v)), AllKeys \cap U)
  BY <1>10, <1>11, <1>12, FindMaxGoes
<1> QED
  BY <1>1, <1>12, <1>13 DEF key

-----------------------------------------------------------------------------
(* LivingCursor.                                                           *)

\* The keys that are not deleted: their newest entry is no tombstone.
LivingKeys ==
    {k \in Keys : \E i \in Seg :
        k \in KeysOf(i) /\ (\A j \in Seg : j < i => k \notin KeysOf(j)) /\ segs[i][k] = Live}

\* A cursor on the newest segment that has its key sees whether it is deleted.
LEMMA SeesTombstone ==
    ASSUME segs \in SegmentLists, NEW m, SoundCursor(m), MultiValid(m)
    PROVE  /\ IsTombstone(m) <=> MultiKey(m) \notin LivingKeys
           /\ LivingKeys \subseteq AllKeys
<1> DEFINE key == MultiKey(m)
           c == m.cur
<1>1. m \in Multi /\ SoundMulti(m) /\ OnNewest(m)
  BY DEF SoundCursor, SoundMulti, Placed
<1>2. c \in Seg /\ key \in KeysOf(c) /\ key \in Keys
  BY <1>1, ValidKey
<1>3. \A j \in Seg : j < c => key \notin KeysOf(j)
  BY <1>1 DEF OnNewest
<1>4. IsTombstone(m) <=> segs[c][key] = Tombstone
  BY DEF IsTombstone
<1> HIDE DEF key, c
<1>5. segs[c][key] \in {Live, Tombstone, Absent} /\ segs[c][key] # Absent
  BY <1>2, SegFacts DEF KeysOf
<1>6. segs[c][key] = Live => key \in LivingKeys
  BY <1>2, <1>3 DEF LivingKeys
<1>7. ASSUME key \in LivingKeys
      PROVE  segs[c][key] = Live
  <2>1. PICK i \in Seg : /\ key \in KeysOf(i) /\ segs[i][key] = Live
                         /\ \A j \in Seg : j < i => key \notin KeysOf(j)
    BY <1>7 DEF LivingKeys
  <2>2. i \in Int /\ c \in Int
    BY <1>2, SegFacts
  <2>3. ~(c < i) /\ ~(i < c)
    BY <1>2, <1>3, <2>1
  <2> QED
    BY <2>1, <2>2, <2>3
<1>8. Live # Tombstone
  BY CursorsAssumption
<1>9. LivingKeys \subseteq AllKeys
  BY DEF LivingKeys, AllKeys
<1> QED
  BY <1>4, <1>5, <1>6, <1>7, <1>8, <1>9 DEF key

\* How many keys there are before one.
KeysBelow(k) == {l \in Keys : l < k}

\* There are more before a later one, and not all.
LEMMA CountBelow ==
    ASSUME NEW k \in Keys
    PROVE  /\ Cardinality(KeysBelow(k)) \in Nat /\ Cardinality(KeysBelow(k)) < Cardinality(Keys)
           /\ \A l \in Keys : k < l => Cardinality(KeysBelow(k)) < Cardinality(KeysBelow(l))
<1>1. IsFiniteSet(Keys) /\ k \in Int /\ Cardinality(Keys) \in Nat
  BY KeyFacts, FS_CardinalityType
<1>2. \A l : IsFiniteSet(KeysBelow(l)) /\ Cardinality(KeysBelow(l)) \in Nat
  <2>1. \A l : KeysBelow(l) \in SUBSET Keys
    BY DEF KeysBelow
  <2> QED
    BY <1>1, <2>1, FS_Subset, FS_CardinalityType
<1>3. ASSUME NEW S, IsFiniteSet(S), Cardinality(S) \in Nat, k \in S, KeysBelow(k) \subseteq S
      PROVE  Cardinality(KeysBelow(k)) < Cardinality(S)
  <2>1. k \notin KeysBelow(k)
    BY <1>1 DEF KeysBelow
  <2>2. /\ Cardinality(KeysBelow(k)) <= Cardinality(S)
        /\ Cardinality(S) = Cardinality(KeysBelow(k)) => S = KeysBelow(k)
    BY <1>3, FS_Subset
  <2> QED
    BY <1>2, <1>3, <2>1, <2>2
<1>4. Cardinality(KeysBelow(k)) < Cardinality(Keys)
  BY <1>1, <1>3 DEF KeysBelow
<1>5. ASSUME NEW l \in Keys, k < l
      PROVE  Cardinality(KeysBelow(k)) < Cardinality(KeysBelow(l))
  <2>1. KeysBelow(k) \subseteq KeysBelow(l) /\ k \in KeysBelow(l)
    <3>1. \A n \in Keys : n \in Int
      BY KeyFacts
    <3>2. \A n \in Keys : n < k => n < l
      BY <1>1, <1>5, <3>1
    <3> QED
      BY <1>5, <3>2 DEF KeysBelow
  <2> QED
    BY <1>2, <1>3, <2>1
<1> QED
  BY <1>2, <1>4, <1>5

\* The cursor has passed no living key of U, and at least n keys when it is to go on.
PassedForward(m, U, n) ==
    /\ SoundCursor(m)
    /\ MultiValid(m) => MultiKey(m) \in U /\ \A l \in LivingKeys \cap U : MultiKey(m) <= l
    /\ ~MultiValid(m) => LivingKeys \cap U = {}
    /\ OnTombstone(m) => Cardinality(KeysBelow(MultiKey(m))) >= n

\* One round passes one tombstone.
LEMMA PassTombstone ==
    ASSUME segs \in SegmentLists, NEW m, NEW U, GoesUp(U), NEW n \in Nat,
           PassedForward(m, U, n), OnTombstone(m)
    PROVE  PassedForward(MultiNext(m), U, n + 1)
<1> DEFINE f == MultiNext(m)
           key == MultiKey(m)
<1>1. SoundCursor(m) /\ MultiValid(m) /\ key \notin LivingKeys /\ LivingKeys \subseteq AllKeys
  BY SeesTombstone DEF PassedForward, OnTombstone
<1>2. SoundCursor(f) /\ IsLeastOf(At(f), {l \in AllKeys : l > key})
  BY <1>1, NextGoes
<1>3. key \in U /\ key \in Keys /\ key \in Int /\ \A l \in LivingKeys \cap U : key <= l
  BY <1>1, ValidKey DEF PassedForward, SoundCursor, SoundMulti
<1>4. Cardinality(KeysBelow(key)) >= n
  BY DEF PassedForward
<1>5. \A l \in AllKeys : l \in Int /\ l \in Keys /\ l # Nowhere
  BY KeyFacts, KeyOrNowhere
<1> HIDE DEF f, key
<1>6. \A l \in LivingKeys \cap U : l > key /\ l \in AllKeys
  <2> TAKE l \in LivingKeys \cap U
  <2>1. l \in AllKeys /\ l # key /\ key <= l /\ l \in Int
    BY <1>1, <1>3, <1>5
  <2> QED
    BY <1>3, <2>1
<1>7. CASE MultiValid(f)
  <2>1. At(f) = MultiKey(f) /\ MultiKey(f) \in Keys /\ MultiKey(f) \in Int /\ MultiKey(f) # Nowhere
    BY <1>2, <1>7, ValidKey DEF SoundCursor, SoundMulti
  <2> DEFINE x == MultiKey(f)
  <2>2. x \in AllKeys /\ x > key /\ \A l \in AllKeys : l > key => x <= l
    BY <1>2, <2>1 DEF IsLeastOf
  <2> HIDE DEF x
  <2>3. x \in U
    <3>1. key <= x
      BY <1>3, <1>5, <2>2
    <3> QED
      BY <1>3, <1>5, <2>2, <3>1 DEF GoesUp
  <2>4. \A l \in LivingKeys \cap U : x <= l
    BY <1>6, <2>2
  <2>5. Cardinality(KeysBelow(x)) >= n + 1
    <3>1. /\ Cardinality(KeysBelow(key)) < Cardinality(KeysBelow(x))
          /\ Cardinality(KeysBelow(key)) \in Nat /\ Cardinality(KeysBelow(x)) \in Nat
      BY <1>3, <1>5, <2>2, CountBelow
    <3> QED
      BY <1>4, <3>1
  <2>6. PassedForward(f, U, n + 1)
    BY <1>2, <1>7, <2>3, <2>4, <2>5 DEF PassedForward, x
  <2> QED
    BY <2>6 DEF f
<1>8. CASE ~MultiValid(f)
  <2>1. At(f) = Nowhere
    BY <1>8 DEF At
  <2>2. \A l \in AllKeys : ~(l > key)
    BY <1>2, <1>5, <2>1 DEF IsLeastOf
  <2>3. LivingKeys \cap U = {}
    BY <1>6, <2>2
  <2>4. PassedForward(f, U, n + 1)
    BY <1>2, <1>8, <2>3 DEF PassedForward, OnTombstone
  <2> QED
    BY <2>4 DEF f
<1> QED
  BY <1>7, <1>8

PassOneForward(m) == IF OnTombstone(m) THEN MultiNext(m) ELSE m
AreRoundsForward(m, r) ==
    r = [n \in 0..Cardinality(Keys) |-> IF n = 0 THEN m ELSE PassOneForward(r[n - 1])]

\* The rounds of the loop are what they are said to be.
LEMMA RoundsForwardExist ==
    ASSUME segs \in SegmentLists, NEW m, SoundCursor(m)
    PROVE  \E r : AreRoundsForward(m, r)
<1> DEFINE X == {c \in Multi : SoundCursor(c)}
           N == Cardinality(Keys)
           g == [p \in Nat \X X |-> PassOneForward(p[2])]
<1>1. N \in Nat /\ 0 <= N /\ 0 \in Nat
  BY KeyFacts, FS_CardinalityType
<1>2. \A c : c \in X <=> SoundCursor(c)
  BY DEF SoundCursor, SoundMulti
<1> HIDE DEF X
<1>3. \A c \in X : PassOneForward(c) \in X
  <2> TAKE c \in X
  <2>1. OnTombstone(c) => SoundCursor(MultiNext(c))
    BY <1>2, NextGoes DEF OnTombstone
  <2> QED
    BY <1>2, <2>1 DEF PassOneForward
<1>4. g \in [Nat \X X -> X]
  <2> DEFINE S == Nat \X X
  <2>1. \A p \in S : PassOneForward(p[2]) \in X
    BY <1>3
  <2> QED
    BY <2>1
<1>5. AreSteps(g, X) /\ m \in X
  BY <1>2, <1>4 DEF AreSteps
<1>6. \A n \in Nat : \A c \in X : g[<<n, c>>] = PassOneForward(c)
  OBVIOUS
<1> HIDE DEF g, N
<1>7. PICK f : IsLoopOf(f, X, m, 0, N, g)
  BY <1>1, <1>5, LoopExists
<1>8. f \in [0..N -> X] /\ f[0] = m
  BY <1>7 DEF IsLoopOf
<1>9. ASSUME NEW n \in 0..N
      PROVE  f[n] = IF n = 0 THEN m ELSE PassOneForward(f[n - 1])
  <2>1. CASE n = 0
    BY <1>8, <2>1
  <2>2. CASE n # 0
    <3>1. n \in 0 + 1..N /\ n - 1 \in 0..N /\ n \in Nat
      BY <1>1, <2>2
    <3>2. f[n - 1] \in X
      BY <1>8, <3>1
    <3>3. f[n] = g[<<n, f[n - 1]>>]
      BY <1>7, <3>1 DEF IsLoopOf
    <3> QED
      BY <1>6, <2>2, <3>1, <3>2, <3>3
  <2> QED
    BY <2>1, <2>2
<1>10. f = [n \in 0..N |-> IF n = 0 THEN m ELSE PassOneForward(f[n - 1])]
  BY <1>8, <1>9
<1>11. AreRoundsForward(m, f)
  BY <1>10 DEF AreRoundsForward, N
<1> QED
  BY <1>11

\* The loop ends on the least living key, or nowhere when there is none.
LEMMA SkipsForward ==
    ASSUME segs \in SegmentLists, NEW m, SoundCursor(m), NEW U, GoesUp(U),
           IsLeastOf(At(m), AllKeys \cap U)
    PROVE  /\ SoundCursor(SkipForward(m)) /\ ~OnTombstone(SkipForward(m))
           /\ IsLeastOf(At(SkipForward(m)), LivingKeys \cap U)
<1> DEFINE r == CHOOSE x : AreRoundsForward(m, x)
           N == Cardinality(Keys)
           Bad == {n \in 0..N : ~PassedForward(r[n], U, n)}
<1>1. N \in Nat /\ 0 \in 0..N /\ N \in 0..N
  BY KeyFacts, FS_CardinalityType
<1>2. AreRoundsForward(m, r)
  BY RoundsForwardExist
<1>3. SkipForward(m) = r[N]
  BY DEF SkipForward, AreRoundsForward, PassOneForward
<1> HIDE DEF r, N
<1>4. \A n \in 0..N : r[n] = IF n = 0 THEN m ELSE PassOneForward(r[n - 1])
  BY <1>2 DEF AreRoundsForward, N
<1>5. PassedForward(m, U, 0)
  <2>1. \A l \in AllKeys : l \in Keys /\ l # Nowhere
    BY KeyFacts, KeyOrNowhere
  <2>2. CASE MultiValid(m)
    <3>1. /\ At(m) = MultiKey(m) /\ MultiKey(m) # Nowhere /\ LivingKeys \subseteq AllKeys
          /\ MultiKey(m) \in Keys
      BY <2>2, ValidKey, SeesTombstone DEF SoundCursor, SoundMulti
    <3>2. MultiKey(m) \in U /\ \A l \in AllKeys \cap U : MultiKey(m) <= l
      BY <3>1 DEF IsLeastOf
    <3>3. Cardinality(KeysBelow(MultiKey(m))) >= 0
      BY <3>1, CountBelow
    <3> QED
      BY <2>2, <3>1, <3>2, <3>3 DEF PassedForward
  <2>3. CASE ~MultiValid(m)
    <3>1. At(m) = Nowhere
      BY <2>3 DEF At
    <3>2. AllKeys \cap U = {}
      BY <2>1, <3>1 DEF IsLeastOf
    <3>3. LivingKeys \cap U = {}
      BY <3>2 DEF LivingKeys, AllKeys
    <3> QED
      BY <2>3, <3>3 DEF PassedForward, OnTombstone
  <2> QED
    BY <2>2, <2>3
<1>6. ASSUME Bad # {}
      PROVE  FALSE
  <2>1. Bad \in SUBSET Int /\ IsFiniteSet(Bad)
    <3>1. IsFiniteSet(0..N) /\ Bad \in SUBSET (0..N)
      BY <1>1, FS_Interval
    <3>2. Bad \in SUBSET Int
      BY <1>1, <3>1
    <3> DEFINE S == 0..N
    <3>3. IsFiniteSet(S) /\ Bad \in SUBSET S
      BY <3>1
    <3> HIDE DEF Bad, S
    <3> QED
      BY <3>2, <3>3, FS_Subset
  <2>2. PICK n \in Bad : \A i \in Bad : n <= i
    <3> HIDE DEF Bad
    <3> QED
      BY <1>6, <2>1, LeastOfFinite
  <2>3. n \in 0..N /\ ~PassedForward(r[n], U, n)
    BY <2>2
  <2>4. n # 0
    BY <1>1, <1>4, <1>5, <2>3
  <2>5. n - 1 \in 0..N /\ ~(n <= n - 1) /\ n - 1 \in Nat /\ (n - 1) + 1 = n
    BY <1>1, <2>3, <2>4
  <2>6. PassedForward(r[n - 1], U, n - 1)
    BY <2>2, <2>5
  <2>7. r[n] = PassOneForward(r[n - 1])
    BY <1>4, <2>3, <2>4
  <2>8. CASE OnTombstone(r[n - 1])
    <3>1. PassedForward(MultiNext(r[n - 1]), U, (n - 1) + 1)
      BY <2>5, <2>6, <2>8, PassTombstone
    <3> QED
      BY <2>3, <2>5, <2>7, <2>8, <3>1 DEF PassOneForward
  <2>9. CASE ~OnTombstone(r[n - 1])
    <3>1. r[n] = r[n - 1]
      BY <2>7, <2>9 DEF PassOneForward
    <3> QED
      BY <2>3, <2>6, <2>9, <3>1 DEF PassedForward
  <2> QED
    BY <2>8, <2>9
<1> DEFINE f == r[N]
<1>7. PassedForward(f, U, N)
  BY <1>1, <1>6
<1> HIDE DEF f, Bad
<1>8. SoundCursor(f)
  BY <1>7 DEF PassedForward
<1>9. ~OnTombstone(f)
  <2> SUFFICES ASSUME OnTombstone(f)
               PROVE  FALSE
    OBVIOUS
  <2>1. MultiKey(f) \in Keys
    BY <1>8, ValidKey DEF SoundCursor, SoundMulti, OnTombstone
  <2>2. Cardinality(KeysBelow(MultiKey(f))) >= N
    BY <1>7 DEF PassedForward
  <2>3. /\ Cardinality(KeysBelow(MultiKey(f))) \in Nat
        /\ Cardinality(KeysBelow(MultiKey(f))) < N
    BY <2>1, CountBelow DEF N
  <2> QED
    BY <1>1, <2>2, <2>3
<1>10. IsLeastOf(At(f), LivingKeys \cap U)
  <2>1. CASE MultiValid(f)
    <3>1. MultiKey(f) \in LivingKeys
      BY <1>8, <1>9, <2>1, SeesTombstone DEF OnTombstone
    <3>2. At(f) = MultiKey(f)
      BY <1>8, <2>1, ValidKey DEF SoundCursor, SoundMulti
    <3> QED
      BY <1>7, <2>1, <3>1, <3>2 DEF PassedForward, IsLeastOf
  <2>2. CASE ~MultiValid(f)
    BY <1>7, <2>2 DEF PassedForward, IsLeastOf, At
  <2> QED
    BY <2>1, <2>2
<1> QED
  BY <1>3, <1>8, <1>9, <1>10 DEF f

\* How many keys there are after one.
KeysAbove(k) == {l \in Keys : l > k}

\* There are more after an earlier one, and not all.
LEMMA CountAbove ==
    ASSUME NEW k \in Keys
    PROVE  /\ Cardinality(KeysAbove(k)) \in Nat /\ Cardinality(KeysAbove(k)) < Cardinality(Keys)
           /\ \A l \in Keys : l < k => Cardinality(KeysAbove(k)) < Cardinality(KeysAbove(l))
<1>1. IsFiniteSet(Keys) /\ k \in Int /\ Cardinality(Keys) \in Nat
  BY KeyFacts, FS_CardinalityType
<1>2. \A l : IsFiniteSet(KeysAbove(l)) /\ Cardinality(KeysAbove(l)) \in Nat
  <2>1. \A l : KeysAbove(l) \in SUBSET Keys
    BY DEF KeysAbove
  <2> QED
    BY <1>1, <2>1, FS_Subset, FS_CardinalityType
<1>3. ASSUME NEW S, IsFiniteSet(S), Cardinality(S) \in Nat, k \in S, KeysAbove(k) \subseteq S
      PROVE  Cardinality(KeysAbove(k)) < Cardinality(S)
  <2>1. k \notin KeysAbove(k)
    BY <1>1 DEF KeysAbove
  <2>2. /\ Cardinality(KeysAbove(k)) <= Cardinality(S)
        /\ Cardinality(S) = Cardinality(KeysAbove(k)) => S = KeysAbove(k)
    BY <1>3, FS_Subset
  <2> QED
    BY <1>2, <1>3, <2>1, <2>2
<1>4. Cardinality(KeysAbove(k)) < Cardinality(Keys)
  BY <1>1, <1>3 DEF KeysAbove
<1>5. ASSUME NEW l \in Keys, l < k
      PROVE  Cardinality(KeysAbove(k)) < Cardinality(KeysAbove(l))
  <2>1. KeysAbove(k) \subseteq KeysAbove(l) /\ k \in KeysAbove(l)
    <3>1. \A n \in Keys : n \in Int
      BY KeyFacts
    <3>2. \A n \in Keys : n > k => n > l
      BY <1>1, <1>5, <3>1
    <3> QED
      BY <1>5, <3>2 DEF KeysAbove
  <2> QED
    BY <1>2, <1>3, <2>1
<1> QED
  BY <1>2, <1>4, <1>5

\* The cursor has passed no living key of U, and at least n keys when it is to go on.
PassedBackward(m, U, n) ==
    /\ SoundCursor(m)
    /\ MultiValid(m) => MultiKey(m) \in U /\ \A l \in LivingKeys \cap U : l <= MultiKey(m)
    /\ ~MultiValid(m) => LivingKeys \cap U = {}
    /\ OnTombstone(m) => Cardinality(KeysAbove(MultiKey(m))) >= n

\* One round passes one tombstone.
LEMMA PassTombstoneBack ==
    ASSUME segs \in SegmentLists, NEW m, NEW U, GoesDown(U), NEW n \in Nat,
           PassedBackward(m, U, n), OnTombstone(m)
    PROVE  PassedBackward(MultiPrev(m), U, n + 1)
<1> DEFINE f == MultiPrev(m)
           key == MultiKey(m)
<1>1. SoundCursor(m) /\ MultiValid(m) /\ key \notin LivingKeys /\ LivingKeys \subseteq AllKeys
  BY SeesTombstone DEF PassedBackward, OnTombstone
<1>2. SoundCursor(f) /\ IsGreatestOf(At(f), {l \in AllKeys : l < key})
  BY <1>1, PrevGoes
<1>3. key \in U /\ key \in Keys /\ key \in Int /\ \A l \in LivingKeys \cap U : l <= key
  BY <1>1, ValidKey DEF PassedBackward, SoundCursor, SoundMulti
<1>4. Cardinality(KeysAbove(key)) >= n
  BY DEF PassedBackward
<1>5. \A l \in AllKeys : l \in Int /\ l \in Keys /\ l # Nowhere
  BY KeyFacts, KeyOrNowhere
<1> HIDE DEF f, key
<1>6. \A l \in LivingKeys \cap U : l < key /\ l \in AllKeys
  <2> TAKE l \in LivingKeys \cap U
  <2>1. l \in AllKeys /\ l # key /\ l <= key /\ l \in Int
    BY <1>1, <1>3, <1>5
  <2> QED
    BY <1>3, <2>1
<1>7. CASE MultiValid(f)
  <2>1. At(f) = MultiKey(f) /\ MultiKey(f) \in Keys /\ MultiKey(f) \in Int /\ MultiKey(f) # Nowhere
    BY <1>2, <1>7, ValidKey DEF SoundCursor, SoundMulti
  <2> DEFINE x == MultiKey(f)
  <2>2. x \in AllKeys /\ x < key /\ \A l \in AllKeys : l < key => l <= x
    BY <1>2, <2>1 DEF IsGreatestOf
  <2> HIDE DEF x
  <2>3. x \in U
    <3>1. x <= key
      BY <1>3, <1>5, <2>2
    <3> QED
      BY <1>3, <1>5, <2>2, <3>1 DEF GoesDown
  <2>4. \A l \in LivingKeys \cap U : l <= x
    BY <1>6, <2>2
  <2>5. Cardinality(KeysAbove(x)) >= n + 1
    <3>1. /\ Cardinality(KeysAbove(key)) < Cardinality(KeysAbove(x))
          /\ Cardinality(KeysAbove(key)) \in Nat /\ Cardinality(KeysAbove(x)) \in Nat
      BY <1>3, <1>5, <2>2, CountAbove
    <3> QED
      BY <1>4, <3>1
  <2>6. PassedBackward(f, U, n + 1)
    BY <1>2, <1>7, <2>3, <2>4, <2>5 DEF PassedBackward, x
  <2> QED
    BY <2>6 DEF f
<1>8. CASE ~MultiValid(f)
  <2>1. At(f) = Nowhere
    BY <1>8 DEF At
  <2>2. \A l \in AllKeys : ~(l < key)
    BY <1>2, <1>5, <2>1 DEF IsGreatestOf
  <2>3. LivingKeys \cap U = {}
    BY <1>6, <2>2
  <2>4. PassedBackward(f, U, n + 1)
    BY <1>2, <1>8, <2>3 DEF PassedBackward, OnTombstone
  <2> QED
    BY <2>4 DEF f
<1> QED
  BY <1>7, <1>8

PassOneBackward(m) == IF OnTombstone(m) THEN MultiPrev(m) ELSE m
AreRoundsBackward(m, r) ==
    r = [n \in 0..Cardinality(Keys) |-> IF n = 0 THEN m ELSE PassOneBackward(r[n - 1])]

\* The rounds of the loop are what they are said to be.
LEMMA RoundsBackwardExist ==
    ASSUME segs \in SegmentLists, NEW m, SoundCursor(m)
    PROVE  \E r : AreRoundsBackward(m, r)
<1> DEFINE X == {c \in Multi : SoundCursor(c)}
           N == Cardinality(Keys)
           g == [p \in Nat \X X |-> PassOneBackward(p[2])]
<1>1. N \in Nat /\ 0 <= N /\ 0 \in Nat
  BY KeyFacts, FS_CardinalityType
<1>2. \A c : c \in X <=> SoundCursor(c)
  BY DEF SoundCursor, SoundMulti
<1> HIDE DEF X
<1>3. \A c \in X : PassOneBackward(c) \in X
  <2> TAKE c \in X
  <2>1. OnTombstone(c) => SoundCursor(MultiPrev(c))
    BY <1>2, PrevGoes DEF OnTombstone
  <2> QED
    BY <1>2, <2>1 DEF PassOneBackward
<1>4. g \in [Nat \X X -> X]
  <2> DEFINE S == Nat \X X
  <2>1. \A p \in S : PassOneBackward(p[2]) \in X
    BY <1>3
  <2> QED
    BY <2>1
<1>5. AreSteps(g, X) /\ m \in X
  BY <1>2, <1>4 DEF AreSteps
<1>6. \A n \in Nat : \A c \in X : g[<<n, c>>] = PassOneBackward(c)
  OBVIOUS
<1> HIDE DEF g, N
<1>7. PICK f : IsLoopOf(f, X, m, 0, N, g)
  BY <1>1, <1>5, LoopExists
<1>8. f \in [0..N -> X] /\ f[0] = m
  BY <1>7 DEF IsLoopOf
<1>9. ASSUME NEW n \in 0..N
      PROVE  f[n] = IF n = 0 THEN m ELSE PassOneBackward(f[n - 1])
  <2>1. CASE n = 0
    BY <1>8, <2>1
  <2>2. CASE n # 0
    <3>1. n \in 0 + 1..N /\ n - 1 \in 0..N /\ n \in Nat
      BY <1>1, <2>2
    <3>2. f[n - 1] \in X
      BY <1>8, <3>1
    <3>3. f[n] = g[<<n, f[n - 1]>>]
      BY <1>7, <3>1 DEF IsLoopOf
    <3> QED
      BY <1>6, <2>2, <3>1, <3>2, <3>3
  <2> QED
    BY <2>1, <2>2
<1>10. f = [n \in 0..N |-> IF n = 0 THEN m ELSE PassOneBackward(f[n - 1])]
  BY <1>8, <1>9
<1>11. AreRoundsBackward(m, f)
  BY <1>10 DEF AreRoundsBackward, N
<1> QED
  BY <1>11

\* The loop ends on the greatest living key, or nowhere when there is none.
LEMMA SkipsBackward ==
    ASSUME segs \in SegmentLists, NEW m, SoundCursor(m), NEW U, GoesDown(U),
           IsGreatestOf(At(m), AllKeys \cap U)
    PROVE  /\ SoundCursor(SkipBackward(m)) /\ ~OnTombstone(SkipBackward(m))
           /\ IsGreatestOf(At(SkipBackward(m)), LivingKeys \cap U)
<1> DEFINE r == CHOOSE x : AreRoundsBackward(m, x)
           N == Cardinality(Keys)
           Bad == {n \in 0..N : ~PassedBackward(r[n], U, n)}
<1>1. N \in Nat /\ 0 \in 0..N /\ N \in 0..N
  BY KeyFacts, FS_CardinalityType
<1>2. AreRoundsBackward(m, r)
  BY RoundsBackwardExist
<1>3. SkipBackward(m) = r[N]
  BY DEF SkipBackward, AreRoundsBackward, PassOneBackward
<1> HIDE DEF r, N
<1>4. \A n \in 0..N : r[n] = IF n = 0 THEN m ELSE PassOneBackward(r[n - 1])
  BY <1>2 DEF AreRoundsBackward, N
<1>5. PassedBackward(m, U, 0)
  <2>1. \A l \in AllKeys : l \in Keys /\ l # Nowhere
    BY KeyFacts, KeyOrNowhere
  <2>2. CASE MultiValid(m)
    <3>1. /\ At(m) = MultiKey(m) /\ MultiKey(m) # Nowhere /\ LivingKeys \subseteq AllKeys
          /\ MultiKey(m) \in Keys
      BY <2>2, ValidKey, SeesTombstone DEF SoundCursor, SoundMulti
    <3>2. MultiKey(m) \in U /\ \A l \in AllKeys \cap U : l <= MultiKey(m)
      BY <3>1 DEF IsGreatestOf
    <3>3. Cardinality(KeysAbove(MultiKey(m))) >= 0
      BY <3>1, CountAbove
    <3> QED
      BY <2>2, <3>1, <3>2, <3>3 DEF PassedBackward
  <2>3. CASE ~MultiValid(m)
    <3>1. At(m) = Nowhere
      BY <2>3 DEF At
    <3>2. AllKeys \cap U = {}
      BY <2>1, <3>1 DEF IsGreatestOf
    <3>3. LivingKeys \cap U = {}
      BY <3>2 DEF LivingKeys, AllKeys
    <3> QED
      BY <2>3, <3>3 DEF PassedBackward, OnTombstone
  <2> QED
    BY <2>2, <2>3
<1>6. ASSUME Bad # {}
      PROVE  FALSE
  <2>1. Bad \in SUBSET Int /\ IsFiniteSet(Bad)
    <3>1. IsFiniteSet(0..N) /\ Bad \in SUBSET (0..N)
      BY <1>1, FS_Interval
    <3>2. Bad \in SUBSET Int
      BY <1>1, <3>1
    <3> DEFINE S == 0..N
    <3>3. IsFiniteSet(S) /\ Bad \in SUBSET S
      BY <3>1
    <3> HIDE DEF Bad, S
    <3> QED
      BY <3>2, <3>3, FS_Subset
  <2>2. PICK n \in Bad : \A i \in Bad : n <= i
    <3> HIDE DEF Bad
    <3> QED
      BY <1>6, <2>1, LeastOfFinite
  <2>3. n \in 0..N /\ ~PassedBackward(r[n], U, n)
    BY <2>2
  <2>4. n # 0
    BY <1>1, <1>4, <1>5, <2>3
  <2>5. n - 1 \in 0..N /\ ~(n <= n - 1) /\ n - 1 \in Nat /\ (n - 1) + 1 = n
    BY <1>1, <2>3, <2>4
  <2>6. PassedBackward(r[n - 1], U, n - 1)
    BY <2>2, <2>5
  <2>7. r[n] = PassOneBackward(r[n - 1])
    BY <1>4, <2>3, <2>4
  <2>8. CASE OnTombstone(r[n - 1])
    <3>1. PassedBackward(MultiPrev(r[n - 1]), U, (n - 1) + 1)
      BY <2>5, <2>6, <2>8, PassTombstoneBack
    <3> QED
      BY <2>3, <2>5, <2>7, <2>8, <3>1 DEF PassOneBackward
  <2>9. CASE ~OnTombstone(r[n - 1])
    <3>1. r[n] = r[n - 1]
      BY <2>7, <2>9 DEF PassOneBackward
    <3> QED
      BY <2>3, <2>6, <2>9, <3>1 DEF PassedBackward
  <2> QED
    BY <2>8, <2>9
<1> DEFINE f == r[N]
<1>7. PassedBackward(f, U, N)
  BY <1>1, <1>6
<1> HIDE DEF f, Bad
<1>8. SoundCursor(f)
  BY <1>7 DEF PassedBackward
<1>9. ~OnTombstone(f)
  <2> SUFFICES ASSUME OnTombstone(f)
               PROVE  FALSE
    OBVIOUS
  <2>1. MultiKey(f) \in Keys
    BY <1>8, ValidKey DEF SoundCursor, SoundMulti, OnTombstone
  <2>2. Cardinality(KeysAbove(MultiKey(f))) >= N
    BY <1>7 DEF PassedBackward
  <2>3. /\ Cardinality(KeysAbove(MultiKey(f))) \in Nat
        /\ Cardinality(KeysAbove(MultiKey(f))) < N
    BY <2>1, CountAbove DEF N
  <2> QED
    BY <1>1, <2>2, <2>3
<1>10. IsGreatestOf(At(f), LivingKeys \cap U)
  <2>1. CASE MultiValid(f)
    <3>1. MultiKey(f) \in LivingKeys
      BY <1>8, <1>9, <2>1, SeesTombstone DEF OnTombstone
    <3>2. At(f) = MultiKey(f)
      BY <1>8, <2>1, ValidKey DEF SoundCursor, SoundMulti
    <3> QED
      BY <1>7, <2>1, <3>1, <3>2 DEF PassedBackward, IsGreatestOf
  <2>2. CASE ~MultiValid(f)
    BY <1>7, <2>2 DEF PassedBackward, IsGreatestOf, At
  <2> QED
    BY <2>1, <2>2
<1> QED
  BY <1>3, <1>8, <1>9, <1>10 DEF f

\* Where a LivingCursor stands.
LivingAt(m) == IF LivingValid(m) THEN MultiKey(m) ELSE Nowhere

\* Off tombstones it stands where the MultiCursor does.
LEMMA LivingPlace ==
    ASSUME NEW m, ~OnTombstone(m)
    PROVE  LivingAt(m) = At(m) /\ (LivingValid(m) <=> MultiValid(m))
BY DEF LivingAt, At, LivingValid, OnTombstone

\* All living keys are keys.
LEMMA LivingAreKeys ==
    LivingKeys \subseteq AllKeys /\ LivingKeys \subseteq Keys /\ AllKeys \subseteq Keys
BY DEF LivingKeys, AllKeys

\* first goes to the least living key.
LEMMA LivingFirstGoes ==
    ASSUME segs \in SegmentLists, NEW m, SoundMulti(m)
    PROVE  /\ SoundCursor(SkipForward(MultiFirst(m))) /\ ~OnTombstone(SkipForward(MultiFirst(m)))
           /\ IsLeastOf(LivingAt(SkipForward(MultiFirst(m))), LivingKeys)
<1> DEFINE v == MultiFirst(m)
           f == SkipForward(v)
<1>1. SoundCursor(v) /\ IsLeastOf(At(v), AllKeys)
  BY FirstGoes DEF SoundMulti
<1>2. AllKeys \cap Keys = AllKeys /\ LivingKeys \cap Keys = LivingKeys
  BY LivingAreKeys
<1> HIDE DEF v
<1>3. SoundCursor(f) /\ ~OnTombstone(f) /\ IsLeastOf(At(f), LivingKeys \cap Keys)
  BY <1>1, <1>2, Sides, SkipsForward
<1> HIDE DEF f
<1>4. SoundCursor(f) /\ ~OnTombstone(f) /\ IsLeastOf(LivingAt(f), LivingKeys)
  BY <1>2, <1>3, LivingPlace
<1> QED
  BY <1>4 DEF f, v

\* last goes to the greatest living key.
LEMMA LivingLastGoes ==
    ASSUME segs \in SegmentLists, NEW m, SoundMulti(m)
    PROVE  /\ SoundCursor(SkipBackward(MultiLast(m))) /\ ~OnTombstone(SkipBackward(MultiLast(m)))
           /\ IsGreatestOf(LivingAt(SkipBackward(MultiLast(m))), LivingKeys)
<1> DEFINE v == MultiLast(m)
           f == SkipBackward(v)
<1>1. SoundCursor(v) /\ IsGreatestOf(At(v), AllKeys)
  BY LastGoes DEF SoundMulti
<1>2. AllKeys \cap Keys = AllKeys /\ LivingKeys \cap Keys = LivingKeys
  BY LivingAreKeys
<1> HIDE DEF v
<1>3. SoundCursor(f) /\ ~OnTombstone(f) /\ IsGreatestOf(At(f), LivingKeys \cap Keys)
  BY <1>1, <1>2, Sides, SkipsBackward
<1> HIDE DEF f
<1>4. SoundCursor(f) /\ ~OnTombstone(f) /\ IsGreatestOf(LivingAt(f), LivingKeys)
  BY <1>2, <1>3, LivingPlace
<1> QED
  BY <1>4 DEF f, v

\* next goes to the next living key.
LEMMA LivingNextGoes ==
    ASSUME segs \in SegmentLists, NEW m, SoundCursor(m), MultiValid(m)
    PROVE  /\ SoundCursor(LivingNext(m)) /\ ~OnTombstone(LivingNext(m))
           /\ IsLeastOf(LivingAt(LivingNext(m)), {l \in LivingKeys : l > MultiKey(m)})
<1> DEFINE v == MultiNext(m)
           f == LivingNext(m)
           key == MultiKey(m)
           U == {l \in Keys : l > key}
<1>1. SoundCursor(v) /\ IsLeastOf(At(v), {l \in AllKeys : l > key})
  BY NextGoes
<1>2. key \in Int
  BY ValidKey DEF SoundCursor, SoundMulti
<1>3. f = SkipForward(v)
  BY DEF LivingNext
<1> HIDE DEF v, key, f
<1>4. AllKeys \cap U = {l \in AllKeys : l > key} /\ LivingKeys \cap U = {l \in LivingKeys : l > key}
  BY LivingAreKeys
<1>5. GoesUp(U)
  BY <1>2, Sides
<1> HIDE DEF U
<1>6. SoundCursor(f) /\ ~OnTombstone(f) /\ IsLeastOf(At(f), LivingKeys \cap U)
  BY <1>1, <1>3, <1>4, <1>5, SkipsForward
<1>7. SoundCursor(f) /\ ~OnTombstone(f) /\ IsLeastOf(LivingAt(f), {l \in LivingKeys : l > key})
  BY <1>4, <1>6, LivingPlace
<1> QED
  BY <1>7 DEF f, key

\* prev goes to the previous living key.
LEMMA LivingPrevGoes ==
    ASSUME segs \in SegmentLists, NEW m, SoundCursor(m), MultiValid(m)
    PROVE  /\ SoundCursor(SkipBackward(MultiPrev(m))) /\ ~OnTombstone(SkipBackward(MultiPrev(m)))
           /\ IsGreatestOf(LivingAt(SkipBackward(MultiPrev(m))), {l \in LivingKeys : l < MultiKey(m)})
<1> DEFINE v == MultiPrev(m)
           f == SkipBackward(v)
           key == MultiKey(m)
           U == {l \in Keys : l < key}
<1>1. SoundCursor(v) /\ IsGreatestOf(At(v), {l \in AllKeys : l < key})
  BY PrevGoes
<1>2. key \in Int
  BY ValidKey DEF SoundCursor, SoundMulti
<1> HIDE DEF v, key
<1>4. AllKeys \cap U = {l \in AllKeys : l < key} /\ LivingKeys \cap U = {l \in LivingKeys : l < key}
  BY LivingAreKeys
<1>5. GoesDown(U)
  BY <1>2, Sides
<1> HIDE DEF U
<1>6. SoundCursor(f) /\ ~OnTombstone(f) /\ IsGreatestOf(At(f), LivingKeys \cap U)
  BY <1>1, <1>4, <1>5, SkipsBackward
<1> HIDE DEF f
<1>7. SoundCursor(f) /\ ~OnTombstone(f) /\ IsGreatestOf(LivingAt(f), {l \in LivingKeys : l < key})
  BY <1>4, <1>6, LivingPlace
<1> QED
  BY <1>7 DEF f, key, v

\* seek goes to the nearest living key; for EQ it stays on a tombstone.
LEMMA LivingSeekGoes ==
    ASSUME segs \in SegmentLists, NEW m, SoundMulti(m), NEW k \in Int, k # Nowhere
    PROVE  /\ \A op \in {"EQ", "LE", "GE"} : SoundCursor(LivingSeek(m, k, op))
           /\ At(LivingSeek(m, k, "EQ")) = IF k \in AllKeys THEN k ELSE Nowhere
           /\ ~OnTombstone(LivingSeek(m, k, "GE")) /\ ~OnTombstone(LivingSeek(m, k, "LE"))
           /\ IsLeastOf(LivingAt(LivingSeek(m, k, "GE")), {l \in LivingKeys : l >= k})
           /\ IsGreatestOf(LivingAt(LivingSeek(m, k, "LE")), {l \in LivingKeys : l <= k})
<1> DEFINE e == LivingSeek(m, k, "EQ")
           g == LivingSeek(m, k, "GE")
           h == LivingSeek(m, k, "LE")
           x == MultiSeek(m, k, "GE")
           y == MultiSeek(m, k, "LE")
           Up == {l \in Keys : l >= k}
           Down == {l \in Keys : l <= k}
<1>1. m \in Multi
  BY DEF SoundMulti
<1>2. SoundCursor(e) /\ At(e) = IF k \in AllKeys THEN k ELSE Nowhere
  <2>1. e = MultiSeek(m, k, "EQ")
    BY DEF LivingSeek
  <2>2. SoundCursor(MultiSeek(m, k, "EQ")) /\ Finds(k, "EQ", At(MultiSeek(m, k, "EQ")))
    BY <1>1, SeekGoes
  <2> QED
    BY <2>1, <2>2 DEF Finds
<1>3. /\ AllKeys \cap Up = {l \in AllKeys : l >= k} /\ LivingKeys \cap Up = {l \in LivingKeys : l >= k}
      /\ AllKeys \cap Down = {l \in AllKeys : l <= k}
      /\ LivingKeys \cap Down = {l \in LivingKeys : l <= k}
  BY LivingAreKeys
<1>4. GoesUp(Up) /\ GoesDown(Down)
  BY Sides
<1>5. SoundCursor(x) /\ IsLeastOf(At(x), AllKeys \cap Up) /\ g = SkipForward(x)
  <2>1. g = SkipForward(x)
    BY DEF LivingSeek
  <2>2. SoundCursor(x) /\ Finds(k, "GE", At(x))
    BY <1>1, SeekGoes
  <2> QED
    BY <1>3, <2>1, <2>2 DEF Finds
<1>6. SoundCursor(y) /\ IsGreatestOf(At(y), AllKeys \cap Down) /\ h = SkipBackward(y)
  <2>1. h = SkipBackward(y)
    BY DEF LivingSeek
  <2>2. SoundCursor(y) /\ Finds(k, "LE", At(y))
    BY <1>1, SeekGoes
  <2> QED
    BY <1>3, <2>1, <2>2 DEF Finds
<1> HIDE DEF e, g, h, x, y, Up, Down
<1>7. SoundCursor(g) /\ ~OnTombstone(g) /\ IsLeastOf(At(g), LivingKeys \cap Up)
  BY <1>4, <1>5, SkipsForward
<1>8. SoundCursor(h) /\ ~OnTombstone(h) /\ IsGreatestOf(At(h), LivingKeys \cap Down)
  BY <1>4, <1>6, SkipsBackward
<1>9. /\ IsLeastOf(LivingAt(g), {l \in LivingKeys : l >= k})
      /\ IsGreatestOf(LivingAt(h), {l \in LivingKeys : l <= k})
  BY <1>3, <1>7, <1>8, LivingPlace
<1> QED
  BY <1>2, <1>7, <1>8, <1>9 DEF e, g, h

-----------------------------------------------------------------------------
(* RangeCursor and PrefixCursor.                                           *)

\* From where on the keys are in the bounds.
FromMin(k) ==
    CASE kind = "range" -> IF bounds.gt THEN k > bounds.min ELSE k >= bounds.min
      [] kind = "prefix" -> k >= bounds.min
      [] kind \in {"living", "merge"} -> TRUE

KindIsOpen == kind \in {"living", "range", "prefix", "merge"} /\ bounds \in BoundsFor(kind)

\* The bounds are numbers.
LEMMA BoundsFacts ==
    ASSUME KindIsOpen
    PROVE  /\ kind = "range" => /\ bounds.min \in Keys /\ bounds.min \in Int /\ bounds.min # Nowhere
                                /\ bounds.max \in Keys /\ bounds.max \in Int
           /\ kind = "prefix" => bounds.min \in Int /\ bounds.min # Nowhere
<1>1. ASSUME kind = "range"
      PROVE  bounds.min \in Keys /\ bounds.max \in Keys
  <2>1. PICK r \in Ranges, gt \in BOOLEAN, lt \in BOOLEAN :
            bounds = [min |-> r[1], gt |-> gt, max |-> r[2], lt |-> lt]
    BY <1>1 DEF KindIsOpen, BoundsFor
  <2>2. bounds.min = r[1] /\ bounds.max = r[2]
    BY <2>1
  <2>3. r \in Keys \X Keys
    BY CursorsAssumption
  <2> QED
    BY <2>2, <2>3
<1>2. ASSUME kind = "prefix"
      PROVE  bounds.min \in Int /\ bounds.min # Nowhere
  <2>1. PICK k \in Keys : bounds = [min |-> PrefixOf[k]]
    BY <1>2 DEF KindIsOpen, BoundsFor
  <2>2. bounds.min = PrefixOf[k]
    BY <2>1
  <2> QED
    BY <2>2, PrefixAssumption
<1> QED
  BY <1>1, <1>2, KeyFacts

\* What is in the bounds lies together, from the lower bound on.
LEMMA BoundsAreTogether ==
    ASSUME KindIsOpen
    PROVE  /\ \A k \in Keys : InBounds(k) => FromMin(k)
           /\ \A k, l \in Keys : FromMin(k) /\ k <= l => FromMin(l)
           /\ \A k, l \in Keys : FromMin(k) /\ k <= l /\ InBounds(l) => InBounds(k)
<1>1. \A k \in Keys : k \in Int
  BY KeyFacts
<1>2. CASE kind = "range"
  <2>1. \A k : FromMin(k) <=> IF bounds.gt THEN k > bounds.min ELSE k >= bounds.min
    BY <1>2 DEF FromMin
  <2>2. \A k : InBounds(k) <=> FromMin(k) /\ IF bounds.lt THEN k < bounds.max ELSE k <= bounds.max
    BY <1>2, <2>1 DEF InBounds
  <2>3. bounds.min \in Int /\ bounds.max \in Int
    BY <1>2, BoundsFacts
  <2> DEFINE a == bounds.min
             b == bounds.max
  <2>4. \A k, l \in Keys : /\ k > a /\ k <= l => l > a
                           /\ k >= a /\ k <= l => l >= a
                           /\ l < b /\ k <= l => k < b
                           /\ l <= b /\ k <= l => k <= b
    <3> HIDE DEF a, b
    <3>1. a \in Int /\ b \in Int
      BY <2>3 DEF a, b
    <3> QED
      BY <1>1, <3>1
  <2> QED
    BY <2>1, <2>2, <2>4
<1>3. CASE kind = "prefix"
  <2>1. \A k : (FromMin(k) <=> k >= bounds.min) /\ (InBounds(k) <=> PrefixOf[k] = bounds.min)
    BY <1>3 DEF FromMin, InBounds
  <2>2. bounds.min \in Int
    BY <1>3, BoundsFacts
  <2> DEFINE a == bounds.min
  <2> HIDE DEF a
  <2>3. a \in Int
    BY <2>2 DEF a
  <2>4. \A k \in Keys : PrefixOf[k] = a => k >= a
    BY <1>1, <2>3, PrefixAssumption
  <2>5. \A k, l \in Keys : k >= a /\ k <= l => l >= a
    BY <1>1, <2>3
  <2>6. \A k, l \in Keys : k >= a /\ k <= l /\ PrefixOf[l] = a => PrefixOf[k] = a
    <3> TAKE k, l \in Keys
    <3> HAVE k >= a /\ k <= l /\ PrefixOf[l] = a
    <3>1. PrefixOf[l] <= k
      BY <1>1, <2>3
    <3> QED
      BY <3>1, PrefixAssumption
  <2> QED
    BY <2>1, <2>4, <2>5, <2>6 DEF a
<1>4. CASE kind \in {"living", "merge"}
  BY <1>4 DEF FromMin, InBounds
<1> QED
  BY <1>2, <1>3, <1>4 DEF KindIsOpen

\* The least key from the lower bound on is the least in the bounds, or none is.
LEMMA LeastInBounds ==
    ASSUME KindIsOpen, NEW S \in SUBSET Keys, \A k \in S : FromMin(k), NEW x, IsLeastOf(x, S)
    PROVE  IsLeastOf(IF x # Nowhere /\ InBounds(x) THEN x ELSE Nowhere, {k \in S : InBounds(k)})
<1>1. \A k \in S : k \in Keys /\ k # Nowhere
  BY KeyFacts
<1>2. CASE x # Nowhere /\ InBounds(x)
  BY <1>2 DEF IsLeastOf
<1>3. CASE x # Nowhere /\ ~InBounds(x)
  <2>1. x \in S /\ \A l \in S : x <= l
    BY <1>3 DEF IsLeastOf
  <2>2. \A l \in S : ~InBounds(l)
    BY <1>1, <1>3, <2>1, BoundsAreTogether
  <2> QED
    BY <1>3, <2>2 DEF IsLeastOf
<1>4. CASE x = Nowhere
  <2>1. S = {}
    BY <1>1, <1>4 DEF IsLeastOf
  <2> QED
    BY <1>4, <2>1 DEF IsLeastOf
<1> QED
  BY <1>2, <1>3, <1>4

\* first of a cursor with bounds goes to the first living key from the lower bound on.
LEMMA BoundedFirstGoes ==
    ASSUME segs \in SegmentLists, NEW m, SoundMulti(m), KindIsOpen, kind \in {"range", "prefix"}
    PROVE  /\ SoundCursor(BoundedFirst(m)) /\ ~OnTombstone(BoundedFirst(m))
           /\ IsLeastOf(LivingAt(BoundedFirst(m)), {k \in LivingKeys : FromMin(k)})
<1> DEFINE a == bounds.min
           v == LivingSeek(m, a, "GE")
           f == BoundedFirst(m)
<1>1. a \in Int /\ a # Nowhere
  BY BoundsFacts
<1> HIDE DEF a
<1>2. SoundCursor(v) /\ ~OnTombstone(v) /\ IsLeastOf(LivingAt(v), {l \in LivingKeys : l >= a})
  BY <1>1, LivingSeekGoes
<1>3. f = IF kind = "range" /\ bounds.gt /\ ResultOf(v, a) = "equal" THEN LivingNext(v) ELSE v
  BY DEF BoundedFirst, a
<1> HIDE DEF v, f
<1>4. \A l \in LivingKeys : l \in Int /\ l # Nowhere
  BY KeyFacts, LivingAreKeys
<1>5. CASE kind = "range" /\ bounds.gt
  <2>1. \A k : FromMin(k) <=> k > a
    BY <1>5 DEF FromMin, a
  <2>2. ResultOf(v, a) = "equal" <=> MultiValid(v) /\ MultiKey(v) = a
    BY DEF ResultOf, SeekResult
  <2>3. CASE MultiValid(v) /\ MultiKey(v) = a
    <3>1. f = LivingNext(v)
      BY <1>3, <1>5, <2>2, <2>3
    <3>2. SoundCursor(f) /\ ~OnTombstone(f) /\ IsLeastOf(LivingAt(f), {l \in LivingKeys : l > a})
      BY <1>2, <2>3, <3>1, LivingNextGoes
    <3>3. {l \in LivingKeys : l > a} = {k \in LivingKeys : FromMin(k)}
      BY <2>1
    <3> QED
      BY <3>2, <3>3 DEF f
  <2>4. CASE ~(MultiValid(v) /\ MultiKey(v) = a)
    <3>1. f = v
      BY <1>3, <2>2, <2>4
    <3>2. LivingAt(v) # a
      BY <1>1, <1>2, <2>4, LivingPlace DEF At
    <3>3. {l \in LivingKeys : l > a} = {k \in LivingKeys : FromMin(k)}
      BY <2>1
    <3>4. IsLeastOf(LivingAt(v), {l \in LivingKeys : l > a})
      <4>1. \A l \in LivingKeys : l > a => l >= a
        BY <1>1, <1>4
      <4>2. \A l \in LivingKeys : l >= a /\ l # a => l > a
        BY <1>1, <1>4
      <4>3. CASE LivingAt(v) \in {l \in LivingKeys : l >= a}
        BY <1>2, <1>4, <3>2, <4>1, <4>2, <4>3 DEF IsLeastOf
      <4>4. CASE {l \in LivingKeys : l >= a} = {} /\ LivingAt(v) = Nowhere
        BY <4>1, <4>4 DEF IsLeastOf
      <4> QED
        BY <1>2, <4>3, <4>4 DEF IsLeastOf
    <3> QED
      BY <1>2, <3>1, <3>3, <3>4 DEF f
  <2> QED
    BY <2>3, <2>4
<1>6. CASE ~(kind = "range" /\ bounds.gt)
  <2>1. \A k : FromMin(k) <=> k >= a
    BY <1>6 DEF FromMin, a
  <2>2. {l \in LivingKeys : l >= a} = {k \in LivingKeys : FromMin(k)}
    BY <2>1
  <2>3. f = v
    BY <1>3, <1>6
  <2> QED
    BY <1>2, <2>2, <2>3 DEF f
<1> QED
  BY <1>5, <1>6

-----------------------------------------------------------------------------
(* What is open, and where it stands.                                      *)

\* Where what is open stands, when its MultiCursor or MergeCursor is m.
WalkAt(m) == IF kind # "closed" /\ IsValid(m) THEN MultiKey(m) ELSE Nowhere

\* The segments, what is open and its bounds stay what they are.
Stays == segs' = segs /\ kind' = kind /\ bounds' = bounds

\* Then a sound cursor is what it was.
LEMMA SoundStays ==
    ASSUME segs' = segs
    PROVE  SoundCursor(multi)' <=> SoundCursor(multi')
<1>1. Seg' = Seg /\ Place' = Place /\ Direction' = Direction
  BY DEF Seg, Place, Direction
<1>2. \A i : KeysOf(i)' = KeysOf(i)
  BY DEF KeysOf
<1>3. Entry' = Entry /\ NoCursor' = NoCursor
  BY <1>1 DEF Entry, NoCursor
<1>4. Multi' = Multi
  BY <1>1, <1>3 DEF Multi
<1>5. MultiKey(multi)' = MultiKey(multi') /\ (MultiValid(multi)' <=> MultiValid(multi'))
  BY DEF MultiKey, MultiValid
<1>6. Arranged(multi.sorted)' <=> Arranged(multi'.sorted)
  BY <1>1, <1>3 DEF Arranged
<1>7. SoundMulti(multi)' <=> SoundMulti(multi')
  BY <1>1, <1>2, <1>4, <1>6 DEF SoundMulti
<1>8. OnNewest(multi)' <=> OnNewest(multi')
  BY <1>1, <1>2 DEF OnNewest, MultiKey
<1>9. GoesBackward(multi)' <=> GoesBackward(multi')
  BY <1>1, <1>2 DEF GoesBackward, MultiKey, SubSeek
<1>10. EqualRun(multi)' = EqualRun(multi')
  BY <1>1 DEF EqualRun
<1>11. GoesForward(multi)' <=> GoesForward(multi')
  <2>1. (\A i \in Seg : multi.subs[i] = SubSeek(i, MultiKey(multi), "GE"))'
            <=> \A i \in Seg : multi'.subs[i] = SubSeek(i, MultiKey(multi'), "GE")
    BY <1>1, <1>2 DEF MultiKey, SubSeek
  <2>2. (EqualRun(multi) = {i \in Seg \ {multi.cur} : MultiKey(multi) \in KeysOf(i)})'
            <=> EqualRun(multi') = {i \in Seg \ {multi'.cur} : MultiKey(multi') \in KeysOf(i)}
    BY <1>1, <1>2, <1>10 DEF MultiKey
  <2> QED
    BY <2>1, <2>2 DEF GoesForward
<1>12. Placed(multi)' <=> Placed(multi')
  BY <1>5, <1>8, <1>9, <1>11 DEF Placed
<1> QED
  BY <1>7, <1>12 DEF SoundCursor

\* And so is where it may go, and where it stands.
LEMMA WalkStays ==
    ASSUME Stays
    PROVE  /\ KeysToWalk' = KeysToWalk /\ WalkAt(multi)' = WalkAt(multi')
           /\ IsValid(multi)' <=> IsValid(multi')
<1>1. \A i : KeysOf(i)' = KeysOf(i)
  BY DEF KeysOf, Stays
<1>2. Seg' = Seg
  BY DEF Seg, Stays
<1>3. \A k : InBounds(k)' <=> InBounds(k)
  BY DEF InBounds, Stays
<1>4. KeysToWalk' = KeysToWalk
  BY <1>1, <1>2, <1>3 DEF KeysToWalk, Stays
<1>5. IsValid(multi)' <=> IsValid(multi')
  BY DEF IsValid, LivingValid, MultiValid, IsTombstone, MultiKey, InBounds, Stays
<1>6. WalkAt(multi)' = WalkAt(multi')
  BY <1>5 DEF WalkAt, MultiKey, Stays
<1> QED
  BY <1>4, <1>5, <1>6

\* Among the segments that have a key there is a newest.
LEMMA NewestExists ==
    ASSUME segs \in SegmentLists, NEW k \in AllKeys
    PROVE  \E i \in Seg : k \in KeysOf(i) /\ \A j \in Seg : j < i => k \notin KeysOf(j)
<1> DEFINE S == {i \in Seg : k \in KeysOf(i)}
<1>1. S \in SUBSET Int /\ IsFiniteSet(S) /\ S # {}
  BY SegFacts, FS_Subset DEF AllKeys
<1>2. PICK i \in S : \A j \in S : i <= j
  <2> HIDE DEF S
  <2> QED
    BY <1>1, LeastOfFinite
<1>3. \A j \in Seg : j < i => k \notin KeysOf(j)
  <2> TAKE j \in Seg
  <2>1. i \in Int /\ j \in Int
    BY SegFacts
  <2> QED
    BY <1>2, <2>1
<1> QED
  BY <1>2, <1>3

\* A merge walks over all keys, a reader over the living ones that are in its bounds.
LEMMA WalkedKeys ==
    ASSUME segs \in SegmentLists, KindIsOpen
    PROVE  /\ kind = "merge" => KeysToWalk = AllKeys
           /\ kind # "merge" => KeysToWalk = {k \in LivingKeys : InBounds(k)}
           /\ kind = "living" => KeysToWalk = LivingKeys
<1>1. KeysToWalk = {k \in Keys : \E i \in Seg :
             /\ k \in KeysOf(i) /\ \A j \in Seg : j < i => k \notin KeysOf(j)
             /\ kind = "merge" \/ segs[i][k] = Live
             /\ InBounds(k)}
  BY DEF KeysToWalk, KindIsOpen
<1>2. ASSUME kind = "merge"
      PROVE  KeysToWalk = AllKeys
  <2>1. \A k : InBounds(k)
    BY <1>2 DEF InBounds
  <2>2. KeysToWalk \subseteq AllKeys
    BY <1>1 DEF AllKeys
  <2>3. AllKeys \subseteq KeysToWalk
    BY <1>1, <1>2, <2>1, NewestExists, KeyOrNowhere
  <2> QED
    BY <2>2, <2>3
<1>3. ASSUME kind # "merge"
      PROVE  KeysToWalk = {k \in LivingKeys : InBounds(k)}
  BY <1>1, <1>3 DEF LivingKeys
<1>4. kind = "living" => \A k : InBounds(k)
  BY DEF InBounds
<1> QED
  BY <1>2, <1>3, <1>4

\* Where it stands, by what is open.
LEMMA WalkPlace ==
    ASSUME segs \in SegmentLists, KindIsOpen, NEW m, SoundCursor(m)
    PROVE  /\ kind = "merge" => WalkAt(m) = At(m)
           /\ kind = "living" => WalkAt(m) = LivingAt(m)
           /\ kind # "merge" => WalkAt(m) = IF LivingAt(m) # Nowhere /\ InBounds(LivingAt(m))
                                            THEN LivingAt(m) ELSE Nowhere
           /\ IsValid(m) <=> WalkAt(m) # Nowhere
           /\ IsValid(m) => MultiValid(m) /\ WalkAt(m) = MultiKey(m)
<1>1. MultiValid(m) => MultiKey(m) # Nowhere
  BY ValidKey DEF SoundCursor, SoundMulti
<1>2. LivingValid(m) => MultiValid(m)
  BY DEF LivingValid
<1>3. kind = "living" => \A k : InBounds(k)
  BY DEF InBounds
<1>4. CASE kind = "merge"
  BY <1>1, <1>4 DEF WalkAt, At, IsValid
<1>5. CASE kind # "merge"
  <2>1. IsValid(m) <=> LivingValid(m) /\ InBounds(MultiKey(m))
    BY <1>5 DEF IsValid
  <2> QED
    BY <1>1, <1>2, <1>3, <1>5, <2>1 DEF WalkAt, LivingAt, KindIsOpen
<1> QED
  BY <1>4, <1>5

-----------------------------------------------------------------------------
(* The actions.                                                            *)

\* Over no more than one segment there is one.
LEMMA OneSegment ==
    ASSUME segs \in SegmentLists, ~(Len(segs) > 1)
    PROVE  Len(segs) = 1 /\ Seg = {1}
<1> DEFINE n == Len(segs)
<1>1. n \in Nat \ {0} /\ Seg = 1..n /\ ~(n > 1)
  BY SegFacts
<1> HIDE DEF n
<1>2. n = 1
  BY <1>1
<1>3. Seg = {1}
  BY <1>1, <1>2
<1> QED
  BY <1>2, <1>3 DEF n

\* What a cursor that is open is known to have.
LEMMA OpenFacts ==
    ASSUME IInv, kind # "closed"
    PROVE  segs \in SegmentLists /\ KindIsOpen /\ SoundCursor(multi) /\ SoundMulti(multi)
           /\ multi \in Multi
BY CursorsAssumption DEF IInv, Opened, KindIsOpen, SoundCursor, SoundMulti

\* A new cursor is sound.
LEMMA NewIsSound ==
    ASSUME segs \in SegmentLists
    PROVE  SoundCursor(NewMulti) /\ ~MultiValid(NewMulti) /\ NewMulti.dir = "wandering"
           /\ NewMulti.cur = NoCursor
<1> DEFINE p == [i \in Seg |-> Nowhere]
           s == [j \in Seg |-> [sub |-> j, flag |-> "none"]]
<1>1. NewMulti = [subs |-> p, sorted |-> s, cur |-> NoCursor, dir |-> "wandering",
                  panicked |-> FALSE]
  BY DEF NewMulti
<1>2. p \in [Seg -> Place] /\ \A i \in Seg : p[i] = Nowhere
  BY DEF Place
<1>3. s \in [Seg -> Entry] /\ \A j \in Seg : s[j].sub = j
  BY DEF Entry
<1> HIDE DEF p, s
<1>4. NewMulti \in Multi
  BY <1>1, <1>2, <1>3 DEF Multi, Direction
<1>5. Arranged(NewMulti.sorted)
  BY <1>1, <1>3 DEF Arranged
<1>6. SoundMulti(NewMulti)
  BY <1>1, <1>2, <1>4, <1>5 DEF SoundMulti
<1>7. ~MultiValid(NewMulti)
  BY <1>1 DEF MultiValid
<1> QED
  BY <1>1, <1>6, <1>7 DEF SoundCursor, Placed

\* Over one segment the current cursor alone moves.
MovedAlone(m, x) == [m EXCEPT !.cur = 1, !.subs[1] = x]

\* It is sound as long as it does not go anywhere by the sort.
LEMMA AloneIsSound ==
    ASSUME segs \in SegmentLists, Len(segs) = 1, NEW m, SoundMulti(m), m.dir = "wandering",
           NEW x \in KeysOf(1) \cup {Nowhere}
    PROVE  /\ SoundCursor(MovedAlone(m, x)) /\ At(MovedAlone(m, x)) = x
           /\ MovedAlone(m, x).dir = "wandering" /\ AllKeys = KeysOf(1)
           /\ m.cur = 1 => [m EXCEPT !.subs[1] = x] = MovedAlone(m, x)
<1> DEFINE f == MovedAlone(m, x)
           p == [m.subs EXCEPT ![1] = x]
<1>1. Seg = {1} /\ 1 \in Int /\ NoCursor # 1
  BY SegFacts DEF NoCursor
<1>2. /\ m \in Multi /\ Arranged(m.sorted) /\ ~m.panicked /\ m.subs \in [Seg -> Place]
      /\ \A i \in Seg : m.subs[i] \in KeysOf(i) \cup {Nowhere}
  BY MultiParts DEF SoundMulti
<1>3. p \in [Seg -> Place] /\ p[1] = x
  BY <1>1, <1>2, KeyFacts DEF Place
<1>4. f = [m EXCEPT !.cur = 1, !.subs = p]
  BY <1>2 DEF MovedAlone, Multi
<1>5. m.cur = 1 => [m EXCEPT !.subs[1] = x] = [m EXCEPT !.cur = 1, !.subs = p]
  BY <1>2 DEF Multi
<1> HIDE DEF f, p
<1>6. /\ f \in Multi /\ f.cur = 1 /\ f.subs = p /\ f.sorted = m.sorted
      /\ f.dir = m.dir /\ f.panicked = m.panicked
  BY <1>1, <1>2, <1>3, <1>4 DEF Multi
<1>7. SoundMulti(f)
  BY <1>1, <1>2, <1>3, <1>6 DEF SoundMulti
<1>8. OnNewest(f)
  BY <1>1, <1>6 DEF OnNewest
<1>9. SoundCursor(f)
  BY <1>6, <1>7, <1>8 DEF SoundCursor, Placed
<1>10. At(f) = x
  BY <1>1, <1>3, <1>6 DEF At, MultiValid, MultiKey
<1>11. AllKeys = KeysOf(1)
  BY <1>1, KeyFacts DEF AllKeys
<1> QED
  BY <1>4, <1>5, <1>6, <1>9, <1>10, <1>11 DEF f

\* Where first of a merge goes.
LEMMA MergeFirstGoes ==
    ASSUME IInv, MergeFirst
    PROVE  /\ SoundCursor(multi') /\ IsLeastOf(At(multi'), AllKeys)
           /\ Stays /\ call' = <<"first">> /\ eaten' = {} /\ kind = "merge"
           /\ multi'.dir = IF Len(segs) > 1 THEN "forward" ELSE "wandering"
<1>1. /\ Stays /\ call' = <<"first">> /\ eaten' = eaten /\ kind = "merge" /\ call = <<"open">>
      /\ multi' = IF Len(segs) > 1 THEN MultiFirst(multi)
                  ELSE [multi EXCEPT !.cur = 1, !.subs[1] = Least(KeysOf(1))]
  BY DEF MergeFirst, Moves, Stays
<1>2. segs \in SegmentLists /\ SoundMulti(multi) /\ multi \in Multi
  BY <1>1, OpenFacts
<1>3. multi = NewMulti /\ eaten = {}
  BY <1>1 DEF IInv, Opened
<1>4. CASE Len(segs) > 1
  <2>1. SoundCursor(MultiFirst(multi)) /\ MultiFirst(multi).dir = "forward"
        /\ IsLeastOf(At(MultiFirst(multi)), AllKeys)
    BY <1>2, FirstGoes DEF SoundMulti
  <2> QED
    BY <1>1, <1>3, <1>4, <2>1
<1>5. CASE ~(Len(segs) > 1)
  <2> DEFINE x == Least(KeysOf(1))
  <2>1. Len(segs) = 1
    BY <1>2, <1>5, OneSegment
  <2>2. multi' = MovedAlone(multi, x)
    BY <1>1, <1>5 DEF MovedAlone
  <2>3. IsLeastOf(x, KeysOf(1))
    BY KeyFacts, IsLeast
  <2> HIDE DEF x
  <2>4. x \in KeysOf(1) \cup {Nowhere}
    BY <2>3 DEF IsLeastOf
  <2>5. multi.dir = "wandering"
    BY <1>2, <1>3, NewIsSound
  <2>6. SoundCursor(multi') /\ At(multi') = x /\ multi'.dir = "wandering" /\ AllKeys = KeysOf(1)
    BY <1>2, <2>1, <2>2, <2>4, <2>5, AloneIsSound
  <2> QED
    BY <1>1, <1>3, <1>5, <2>3, <2>6
<1> QED
  BY <1>4, <1>5

\* Where next of a merge goes.
LEMMA MergeNextGoes ==
    ASSUME IInv, MergeNext
    PROVE  /\ SoundCursor(multi') /\ MultiValid(multi)
           /\ IsLeastOf(At(multi'), {l \in AllKeys : l > MultiKey(multi)})
           /\ Stays /\ call' = <<"next">> /\ kind = "merge"
           /\ Len(segs) > 1 => /\ multi'.dir = "forward" /\ multi.dir = "forward"
                               /\ eaten' = eaten \cup {<<i, MultiKey(multi)>> : i \in EqualRun(multi)}
           /\ ~(Len(segs) > 1) => multi'.dir = "wandering" /\ eaten' = eaten
<1>1. /\ Stays /\ call' = <<"next">> /\ kind = "merge" /\ MultiValid(multi)
      /\ Len(segs) > 1 => /\ eaten' = eaten \cup {<<i, MultiKey(multi)>> : i \in EqualRun(multi)}
                          /\ multi' = MultiNext(multi)
      /\ ~(Len(segs) > 1) => /\ eaten' = eaten
                             /\ multi' = [multi EXCEPT !.subs[1] = SubNext(1, @)]
  BY DEF MergeNext, Moves, Stays, IsValid
<1>2. segs \in SegmentLists /\ SoundCursor(multi) /\ SoundMulti(multi) /\ multi \in Multi
  BY <1>1, OpenFacts
<1>3. call # <<"open">>
  <2>1. call = <<"open">> => multi = NewMulti
    BY DEF IInv, Opened
  <2> QED
    BY <1>1, <1>2, <2>1, NewIsSound
<1>4. IF Len(segs) > 1 THEN multi.dir = "forward" ELSE multi.dir = "wandering"
  BY <1>1, <1>3 DEF IInv, MergesForward
<1>5. CASE Len(segs) > 1
  <2>1. SoundCursor(MultiNext(multi)) /\ MultiNext(multi).dir = "forward"
        /\ IsLeastOf(At(MultiNext(multi)), {l \in AllKeys : l > MultiKey(multi)})
    BY <1>1, <1>2, NextGoes
  <2> QED
    BY <1>1, <1>4, <1>5, <2>1
<1>6. CASE ~(Len(segs) > 1)
  <2> DEFINE key == MultiKey(multi)
             x == SubNext(1, key)
  <2>1. Len(segs) = 1 /\ Seg = {1}
    BY <1>2, <1>6, OneSegment
  <2>2. multi.cur = 1 /\ key = multi.subs[1]
    BY <1>1, <1>2, <2>1, ValidKey DEF MultiKey
  <2>3. multi' = [multi EXCEPT !.subs[1] = x]
    BY <1>1, <1>2, <1>6, <2>2 DEF Multi
  <2>4. IsLeastOf(x, KeysAfter(1, key))
    BY SubGoes
  <2> HIDE DEF x, key
  <2>5. x \in KeysOf(1) \cup {Nowhere}
    BY <2>4 DEF IsLeastOf, KeysAfter
  <2>6. /\ SoundCursor(MovedAlone(multi, x)) /\ At(MovedAlone(multi, x)) = x
        /\ MovedAlone(multi, x).dir = "wandering" /\ AllKeys = KeysOf(1)
        /\ [multi EXCEPT !.subs[1] = x] = MovedAlone(multi, x)
    BY <1>2, <1>4, <1>6, <2>1, <2>2, <2>5, AloneIsSound
  <2>7. KeysAfter(1, key) = {l \in AllKeys : l > key}
    BY <2>6 DEF KeysAfter
  <2> QED
    BY <1>1, <1>6, <2>3, <2>4, <2>6, <2>7 DEF key
<1> QED
  BY <1>5, <1>6

\* Where first of a reader goes.
LEMMA FirstKeyGoes ==
    ASSUME IInv, FirstKey
    PROVE  /\ SoundCursor(multi') /\ IsLeastOf(WalkAt(multi'), KeysToWalk)
           /\ Stays /\ call' = <<"first">> /\ eaten' = eaten /\ kind \notin {"closed", "merge"}
<1>1. /\ Stays /\ call' = <<"first">> /\ eaten' = eaten /\ kind \in {"living", "range", "prefix"}
      /\ multi' = IF kind = "living" THEN SkipForward(MultiFirst(multi)) ELSE BoundedFirst(multi)
  BY DEF FirstKey, Moves, Stays
<1>2. segs \in SegmentLists /\ KindIsOpen /\ SoundMulti(multi)
  BY <1>1, OpenFacts
<1> DEFINE f == multi'
<1>3. CASE kind = "living"
  <2>1. f = SkipForward(MultiFirst(multi))
    BY <1>1, <1>3
  <2> HIDE DEF f
  <2>2. SoundCursor(f) /\ IsLeastOf(LivingAt(f), LivingKeys)
    BY <1>2, <2>1, LivingFirstGoes
  <2>3. WalkAt(f) = LivingAt(f) /\ KeysToWalk = LivingKeys
    BY <1>2, <1>3, <2>2, WalkPlace, WalkedKeys
  <2> QED
    BY <1>1, <2>2, <2>3 DEF f
<1>4. CASE kind \in {"range", "prefix"}
  <2> DEFINE S == {k \in LivingKeys : FromMin(k)}
  <2>1. f = BoundedFirst(multi)
    BY <1>1, <1>4
  <2> HIDE DEF f
  <2>2. SoundCursor(f) /\ IsLeastOf(LivingAt(f), S)
    BY <1>2, <1>4, <2>1, BoundedFirstGoes
  <2>3. S \in SUBSET Keys /\ \A k \in S : FromMin(k)
    BY LivingAreKeys
  <2>4. {k \in S : InBounds(k)} = {k \in LivingKeys : InBounds(k)}
    BY <1>2, BoundsAreTogether, LivingAreKeys
  <2> HIDE DEF S
  <2>5. IsLeastOf(IF LivingAt(f) # Nowhere /\ InBounds(LivingAt(f)) THEN LivingAt(f) ELSE Nowhere,
                  {k \in S : InBounds(k)})
    BY <1>2, <2>2, <2>3, LeastInBounds
  <2>6. /\ WalkAt(f) = IF LivingAt(f) # Nowhere /\ InBounds(LivingAt(f)) THEN LivingAt(f) ELSE Nowhere
        /\ KeysToWalk = {k \in LivingKeys : InBounds(k)}
    BY <1>2, <1>4, <2>2, WalkPlace, WalkedKeys
  <2>7. IsLeastOf(WalkAt(f), KeysToWalk)
    BY <2>4, <2>5, <2>6
  <2> QED
    BY <1>1, <2>2, <2>7 DEF f
<1> QED
  BY <1>1, <1>3, <1>4

\* Where last goes.
LEMMA LastKeyGoes ==
    ASSUME IInv, LastKey
    PROVE  /\ SoundCursor(multi') /\ IsGreatestOf(WalkAt(multi'), KeysToWalk)
           /\ Stays /\ call' = <<"last">> /\ eaten' = eaten /\ kind \notin {"closed", "merge"}
<1> DEFINE f == multi'
<1>1. /\ Stays /\ call' = <<"last">> /\ eaten' = eaten /\ kind = "living"
      /\ f = SkipBackward(MultiLast(multi))
  BY DEF LastKey, Moves, Stays
<1>2. segs \in SegmentLists /\ KindIsOpen /\ SoundMulti(multi)
  BY <1>1, OpenFacts
<1> HIDE DEF f
<1>3. SoundCursor(f) /\ IsGreatestOf(LivingAt(f), LivingKeys)
  BY <1>1, <1>2, LivingLastGoes
<1>4. WalkAt(f) = LivingAt(f) /\ KeysToWalk = LivingKeys
  BY <1>1, <1>2, <1>3, WalkPlace, WalkedKeys
<1> QED
  BY <1>1, <1>3, <1>4 DEF f

\* Where next of a reader goes.
LEMMA NextKeyGoes ==
    ASSUME IInv, NextKey
    PROVE  /\ SoundCursor(multi') /\ WalkAt(multi) # Nowhere
           /\ IsLeastOf(WalkAt(multi'), {k \in KeysToWalk : k > WalkAt(multi)})
           /\ Stays /\ call' = <<"next">> /\ eaten' = eaten /\ kind \notin {"closed", "merge"}
<1> DEFINE f == multi'
           key == MultiKey(multi)
           S == {l \in LivingKeys : l > key}
<1>1. /\ Stays /\ call' = <<"next">> /\ eaten' = eaten /\ kind \in {"living", "range", "prefix"}
      /\ f = LivingNext(multi) /\ IsValid(multi)
  BY DEF NextKey, Moves, Stays
<1>2. segs \in SegmentLists /\ KindIsOpen /\ SoundCursor(multi) /\ SoundMulti(multi)
      /\ multi \in Multi
  BY <1>1, OpenFacts
<1>3. MultiValid(multi) /\ WalkAt(multi) = key /\ WalkAt(multi) # Nowhere
  BY <1>1, <1>2, WalkPlace
<1>4. key \in Keys /\ key \in Int
  BY <1>2, <1>3, ValidKey
<1>5. InBounds(key)
  BY <1>1 DEF IsValid
<1> HIDE DEF f
<1>6. SoundCursor(f) /\ IsLeastOf(LivingAt(f), S)
  BY <1>1, <1>2, <1>3, LivingNextGoes
<1>7. S \in SUBSET Keys /\ \A k \in S : FromMin(k)
  <2>1. S \in SUBSET Keys
    BY LivingAreKeys
  <2>2. ASSUME NEW k \in S
        PROVE  FromMin(k)
    <3>1. k \in Keys /\ k \in Int /\ k > key
      BY <2>1, KeyFacts
    <3>2. key <= k
      BY <1>4, <3>1
    <3> QED
      BY <1>2, <1>4, <1>5, <3>1, <3>2, BoundsAreTogether
  <2> QED
    BY <2>1, <2>2
<1>8. KeysToWalk = {k \in LivingKeys : InBounds(k)}
  BY <1>1, <1>2, WalkedKeys
<1>9. {k \in S : InBounds(k)} = {k \in KeysToWalk : k > key}
  BY <1>8
<1> HIDE DEF S, key
<1>10. IsLeastOf(IF LivingAt(f) # Nowhere /\ InBounds(LivingAt(f)) THEN LivingAt(f) ELSE Nowhere,
                 {k \in S : InBounds(k)})
  BY <1>2, <1>6, <1>7, LeastInBounds
<1>11. WalkAt(f) = IF LivingAt(f) # Nowhere /\ InBounds(LivingAt(f)) THEN LivingAt(f) ELSE Nowhere
  BY <1>1, <1>2, <1>6, WalkPlace
<1>12. IsLeastOf(WalkAt(f), {k \in KeysToWalk : k > WalkAt(multi)})
  BY <1>3, <1>9, <1>10, <1>11
<1> QED
  BY <1>1, <1>3, <1>6, <1>12 DEF f

\* Where prev goes.
LEMMA PrevKeyGoes ==
    ASSUME IInv, PrevKey
    PROVE  /\ SoundCursor(multi') /\ WalkAt(multi) # Nowhere
           /\ IsGreatestOf(WalkAt(multi'), {k \in KeysToWalk : k < WalkAt(multi)})
           /\ Stays /\ call' = <<"prev">> /\ eaten' = eaten /\ kind \notin {"closed", "merge"}
<1> DEFINE f == multi'
           key == MultiKey(multi)
<1>1. /\ Stays /\ call' = <<"prev">> /\ eaten' = eaten /\ kind = "living"
      /\ f = SkipBackward(MultiPrev(multi)) /\ IsValid(multi)
  BY DEF PrevKey, Moves, Stays
<1>2. segs \in SegmentLists /\ KindIsOpen /\ SoundCursor(multi)
  BY <1>1, OpenFacts
<1>3. MultiValid(multi) /\ WalkAt(multi) = key /\ WalkAt(multi) # Nowhere
  BY <1>1, <1>2, WalkPlace
<1> HIDE DEF f
<1>4. SoundCursor(f) /\ IsGreatestOf(LivingAt(f), {l \in LivingKeys : l < key})
  BY <1>1, <1>2, <1>3, LivingPrevGoes
<1>5. WalkAt(f) = LivingAt(f) /\ KeysToWalk = LivingKeys
  BY <1>1, <1>2, <1>4, WalkPlace, WalkedKeys
<1>6. IsGreatestOf(WalkAt(f), {k \in KeysToWalk : k < WalkAt(multi)})
  BY <1>3, <1>4, <1>5
<1> QED
  BY <1>1, <1>3, <1>4, <1>6 DEF f

\* The result of a seek, for a cursor that stands at x.
Told(k, x) == IF x = Nowhere THEN "invalid" ELSE IF x = k THEN "equal" ELSE "unequal"

\* Where seek goes, and what it says.
LEMMA SeekKeyGoes ==
    ASSUME IInv, Stays, kind = "living", NEW k \in Keys, NEW op \in {"EQ", "LE", "GE"},
           NEW f, f = LivingSeek(multi, k, op)
    PROVE  /\ SoundCursor(f)
           /\ op = "EQ" => WalkAt(f) = IF k \in KeysToWalk THEN k ELSE Nowhere
           /\ op = "LE" => IsGreatestOf(WalkAt(f), {m \in KeysToWalk : m <= k})
           /\ op = "GE" => IsLeastOf(WalkAt(f), {m \in KeysToWalk : m >= k})
           /\ op # "EQ" \/ IsValid(f) => ResultOf(f, k) = Told(k, WalkAt(f))
           /\ IsValid(f) <=> WalkAt(f) # Nowhere
<1>1. segs \in SegmentLists /\ KindIsOpen /\ SoundCursor(multi) /\ SoundMulti(multi)
  BY OpenFacts
<1>2. k \in Int /\ k # Nowhere
  BY KeyFacts
<1>3. /\ SoundCursor(f)
      /\ op = "EQ" => At(f) = IF k \in AllKeys THEN k ELSE Nowhere
      /\ op # "EQ" => ~OnTombstone(f)
      /\ op = "GE" => IsLeastOf(LivingAt(f), {l \in LivingKeys : l >= k})
      /\ op = "LE" => IsGreatestOf(LivingAt(f), {l \in LivingKeys : l <= k})
  BY <1>1, <1>2, LivingSeekGoes
<1>4. /\ KeysToWalk = LivingKeys /\ WalkAt(f) = LivingAt(f)
      /\ IsValid(f) <=> WalkAt(f) # Nowhere
      /\ IsValid(f) => MultiValid(f) /\ WalkAt(f) = MultiKey(f)
  BY <1>1, <1>3, WalkedKeys, WalkPlace
<1>5. MultiValid(f) => /\ IsTombstone(f) <=> MultiKey(f) \notin LivingKeys
                       /\ MultiKey(f) # Nowhere /\ At(f) = MultiKey(f)
  BY <1>1, <1>3, SeesTombstone, ValidKey DEF SoundCursor, SoundMulti
<1>6. ASSUME op = "EQ"
      PROVE  WalkAt(f) = IF k \in KeysToWalk THEN k ELSE Nowhere
  <2>1. LivingAt(f) = IF At(f) \in LivingKeys THEN At(f) ELSE Nowhere
    <3>1. CASE MultiValid(f)
      BY <1>5, <3>1 DEF LivingAt, LivingValid
    <3>2. CASE ~MultiValid(f)
      BY <3>2 DEF LivingAt, LivingValid, At
    <3> QED
      BY <3>1, <3>2
  <2>2. LivingKeys \subseteq AllKeys /\ Nowhere \notin LivingKeys
    BY LivingAreKeys, KeyFacts
  <2> QED
    BY <1>3, <1>4, <1>6, <2>1, <2>2
<1>7. ResultOf(f, k) = IF ~MultiValid(f) THEN "invalid"
                       ELSE IF MultiKey(f) = k THEN "equal" ELSE "unequal"
  BY DEF ResultOf, SeekResult
<1>8. ASSUME op # "EQ" \/ IsValid(f)
      PROVE  ResultOf(f, k) = Told(k, WalkAt(f))
  <2>1. CASE IsValid(f)
    BY <1>4, <1>7, <2>1 DEF Told
  <2>2. CASE op # "EQ"
    <3>1. LivingAt(f) = At(f)
      BY <1>3, <2>2, LivingPlace
    <3>2. MultiValid(f) => WalkAt(f) = MultiKey(f) /\ WalkAt(f) # Nowhere
      BY <1>4, <1>5, <3>1
    <3>3. ~MultiValid(f) => WalkAt(f) = Nowhere
      BY <1>4, <3>1 DEF At
    <3> QED
      BY <1>7, <3>2, <3>3 DEF Told
  <2> QED
    BY <1>8, <2>1, <2>2
<1> QED
  BY <1>3, <1>4, <1>6, <1>8

\* The shadowed pairs depend on the segments alone.
LEMMA ShadowedStays ==
    ASSUME segs' = segs
    PROVE  ShadowedBefore(multi)' = ShadowedBefore(multi')
<1>1. \A i, k : IsShadowed(i, k)' <=> IsShadowed(i, k)
  BY DEF IsShadowed, KeysOf, Seg
<1>2. Seg' = Seg
  BY DEF Seg
<1> QED
  BY <1>1, <1>2 DEF ShadowedBefore, MultiValid, MultiKey

\* A pair is shadowed when it is not on the newest segment that has its key.
LEMMA ShadowedPairs ==
    ASSUME segs \in SegmentLists
    PROVE  /\ \A i \in Seg : \A k : IsShadowed(i, k) => k \in AllKeys /\ k \in KeysOf(i)
           /\ ~(Len(segs) > 1) => \A i \in Seg : \A k : ~IsShadowed(i, k)
<1>1. \A i \in Seg : \A k : IsShadowed(i, k) => k \in AllKeys /\ k \in KeysOf(i)
  BY KeyOrNowhere DEF IsShadowed
<1>2. ASSUME ~(Len(segs) > 1), NEW i \in Seg, NEW k, IsShadowed(i, k)
      PROVE  FALSE
  <2>1. Seg = {1}
    BY <1>2, OneSegment
  <2>2. \E j \in Seg : j < i
    BY <1>2 DEF IsShadowed
  <2> QED
    BY <1>2, <2>1, <2>2
<1> QED
  BY <1>1, <1>2

\* Before the first key there is none.
LEMMA NoneBeforeFirst ==
    ASSUME segs \in SegmentLists, NEW m, SoundCursor(m), IsLeastOf(At(m), AllKeys)
    PROVE  ShadowedBefore(m) = {}
<1> SUFFICES ASSUME NEW i \in Seg, NEW k \in Keys, IsShadowed(i, k),
                    MultiValid(m) => k < MultiKey(m)
             PROVE  FALSE
  BY DEF ShadowedBefore
<1>1. k \in AllKeys /\ k \in Int
  BY ShadowedPairs, KeyFacts
<1>2. At(m) \in AllKeys /\ At(m) <= k
  BY <1>1 DEF IsLeastOf
<1>3. At(m) \in Int /\ At(m) # Nowhere
  BY <1>2, KeyFacts, KeyOrNowhere
<1>4. MultiValid(m) /\ MultiKey(m) = At(m)
  BY <1>3 DEF At
<1> QED
  BY <1>1, <1>2, <1>3, <1>4

\* And next passes those that its flags find, and no other.
LEMMA NextPasses ==
    ASSUME segs \in SegmentLists, NEW m, SoundCursor(m), MultiValid(m), m.dir = "forward",
           NEW f, SoundCursor(f), IsLeastOf(At(f), {l \in AllKeys : l > MultiKey(m)})
    PROVE  ShadowedBefore(f) = ShadowedBefore(m) \cup {<<i, MultiKey(m)>> : i \in EqualRun(m)}
<1> DEFINE key == MultiKey(m)
           c == m.cur
<1>1. /\ c \in Seg /\ key \in KeysOf(c) /\ key \in Int /\ key \in Keys /\ Seg \subseteq Int
      /\ \A j \in Seg : j < c => key \notin KeysOf(j)
      /\ EqualRun(m) = {i \in Seg \ {c} : key \in KeysOf(i)}
  BY ValidKey, SegFacts DEF SoundCursor, SoundMulti, Placed, OnNewest, GoesForward
<1>2. \A i \in Seg : i \in EqualRun(m) <=> IsShadowed(i, key)
  <2> TAKE i \in Seg
  <2>1. ASSUME i \in EqualRun(m)
        PROVE  IsShadowed(i, key)
    <3>1. i # c /\ key \in KeysOf(i)
      BY <1>1, <2>1
    <3>2. c < i
      <4>1. i \in Int /\ c \in Int /\ ~(i < c)
        BY <1>1, <3>1
      <4> HIDE DEF c
      <4> QED
        BY <3>1, <4>1
    <3> QED
      BY <1>1, <3>1, <3>2 DEF IsShadowed
  <2>2. ASSUME IsShadowed(i, key)
        PROVE  i \in EqualRun(m)
    <3>1. key \in KeysOf(i) /\ \E j \in Seg : j < i /\ key \in KeysOf(j)
      BY <2>2 DEF IsShadowed
    <3>2. i # c
      BY <1>1, <3>1
    <3> QED
      BY <1>1, <3>1, <3>2
  <2> QED
    BY <2>1, <2>2
<1>3. \A i \in EqualRun(m) : i \in Seg
  BY <1>1
<1> HIDE DEF key, c
<1>4. ASSUME NEW i \in Seg, NEW k \in Keys, IsShadowed(i, k)
      PROVE  (MultiValid(f) => k < MultiKey(f)) <=> k < key \/ k = key
  <2>1. k \in AllKeys /\ k \in Int
    BY <1>4, ShadowedPairs, KeyFacts
  <2>2. CASE MultiValid(f)
    <3> DEFINE x == MultiKey(f)
    <3>1. At(f) = x /\ x \in Int /\ x # Nowhere
      BY <2>2, ValidKey DEF SoundCursor, SoundMulti
    <3>2. x > key /\ (k > key => x <= k)
      BY <2>1, <3>1 DEF IsLeastOf, key
    <3> HIDE DEF x
    <3>3. k < x <=> k < key \/ k = key
      BY <1>1, <2>1, <3>1, <3>2
    <3> QED
      BY <2>2, <3>3 DEF x
  <2>3. CASE ~MultiValid(f)
    <3>1. At(f) = Nowhere /\ \A l \in AllKeys : l # Nowhere
      BY <2>3, KeyFacts, KeyOrNowhere DEF At
    <3>2. ~(k > key)
      BY <2>1, <3>1 DEF IsLeastOf, key
    <3> QED
      BY <1>1, <2>1, <2>3, <3>2
  <2> QED
    BY <2>2, <2>3
<1>5. ShadowedBefore(f) =
          {ik \in Seg \X Keys : IsShadowed(ik[1], ik[2]) /\ (ik[2] < key \/ ik[2] = key)}
  BY <1>4 DEF ShadowedBefore
<1>6. ShadowedBefore(m) = {ik \in Seg \X Keys : IsShadowed(ik[1], ik[2]) /\ ik[2] < key}
  BY DEF ShadowedBefore, key
<1>7. {<<i, key>> : i \in EqualRun(m)}
          = {ik \in Seg \X Keys : IsShadowed(ik[1], ik[2]) /\ ik[2] = key}
  <2>1. ASSUME NEW i \in EqualRun(m)
        PROVE  <<i, key>> \in {ik \in Seg \X Keys : IsShadowed(ik[1], ik[2]) /\ ik[2] = key}
    BY <1>1, <1>2, <1>3
  <2>2. ASSUME NEW i \in Seg, NEW k \in Keys, IsShadowed(i, k), k = key
        PROVE  <<i, k>> \in {<<j, key>> : j \in EqualRun(m)}
    BY <1>2, <2>2
  <2> QED
    BY <2>1, <2>2
<1>8. ShadowedBefore(f) = ShadowedBefore(m) \cup {<<i, key>> : i \in EqualRun(m)}
  BY <1>5, <1>6, <1>7
<1> QED
  BY <1>8 DEF key

-----------------------------------------------------------------------------
(* The theorems.                                                           *)

\* The first state.
LEMMA InitHolds == Init => IInv
<1> SUFFICES ASSUME Init
             PROVE  IInv
  OBVIOUS
<1>1. segs \in SegmentLists /\ kind = "closed" /\ multi = NewMulti /\ eaten = {} /\ call = <<"open">>
  BY DEF Init
<1>2. SoundCursor(multi)
  BY <1>1, NewIsSound
<1> QED
  BY <1>1, <1>2 DEF IInv, Opened, MergesForward, EatenIsShadowed

\* A call that moves a reader keeps it sound.
LEMMA ReaderKeeps ==
    ASSUME IInv, Stays, kind \notin {"closed", "merge"}, SoundCursor(multi'),
           call' # <<"open">>
    PROVE  IInv'
<1>1. SoundCursor(multi)'
  BY SoundStays DEF Stays
<1>2. Opened'
  <2>1. kind # "closed" /\ segs \in SegmentLists /\ kind \in Kinds \cup {"closed"}
        /\ bounds \in BoundsFor(kind)
    BY DEF IInv, Opened
  <2>2. BoundsFor(kind)' = BoundsFor(kind)
    BY DEF BoundsFor, Stays, NoBounds
  <2>3. (bounds \in BoundsFor(kind))'
    BY <2>1, <2>2 DEF Stays
  <2> QED
    BY <2>1, <2>3 DEF Opened, Stays
<1>3. MergesForward' /\ EatenIsShadowed'
  BY DEF MergesForward, EatenIsShadowed, Stays
<1> QED
  BY <1>1, <1>2, <1>3 DEF IInv

\* A call that moves a merge keeps it sound when it is told of the right pairs.
LEMMA MergeKeeps ==
    ASSUME IInv, Stays, kind = "merge", SoundCursor(multi'), call' # <<"open">>,
           IF Len(segs) > 1 THEN MultiValid(multi') => multi'.dir = "forward"
           ELSE multi'.dir = "wandering",
           eaten' = ShadowedBefore(multi')
    PROVE  IInv'
<1>1. SoundCursor(multi)'
  BY SoundStays DEF Stays
<1>2. Opened'
  <2>1. kind # "closed" /\ segs \in SegmentLists /\ kind \in Kinds \cup {"closed"}
        /\ bounds \in BoundsFor(kind)
    BY DEF IInv, Opened
  <2>2. BoundsFor(kind)' = BoundsFor(kind)
    BY DEF BoundsFor, Stays, NoBounds
  <2>3. (bounds \in BoundsFor(kind))'
    BY <2>1, <2>2 DEF Stays
  <2> QED
    BY <2>1, <2>3 DEF Opened, Stays
<1>3. MergesForward'
  BY DEF MergesForward, MultiValid, Stays
<1>4. EatenIsShadowed'
  <2>1. ShadowedBefore(multi)' = ShadowedBefore(multi')
    BY ShadowedStays DEF Stays
  <2>2. eaten' = ShadowedBefore(multi)'
    BY <2>1
  <2> QED
    BY <2>2 DEF EatenIsShadowed
<1> QED
  BY <1>1, <1>2, <1>3, <1>4 DEF IInv

\* Every step keeps the invariant.
LEMMA StepHolds ==
    ASSUME IInv, [Next]_vars
    PROVE  IInv'
<1>1. ASSUME OpenCursor
      PROVE  IInv'
  <2>1. /\ kind = "closed" /\ kind' \in Kinds /\ bounds' \in BoundsFor(kind')
        /\ segs' = segs /\ multi' = multi /\ eaten' = eaten /\ call' = call
    BY <1>1 DEF OpenCursor
  <2>2. /\ segs \in SegmentLists /\ SoundCursor(multi) /\ call = <<"open">>
        /\ multi = NewMulti /\ eaten = {}
    BY <2>1 DEF IInv, Opened
  <2>3. NewMulti' = NewMulti
    BY <2>1 DEF NewMulti, Seg
  <2>4. BoundsFor(kind)' = BoundsFor(kind')
    BY DEF BoundsFor
  <2>5. Opened'
    BY <2>1, <2>2, <2>3, <2>4 DEF Opened
  <2>6. SoundCursor(multi)'
    BY <2>1, <2>2, SoundStays
  <2>7. MergesForward' /\ EatenIsShadowed'
    BY <2>1, <2>2 DEF MergesForward, EatenIsShadowed
  <2> QED
    BY <2>5, <2>6, <2>7 DEF IInv
<1>2. ASSUME MergeFirst
      PROVE  IInv'
  <2>1. /\ SoundCursor(multi') /\ IsLeastOf(At(multi'), AllKeys)
        /\ Stays /\ call' = <<"first">> /\ eaten' = {} /\ kind = "merge"
        /\ multi'.dir = IF Len(segs) > 1 THEN "forward" ELSE "wandering"
    BY <1>2, MergeFirstGoes
  <2>2. segs \in SegmentLists
    BY DEF IInv, Opened
  <2>3. eaten' = ShadowedBefore(multi')
    BY <2>1, <2>2, NoneBeforeFirst
  <2> QED
    BY <2>1, <2>3, MergeKeeps
<1>3. ASSUME MergeNext
      PROVE  IInv'
  <2>1. /\ SoundCursor(multi') /\ MultiValid(multi)
        /\ IsLeastOf(At(multi'), {l \in AllKeys : l > MultiKey(multi)})
        /\ Stays /\ call' = <<"next">> /\ kind = "merge"
        /\ Len(segs) > 1 => /\ multi'.dir = "forward" /\ multi.dir = "forward"
                            /\ eaten' = eaten \cup {<<i, MultiKey(multi)>> : i \in EqualRun(multi)}
        /\ ~(Len(segs) > 1) => multi'.dir = "wandering" /\ eaten' = eaten
    BY <1>3, MergeNextGoes
  <2>2. segs \in SegmentLists /\ SoundCursor(multi)
    BY DEF IInv, Opened
  <2>3. call # <<"open">>
    <3>1. call = <<"open">> => multi = NewMulti
      BY DEF IInv, Opened
    <3> QED
      BY <2>1, <2>2, <3>1, NewIsSound
  <2>4. eaten = ShadowedBefore(multi)
    BY <2>1, <2>3 DEF IInv, EatenIsShadowed
  <2>5. eaten' = ShadowedBefore(multi')
    <3>1. CASE Len(segs) > 1
      BY <2>1, <2>2, <2>4, <3>1, NextPasses
    <3>2. CASE ~(Len(segs) > 1)
      <4>1. \A m : ShadowedBefore(m) = {}
        BY <2>2, <3>2, ShadowedPairs DEF ShadowedBefore
      <4> QED
        BY <2>1, <2>4, <3>2, <4>1
    <3> QED
      BY <3>1, <3>2
  <2> QED
    BY <2>1, <2>5, MergeKeeps
<1>4. ASSUME FirstKey
      PROVE  IInv'
  <2>1. SoundCursor(multi') /\ Stays /\ call' = <<"first">> /\ kind \notin {"closed", "merge"}
    BY <1>4, FirstKeyGoes
  <2> QED
    BY <2>1, ReaderKeeps
<1>5. ASSUME LastKey
      PROVE  IInv'
  <2>1. SoundCursor(multi') /\ Stays /\ call' = <<"last">> /\ kind \notin {"closed", "merge"}
    BY <1>5, LastKeyGoes
  <2> QED
    BY <2>1, ReaderKeeps
<1>6. ASSUME NextKey
      PROVE  IInv'
  <2>1. SoundCursor(multi') /\ Stays /\ call' = <<"next">> /\ kind \notin {"closed", "merge"}
    BY <1>6, NextKeyGoes
  <2> QED
    BY <2>1, ReaderKeeps
<1>7. ASSUME PrevKey
      PROVE  IInv'
  <2>1. SoundCursor(multi') /\ Stays /\ call' = <<"prev">> /\ kind \notin {"closed", "merge"}
    BY <1>7, PrevKeyGoes
  <2> QED
    BY <2>1, ReaderKeeps
<1>8. ASSUME Seek
      PROVE  IInv'
  <2>1. PICK k \in Keys, op \in {"EQ", "LE", "GE"} :
            /\ multi' = LivingSeek(multi, k, op)
            /\ call' = <<"seek", k, op, ResultOf(LivingSeek(multi, k, op), k)>>
            /\ Stays /\ kind = "living"
    BY <1>8 DEF Seek, Moves, Stays
  <2>2. SoundCursor(multi')
    BY <2>1, SeekKeyGoes
  <2>3. call' # <<"open">>
    BY <2>1
  <2> QED
    BY <2>1, <2>2, <2>3, ReaderKeeps
<1>9. ASSUME UNCHANGED vars
      PROVE  IInv'
  <2>1. /\ segs' = segs /\ kind' = kind /\ bounds' = bounds /\ multi' = multi
        /\ eaten' = eaten /\ call' = call
    BY <1>9 DEF vars
  <2>2. SoundCursor(multi)'
    BY <2>1, SoundStays DEF IInv
  <2>3. NewMulti' = NewMulti /\ BoundsFor(kind)' = BoundsFor(kind)
    BY <2>1 DEF NewMulti, Seg, BoundsFor
  <2>4. Opened' /\ MergesForward'
    BY <2>1, <2>3 DEF IInv, Opened, MergesForward, MultiValid
  <2>5. ShadowedBefore(multi)' = ShadowedBefore(multi)
    BY <2>1, ShadowedStays
  <2>6. EatenIsShadowed'
    <3>1. (kind = "merge" /\ call # <<"open">>) => eaten = ShadowedBefore(multi)
      BY DEF IInv, EatenIsShadowed
    <3> QED
      BY <2>1, <2>5, <3>1 DEF EatenIsShadowed
  <2> QED
    BY <2>2, <2>4, <2>6 DEF IInv
<1> QED
  BY <1>1, <1>2, <1>3, <1>4, <1>5, <1>6, <1>7, <1>8, <1>9 DEF Next

\* The inductive invariant: the cursors on the segments, the order they are sorted in
\* and the flags of that order are where the direction of the last call promises, and a
\* merge has been told of what it has passed.
THEOREM Inductive == Spec => []IInv
<1>1. IInv /\ [Next]_vars => IInv'
  BY StepHolds
<1> QED
  BY <1>1, InitHolds, PTL DEF Spec

\* Over any number of segments and any keys, after any calls and changes of direction,
\* the cursors on the segments are where the comments in next say, and no place that
\* should be unreachable is reached.
THEOREM SubcursorsAlwaysFollow == Spec => []SubcursorsFollow
<1>1. IInv => SubcursorsFollow
  <2> SUFFICES ASSUME IInv
               PROVE  SubcursorsFollow
    OBVIOUS
  <2>1. SoundMulti(multi) /\ Placed(multi)
    BY DEF IInv, SoundCursor
  <2>2. ~multi.panicked /\ multi.dir \in Direction
    BY <2>1, MultiParts DEF SoundMulti
  <2>3. ASSUME MultiValid(multi), NEW i \in Seg
        PROVE  CASE multi.dir = "forward" -> multi.subs[i] = SubSeek(i, MultiKey(multi), "GE")
                 [] multi.dir = "backward" -> multi.subs[i] = SubSeek(i, MultiKey(multi), "LE")
                 [] multi.dir = "wandering" -> TRUE
    BY <2>1, <2>2, <2>3 DEF Placed, GoesForward, GoesBackward, Direction
  <2> QED
    BY <2>2, <2>3 DEF SubcursorsFollow
<1> QED
  BY <1>1, Inductive, PTL

\* A merge over any segments is told of every pair it has passed that is shadowed, and
\* of no other: the overflows it frees are those nobody reaches through its result.
THEOREM EatenAreShadowed == Spec => []EatenIsShadowed
<1>1. IInv => EatenIsShadowed
  BY DEF IInv
<1> QED
  BY <1>1, Inductive, PTL

\* The functions of the abstract cursor are those of this module.
LEMMA AbstractOperators ==
    /\ \A S : Abstract!Least(S) = Least(S)
    /\ \A S : Abstract!Greatest(S) = Greatest(S)
    /\ \A k, x : Abstract!SeekResult(k, x) = Told(k, x)
BY DEF Abstract!Least, Least, Abstract!Greatest, Greatest, Abstract!SeekResult, Told

\* What is told of a call that is not a seek.
LEMMA SeenAsIs ==
    /\ call[1] # "seek" => CallAsSeen = call
    /\ call'[1] # "seek" => CallAsSeen' = call'
BY DEF CallAsSeen

\* The keys to walk over are keys.
LEMMA WalkedAreKeys == KeysToWalk \in SUBSET Keys
BY DEF KeysToWalk

\* Every step is one of the abstract cursor, or none.
LEMMA StepRefines ==
    ASSUME IInv, [Next]_vars
    PROVE  [Abstract!Next]_<<KeysToWalk, WalkAt(multi), CallAsSeen>>
<1>1. \A S \in SUBSET Keys : \A x : /\ IsLeastOf(x, S) => x = Least(S)
                                    /\ IsGreatestOf(x, S) => x = Greatest(S)
  BY IsLeast
<1> DEFINE K == KeysToWalk
           at == WalkAt(multi)
<1>2. CASE OpenCursor
  <2>1. /\ segs' = segs /\ multi' = multi /\ call' = call /\ kind = "closed"
    BY <1>2 DEF OpenCursor
  <2>2. call = <<"open">> /\ multi = NewMulti /\ segs \in SegmentLists
    BY <2>1 DEF IInv, Opened
  <2>3. ~MultiValid(multi)
    BY <2>2, NewIsSound
  <2>4. ~IsValid(multi)'
    BY <2>1, <2>3 DEF IsValid, LivingValid, MultiValid
  <2>5. (IF kind # "closed" /\ IsValid(multi) THEN MultiKey(multi) ELSE Nowhere)' = Nowhere
    BY <2>4
  <2>6. CallAsSeen' = <<"open">>
    BY <2>1, <2>2, SeenAsIs
  <2>7. Abstract!Open
    BY <2>5, <2>6 DEF Abstract!Open
  <2> QED
    BY <2>7 DEF Abstract!Next
<1>3. CASE MergeFirst
  <2>1. /\ SoundCursor(multi') /\ IsLeastOf(At(multi'), AllKeys)
        /\ Stays /\ call' = <<"first">> /\ kind = "merge"
    BY <1>3, MergeFirstGoes
  <2>2. KeysToWalk = AllKeys /\ WalkAt(multi') = At(multi')
    BY <2>1, OpenFacts, WalkedKeys, WalkPlace
  <2>3. KeysToWalk' = KeysToWalk /\ WalkAt(multi)' = WalkAt(multi')
    BY <2>1, WalkStays
  <2>4. CallAsSeen' = <<"first">>
    BY <2>1, SeenAsIs
  <2>5. WalkAt(multi)' = Abstract!Least(KeysToWalk)
    BY <1>1, <2>1, <2>2, <2>3, AbstractOperators, WalkedAreKeys
  <2>6. Abstract!FirstKey
    BY <2>3, <2>4, <2>5 DEF Abstract!FirstKey, WalkAt
  <2> QED
    BY <2>6 DEF Abstract!Next
<1>4. CASE MergeNext
  <2>1. /\ SoundCursor(multi') /\ MultiValid(multi)
        /\ IsLeastOf(At(multi'), {l \in AllKeys : l > MultiKey(multi)})
        /\ Stays /\ call' = <<"next">> /\ kind = "merge"
    BY <1>4, MergeNextGoes
  <2>2. segs \in SegmentLists /\ KindIsOpen /\ SoundCursor(multi) /\ SoundMulti(multi)
        /\ multi \in Multi
    BY <2>1, OpenFacts
  <2>3. /\ KeysToWalk = AllKeys /\ WalkAt(multi') = At(multi') /\ WalkAt(multi) = At(multi)
        /\ At(multi) = MultiKey(multi) /\ At(multi) # Nowhere
    BY <2>1, <2>2, WalkedKeys, WalkPlace, ValidKey
  <2>4. KeysToWalk' = KeysToWalk /\ WalkAt(multi)' = WalkAt(multi')
    BY <2>1, WalkStays
  <2>5. CallAsSeen' = <<"next">>
    BY <2>1, SeenAsIs
  <2>6. WalkAt(multi)' = Abstract!Least({k \in KeysToWalk : k > WalkAt(multi)})
    <3>1. IsLeastOf(WalkAt(multi'), {k \in KeysToWalk : k > WalkAt(multi)})
      BY <2>1, <2>3
    <3> QED
      BY <1>1, <2>4, <3>1, AbstractOperators, WalkedAreKeys
  <2>7. Abstract!NextKey
    BY <2>3, <2>4, <2>5, <2>6 DEF Abstract!NextKey, WalkAt
  <2> QED
    BY <2>7 DEF Abstract!Next
<1>5. CASE FirstKey
  <2>1. /\ IsLeastOf(WalkAt(multi'), KeysToWalk)
        /\ Stays /\ call' = <<"first">>
    BY <1>5, FirstKeyGoes
  <2>2. KeysToWalk' = KeysToWalk /\ WalkAt(multi)' = WalkAt(multi')
    BY <2>1, WalkStays
  <2>3. CallAsSeen' = <<"first">>
    BY <2>1, SeenAsIs
  <2>4. WalkAt(multi)' = Abstract!Least(KeysToWalk)
    BY <1>1, <2>1, <2>2, AbstractOperators, WalkedAreKeys
  <2>5. Abstract!FirstKey
    BY <2>1, <2>2, <2>3, <2>4 DEF Abstract!FirstKey, WalkAt
  <2> QED
    BY <2>5 DEF Abstract!Next
<1>6. CASE LastKey
  <2>1. /\ IsGreatestOf(WalkAt(multi'), KeysToWalk)
        /\ Stays /\ call' = <<"last">>
    BY <1>6, LastKeyGoes
  <2>2. KeysToWalk' = KeysToWalk /\ WalkAt(multi)' = WalkAt(multi')
    BY <2>1, WalkStays
  <2>3. CallAsSeen' = <<"last">>
    BY <2>1, SeenAsIs
  <2>4. WalkAt(multi)' = Abstract!Greatest(KeysToWalk)
    BY <1>1, <2>1, <2>2, AbstractOperators, WalkedAreKeys
  <2>5. Abstract!LastKey
    BY <2>1, <2>2, <2>3, <2>4 DEF Abstract!LastKey, WalkAt
  <2> QED
    BY <2>5 DEF Abstract!Next
<1>7. CASE NextKey
  <2>1. /\ IsLeastOf(WalkAt(multi'), {k \in KeysToWalk : k > WalkAt(multi)}) /\ WalkAt(multi) # Nowhere
        /\ Stays /\ call' = <<"next">>
    BY <1>7, NextKeyGoes
  <2>2. KeysToWalk' = KeysToWalk /\ WalkAt(multi)' = WalkAt(multi')
    BY <2>1, WalkStays
  <2>3. CallAsSeen' = <<"next">>
    BY <2>1, SeenAsIs
  <2>4. WalkAt(multi)' = Abstract!Least({k \in KeysToWalk : k > WalkAt(multi)})
    BY <1>1, <2>1, <2>2, AbstractOperators, WalkedAreKeys
  <2>5. Abstract!NextKey
    BY <2>1, <2>2, <2>3, <2>4 DEF Abstract!NextKey, WalkAt
  <2> QED
    BY <2>5 DEF Abstract!Next
<1>8. CASE PrevKey
  <2>1. /\ IsGreatestOf(WalkAt(multi'), {k \in KeysToWalk : k < WalkAt(multi)}) /\ WalkAt(multi) # Nowhere
        /\ Stays /\ call' = <<"prev">>
    BY <1>8, PrevKeyGoes
  <2>2. KeysToWalk' = KeysToWalk /\ WalkAt(multi)' = WalkAt(multi')
    BY <2>1, WalkStays
  <2>3. CallAsSeen' = <<"prev">>
    BY <2>1, SeenAsIs
  <2>4. WalkAt(multi)' = Abstract!Greatest({k \in KeysToWalk : k < WalkAt(multi)})
    BY <1>1, <2>1, <2>2, AbstractOperators, WalkedAreKeys
  <2>5. Abstract!PrevKey
    BY <2>1, <2>2, <2>3, <2>4 DEF Abstract!PrevKey, WalkAt
  <2> QED
    BY <2>5 DEF Abstract!Next
<1>9. CASE Seek
  <2>1. PICK k \in Keys, op \in {"EQ", "LE", "GE"} :
            /\ multi' = LivingSeek(multi, k, op)
            /\ call' = <<"seek", k, op, ResultOf(multi', k)>>
            /\ Stays /\ kind = "living"
    BY <1>9 DEF Seek, Moves, Stays
  <2> DEFINE r == ResultOf(multi', k)
             x == WalkAt(multi')
             target == Abstract!Target(k, op)
  <2>2. /\ op = "EQ" => x = IF k \in KeysToWalk THEN k ELSE Nowhere
        /\ op = "LE" => IsGreatestOf(x, {m \in KeysToWalk : m <= k})
        /\ op = "GE" => IsLeastOf(x, {m \in KeysToWalk : m >= k})
        /\ op # "EQ" \/ IsValid(multi') => r = Told(k, x)
        /\ IsValid(multi') <=> x # Nowhere
    BY <2>1, SeekKeyGoes
  <2>3. KeysToWalk' = KeysToWalk /\ WalkAt(multi)' = x /\ (IsValid(multi)' <=> IsValid(multi'))
    BY <2>1, WalkStays
  <2> HIDE DEF r, x
  <2>4. x = target
    <3>1. {m \in KeysToWalk : m <= k} \in SUBSET Keys /\ {m \in KeysToWalk : m >= k} \in SUBSET Keys
      BY WalkedAreKeys
    <3>2. CASE op = "EQ"
      BY <2>2, <3>2 DEF Abstract!Target
    <3>3. CASE op = "LE"
      <4>1. x = Greatest({m \in KeysToWalk : m <= k})
        BY <1>1, <2>2, <3>1, <3>3
      <4>2. target = Abstract!Greatest({m \in KeysToWalk : m <= k})
        BY <3>3 DEF Abstract!Target
      <4> QED
        BY <4>1, <4>2, AbstractOperators
    <3>4. CASE op = "GE"
      <4>1. x = Least({m \in KeysToWalk : m >= k})
        BY <1>1, <2>2, <3>1, <3>4
      <4>2. target = Abstract!Least({m \in KeysToWalk : m >= k})
        BY <3>4 DEF Abstract!Target
      <4> QED
        BY <4>1, <4>2, AbstractOperators
    <3> QED
      BY <3>2, <3>3, <3>4
  <2>5. CallAsSeen' = IF op = "EQ" /\ ~IsValid(multi') THEN <<"seek", k, "EQ", "invalid">>
                      ELSE <<"seek", k, op, r>>
    <3>1. call'[1] = "seek" /\ call'[2] = k /\ call'[3] = op /\ call' = <<"seek", k, op, r>>
      BY <2>1 DEF r
    <3>2. CallAsSeen' = IF call'[1] = "seek" /\ call'[3] = "EQ" /\ ~IsValid(multi)'
                        THEN <<"seek", call'[2], "EQ", "invalid">> ELSE call'
      BY DEF CallAsSeen
    <3> QED
      BY <2>3, <3>1, <3>2
  <2>6. CallAsSeen' = <<"seek", k, op, Told(k, x)>>
    <3>1. CASE op = "EQ" /\ ~IsValid(multi')
      <4>1. Told(k, x) = "invalid"
        BY <2>2, <3>1 DEF Told
      <4> QED
        BY <2>5, <3>1, <4>1
    <3>2. CASE ~(op = "EQ" /\ ~IsValid(multi'))
      BY <2>2, <2>5, <3>2
    <3> QED
      BY <3>1, <3>2
  <2>7. Told(k, x) = Abstract!SeekResult(k, target)
    BY <2>4, AbstractOperators
  <2>8. op \in Abstract!SeekOp
    BY DEF Abstract!SeekOp
  <2>9. WalkAt(multi)' = target /\ CallAsSeen' = <<"seek", k, op, Abstract!SeekResult(k, target)>>
    BY <2>3, <2>4, <2>6, <2>7
  <2>10. Abstract!Seek
    BY <2>3, <2>8, <2>9 DEF Abstract!Seek, WalkAt
  <2> QED
    BY <2>10 DEF Abstract!Next
<1>10. CASE UNCHANGED vars
  <2>1. Stays /\ multi' = multi /\ call' = call
    BY <1>10 DEF vars, Stays
  <2>2. /\ KeysToWalk' = KeysToWalk /\ WalkAt(multi)' = WalkAt(multi)
        /\ IsValid(multi)' <=> IsValid(multi)
    BY <2>1, WalkStays
  <2>3. CallAsSeen' = CallAsSeen
    BY <2>1, <2>2 DEF CallAsSeen
  <2> QED
    BY <2>2, <2>3
<1> QED
  BY <1>2, <1>3, <1>4, <1>5, <1>6, <1>7, <1>8, <1>9, <1>10 DEF Next

\* Cursors over any segments implement the abstract cursor on the living keys that are in
\* their bounds: after any calls and changes of direction each goes where the order of
\* those keys says, and a seek tells where it went.
THEOREM GoesByOrder == Spec => ImplementsSortedCursor
<1>1. Init => Abstract!Init
  BY DEF Init, Abstract!Init, KeysToWalk, CallAsSeen
<1>2. IInv /\ [Next]_vars =>
          [Abstract!Next]_<<KeysToWalk,
                            IF kind # "closed" /\ IsValid(multi) THEN MultiKey(multi) ELSE Nowhere,
                            CallAsSeen>>
  BY StepRefines DEF WalkAt
<1> QED
  BY <1>1, <1>2, Inductive, PTL DEF Spec, ImplementsSortedCursor, Abstract!Spec
=============================================================================
