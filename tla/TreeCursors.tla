---------------------------- MODULE TreeCursors ----------------------------
(***************************************************************************)
(* Cursors over the trees that merges write: lsm/src/lib.rs, LeafCursor,   *)
(* ParentCursor and PageCursor.                                            *)
(*                                                                         *)
(* A cursor on a parent holds a cursor on the child it is in, and so on    *)
(* down to a leaf; when it goes to another child, the one below is moved   *)
(* to that page and keeps the index it had.  While one is open the pages   *)
(* under it do not change (Reclaim), so that nothing else happens here.    *)
(***************************************************************************)
EXTENDS Trees

CONSTANTS OpenDepths,  \* bound: depths of the trees that cursors are opened on
          Nowhere      \* not a key

ASSUME TreeCursorsAssumption == Nowhere \notin Keys /\ OpenDepths \subseteq Nat

VARIABLES cursor,  \* the cursors from the leaf up to the root of lower, by depth: the
                   \* page and the index there; or Closed
          at,      \* the key it stands on, or Nowhere
          call     \* the last call, with the result of a seek

allVars == <<vars, cursor, at, call>>

Closed == <<>>
None == 0

-----------------------------------------------------------------------------
(* The cursors, as values.  Each operation is that of the cursor at depth  *)
(* d, which changes those below it.                                        *)

Height == file[lower].depth

Items(c, d) == file[c[d].page].items
Child(c, d) == Items(c, d)[c[d].cur].page

\* move_to_page: a parent is in its first child at once; the index in the leaf stays
\* as it is.
MoveToPage(c, d, pg) ==
    LET page[e \in 0..d] == IF e = d THEN pg ELSE file[page[e + 1]].items[1].page
    IN  [e \in DOMAIN c |->
            IF e > d THEN c[e]
            ELSE [page |-> page[e], cur |-> IF e = 0 THEN c[e].cur ELSE 1]]

\* PageCursor::new.
NewCursor == MoveToPage([e \in 0..Height |-> [page |-> NoPage, cur |-> None]], Height, lower)

SetChild(c, d, i) ==
    LET moved == [c EXCEPT ![d].cur = i]
    IN  IF c[d].cur = i THEN c ELSE MoveToPage(moved, d - 1, Child(moved, d))

IsValid(c, d) == \A e \in 0..d : c[e].cur # None
KeyAt(c) == Items(c, 0)[c[0].cur].key

FirstOf(c, d) ==
    LET down[e \in 0..d] == IF e = d THEN c ELSE SetChild(down[e + 1], e + 1, 1)
    IN  [down[0] EXCEPT ![0].cur = 1]

LastOf(c, d) ==
    LET down[e \in 0..d] ==
            IF e = d THEN c ELSE SetChild(down[e + 1], e + 1, Len(Items(down[e + 1], e + 1)))
    IN  [down[0] EXCEPT ![0].cur = Len(Items(down[0], 0))]

\* When the cursor below has come to its end, that of the next child begins.
NextOf(c) ==
    LET leaf0 == [c EXCEPT ![0].cur = IF @ = None \/ @ = Len(Items(c, 0)) THEN None ELSE @ + 1]
        Turn(v, e) == IF IsValid(v, e - 1) \/ v[e].cur = Len(Items(v, e)) THEN v
                      ELSE FirstOf(SetChild(v, e, v[e].cur + 1), e - 1)
        up[e \in 0..Height] == IF e = 0 THEN leaf0 ELSE Turn(up[e - 1], e)
    IN  up[Height]

PrevOf(c) ==
    LET leaf0 == [c EXCEPT ![0].cur = IF @ = None THEN None ELSE @ - 1]
        Turn(v, e) == IF IsValid(v, e - 1) \/ v[e].cur = 1 THEN v
                      ELSE LastOf(SetChild(v, e, v[e].cur - 1), e - 1)
        up[e \in 0..Height] == IF e = 0 THEN leaf0 ELSE Turn(up[e - 1], e)
    IN  up[Height]

-----------------------------------------------------------------------------
(* LeafPage::search, in rounds, between the indexes min and max: le and ge *)
(* are the nearest keys it has passed on either side.                      *)

Middle(s) == (s.min + s.max) \div 2

\* Mutated: a miss at the first index forgets the key there.
NarrowAfterFirst(s, items, k) ==
    IF items[Middle(s)].key < k THEN [s EXCEPT !.min = Middle(s) + 1, !.le = Middle(s)]
    ELSE [s EXCEPT !.max = Middle(s) - 1, !.ge = IF Middle(s) = 1 THEN @ ELSE Middle(s)]

Narrow(s, items, k) ==
    IF items[Middle(s)].key < k THEN [s EXCEPT !.min = Middle(s) + 1, !.le = Middle(s)]
    ELSE [s EXCEPT !.max = Middle(s) - 1, !.ge = Middle(s)]

Search(items, k, op) ==
    LET Misses(s) == s.max < s.min
        Hits(s) == ~Misses(s) /\ items[Middle(s)].key = k
        all == [min |-> 1, max |-> Len(items), le |-> None, ge |-> None]
        round[n \in 0..Len(items)] ==
            IF n = 0 THEN all
            ELSE LET s == round[n - 1]
                 IN  IF Misses(s) \/ Hits(s) THEN s ELSE Narrow(s, items, k)
        end == round[Len(items)]
    IN  IF Hits(end) THEN Middle(end)
        ELSE CASE op = "EQ" -> None [] op = "LE" -> end.le [] op = "GE" -> end.ge

-----------------------------------------------------------------------------
(* ParentCursor::seek.                                                     *)

\* The first child whose last key is not before k is where k has to be.
Reach(c, d, k) == {i \in DOMAIN Items(c, d) : k <= Items(c, d)[i].key}
FirstReach(c, d, k) == CHOOSE n \in Reach(c, d, k) : \A m \in Reach(c, d, k) : n <= m

Sought(c, result) == [c |-> c, result |-> result]

SeekInLeaf(c, k, op) ==
    LET i == Search(Items(c, 0), k, op)
    IN  Sought([c EXCEPT ![0].cur = i],
               IF i = None THEN "invalid" ELSE IF Items(c, 0)[i].key = k THEN "equal" ELSE "unequal")

\* The greatest key before k may be in the child before that one.
SeekFrom(below, d, op) ==
    LET c == below.c
        i == c[d].cur
    IN  IF i > 1 /\ op = "LE" /\ below.result = "invalid"
        THEN Sought(LastOf(SetChild(c, d, i - 1), d - 1), "unequal")
        ELSE below

\* down are the cursors moved to where k has to be, unless it is behind all there is;
\* seek is what each of them finds.
SeekIn(cur, k, op) ==
    LET down[d \in 0..Height] ==
            IF d = Height THEN cur
            ELSE IF Reach(down[d + 1], d + 1, k) = {} THEN down[d + 1]
            ELSE SetChild(down[d + 1], d + 1, FirstReach(down[d + 1], d + 1, k))
        seek[d \in 0..Height] ==
            IF d = 0 THEN SeekInLeaf(down[0], k, op)
            ELSE IF Reach(down[d], d, k) # {} THEN SeekFrom(seek[d - 1], d, op)
            ELSE IF op = "LE" THEN Sought(LastOf(down[d], d), "unequal")
            ELSE Sought([down[d] EXCEPT ![d].cur = None], "invalid")
    IN  seek[Height]

-----------------------------------------------------------------------------
CursorInit == Init /\ cursor = Closed /\ at = Nowhere /\ call = <<"open">>

\* Every call ends with the cursor c.
Moves(c, what) ==
    /\ cursor' = c
    /\ at' = IF IsValid(c, Height) THEN KeyAt(c) ELSE Nowhere
    /\ call' = what
    /\ UNCHANGED vars

OpenCursor ==
    /\ cursor = Closed /\ phase = "idle" /\ upper = NoPage
    /\ lower # NoPage /\ Height \in OpenDepths
    /\ Moves(NewCursor, <<"open">>)

FirstKey == cursor # Closed /\ Moves(FirstOf(cursor, Height), <<"first">>)
LastKey == cursor # Closed /\ Moves(LastOf(cursor, Height), <<"last">>)

\* As the code, next and prev are called on a valid cursor only: on one that has
\* ended a ParentCursor would go to the wrong child.
NextKey == cursor # Closed /\ IsValid(cursor, Height) /\ Moves(NextOf(cursor), <<"next">>)
PrevKey == cursor # Closed /\ IsValid(cursor, Height) /\ Moves(PrevOf(cursor), <<"prev">>)

Seek ==
    /\ cursor # Closed
    /\ \E k \in Keys, op \in {"EQ", "LE", "GE"} :
         LET sought == SeekIn(cursor, k, op)
         IN  Moves(sought.c, <<"seek", k, op, sought.result>>)

CursorNext ==
    \/ Next /\ cursor = Closed /\ UNCHANGED <<cursor, at, call>>
    \/ OpenCursor \/ FirstKey \/ LastKey \/ NextKey \/ PrevKey \/ Seek

CursorSpec == CursorInit /\ [][CursorNext]_allVars

\* What keys the cursor has under it: those of the tree it was opened on.
KeysHere == IF cursor = Closed THEN {} ELSE KeysUnder(file, lower)

Sorted == INSTANCE SortedCursor WITH keys <- KeysHere

\* Whatever the shape of the tree and the calls before, a cursor goes where the order
\* of the keys says.
ImplementsSortedCursor == Sorted!Spec
=============================================================================
