------------------------- MODULE MergeLevels_proofs -------------------------
(***************************************************************************)
(* Proofs about MergeLevels, for any number of levels and writers and any  *)
(* settings.                                                               *)
(***************************************************************************)
EXTENDS MergeLevels, FiniteSetTheorems, SequenceTheorems, TLAPS

-----------------------------------------------------------------------------
(* The inductive invariant.                                                *)

\* The thread of the last level gets no further than its second lock.
LastPromotesNothing ==
    thread[Last] \notin {"check", "commit", "notify", "sleep"}

\* Who works on a level has its merge lock and, but for incoming, the next one.
LockedWhileMerging ==
    \A l \in Level :
        /\ thread[l] \in {"second", "check", "commit", "notify"} => mergelock[l] = {l}
        /\ thread[l] \in {"check", "commit", "notify"} /\ l # Incoming
               => mergelock[l + 1] = {l}

\* What a thread is about to commit is still there: nobody else can take it away.
StillThere ==
    /\ thread[Waiting] = "commit" => waiting # <<>>
    /\ \A l \in Regular : thread[l] = "commit" => regular[l] > 0

\* The threads and the writers exclude each other from the header.
LockedWhileCommitting ==
    /\ \A l \in Level : thread[l] = "notify" => writelock = {l}
    /\ \A w \in Writer : writer[w] = "writing" => writelock = {w}

\* The commits of those that saw incoming below its limit are counted.
Pending == {w \in Writer : writer[w] = "locking"}

Budget == DesperateIncoming + CommitsPerLock * Cardinality(Writer)

IncomingIsInBudget ==
    /\ Len(incoming) + CommitsPerLock * Cardinality(Pending) <= Budget
    /\ \A w \in Writer : writer[w] = "writing" =>
          Len(incoming) + CommitsPerLock * Cardinality(Pending) + left[w] <= Budget

\* A thread that needs a merge is at work, or a message is waiting for it, or one
\* is about to be sent.
WorkIsKnown ==
    \A l \in Level : NeedsMerge(l) =>
        \/ thread[l] # "recv"
        \/ queue[l] # <<>>
        \/ l # Incoming /\ thread[l - 1] = "notify"

\* One message more than the others has room: the one to terminate.
QueuesHaveRoom ==
    \A l \in Level : l > stopping => Len(queue[l]) <= MaxQueue

\* Until the last thread has panicked no thread has, the levels terminate in
\* order, and none is told to before its turn.
StopInOrder ==
    \/ thread[Last] = "dead"
    \/ /\ \A l \in Level : thread[l] # "dead"
       /\ poisoned = {}
       /\ \A l \in Level : thread[l] = "done" => l <= stopping
       /\ \A l \in Level : \A i \in 1..Len(queue[l]) :
             queue[l][i] = "terminate" => l <= stopping
       /\ \A l \in Level : l < stopping => thread[l] = "done"

IInv ==
    /\ TypeOK
    /\ LastPromotesNothing
    /\ LockedWhileMerging
    /\ StillThere
    /\ LockedWhileCommitting
    /\ IncomingIsInBudget
    /\ WorkIsKnown
    /\ QueuesHaveRoom
    /\ StopInOrder

-----------------------------------------------------------------------------
(* Queues, runs of incoming, and the levels.                               *)

\* Levels are numbers.
LEMMA LevelFacts ==
    /\ Level = Incoming..Last /\ Regular = 0..Last
    /\ Incoming = -2 /\ Waiting = -1 /\ Last \in Nat /\ Last \in Regular
    /\ Incoming \in Level /\ Waiting \in Level /\ Last \in Level
    /\ Running = -3 /\ Stopped = Last + 1
    /\ \A l \in Level : l \in Int /\ (l # Last => l + 1 \in Level)
    /\ \A l \in Level : l = Incoming \/ l = Waiting \/ l \in Regular
    /\ Regular \subseteq Level /\ Incoming \notin Regular /\ Waiting \notin Regular
    /\ Regular \subseteq Nat
BY LevelsAssumption DEF Level, Incoming, Waiting, Last, Regular, Running, Stopped

\* A set of numbers that is not empty has a least one.
LEMMA LeastNumber ==
    ASSUME NEW S \in SUBSET Nat, S # {}
    PROVE  \E n \in S : \A m \in S : n <= m
<1> DEFINE T == {1..n : n \in S}
<1>1. T \subseteq FiniteSubsetsOf(Nat) /\ T # {}
  <2>1. \A n \in S : 1..n \in SUBSET Nat /\ IsFiniteSet(1..n)
    BY FS_Interval
  <2> QED
    BY <2>1 DEF FiniteSubsetsOf
<1>2. PICK X \in T : \A Y \in T : <<Y, X>> \notin StrictSubsetOrdering(Nat)
  BY <1>1, FS_StrictSubsetOrderingWellFounded, WFMin, Zenon
<1>3. PICK n \in S : X = 1..n
  OBVIOUS
<1>4. ASSUME NEW m \in S, m < n
      PROVE  FALSE
  <2>1. n \in 1..n /\ n \notin 1..m /\ 1..m \subseteq 1..n
    BY <1>4
  <2>2. <<1..m, 1..n>> \in StrictSubsetOrdering(Nat)
    BY <2>1 DEF StrictSubsetOrdering
  <2> QED
    BY <1>2, <1>3, <2>2
<1> QED
  BY <1>4

\* A level that needs a merge holds something.
LEMMA SizesArePositive ==
    ASSUME NEW l \in Regular
    PROVE  NeedsMergeSize[l] \in Nat \ {0} /\ DesperateFactor * NeedsMergeSize[l] \in Nat
<1>1. NeedsMergeSize[l] \in Nat \ {0} /\ DesperateFactor \in Nat
  BY SizesAssumption, LevelsAssumption
<1> QED
  BY <1>1

\* A run of incoming is not empty (get_level_to_merge of incoming).
LEMMA RunLengthType ==
    ASSUME incoming \in Seq(SegmentKind), incoming # <<>>
    PROVE  RunLength \in 1..Len(incoming)
<1> DEFINE n == Len(incoming)
           IsRun(k) == /\ \A i \in n - k + 1..n : incoming[i] = Oldest(incoming)
                       /\ k < n => incoming[n - k] # Oldest(incoming)
           ends == {k \in 1..n : k = n \/ incoming[n - k] # Oldest(incoming)}
<1>1. n \in Nat \ {0}
  BY EmptySeq
<1>2. PICK k \in ends : \A m \in ends : k <= m
  <2>1. ends \in SUBSET Nat /\ n \in ends
    BY <1>1
  <2> HIDE DEF ends
  <2> QED
    BY <2>1, LeastNumber
<1>3. k \in 1..n /\ IsRun(k)
  <2>1. k \in 1..n /\ (k < n => incoming[n - k] # Oldest(incoming))
    BY <1>1, <1>2
  <2>2. ASSUME NEW i \in n - k + 1..n, incoming[i] # Oldest(incoming)
        PROVE  FALSE
    <3>1. i # n
      BY <2>2 DEF Oldest
    <3>2. n - i \in 1..n /\ n - (n - i) = i
      BY <1>1, <2>1, <3>1
    <3>3. n - i \in ends
      BY <2>2, <3>2
    <3> QED
      BY <1>1, <1>2, <2>1, <3>3
  <2> QED
    BY <2>1, <2>2
<1> HIDE DEF IsRun
<1>4. \E j \in 1..n : IsRun(j)
  BY <1>3
<1>5. RunLength = CHOOSE j \in 1..n : IsRun(j)
  BY DEF RunLength, IsRun
<1> QED
  BY <1>4, <1>5

\* A message goes behind those that wait.
LEMMA AppendedMessage ==
    ASSUME NEW q \in Seq({"work", "terminate"}), NEW e \in {"work", "terminate"}
    PROVE  /\ Append(q, e) \in Seq({"work", "terminate"})
           /\ Append(q, e) # <<>>
           /\ Len(q) \in Nat /\ Len(Append(q, e)) = Len(q) + 1
           /\ \A i \in 1..Len(q) : Append(q, e)[i] = q[i]
           /\ Append(q, e)[Len(q) + 1] = e
<1> DEFINE S == {"work", "terminate"}
<1>1. q \in Seq(S) /\ e \in S
  OBVIOUS
<1> HIDE DEF S
<1>2. /\ Append(q, e) \in Seq(S) /\ Append(q, e) # <<>>
      /\ Len(q) \in Nat /\ Len(Append(q, e)) = Len(q) + 1
      /\ \A i \in 1..Len(q) : Append(q, e)[i] = q[i]
      /\ Append(q, e)[Len(q) + 1] = e
  BY <1>1, AppendProperties, LenProperties
<1> QED
  BY <1>2 DEF S

\* What a step that sends work, or nothing, does to the channels.
QueueGrows ==
    /\ queue' \in [Level -> Seq({"work", "terminate"})]
    /\ \A k \in Level :
          /\ Len(queue'[k]) <= MaxQueue + 1
          /\ Len(queue[k]) <= MaxQueue => Len(queue'[k]) <= MaxQueue
          /\ queue[k] # <<>> => queue'[k] # <<>>
          /\ \A i \in 1..Len(queue'[k]) : queue'[k][i] = "terminate" =>
                \E j \in 1..Len(queue[k]) : queue[k][j] = "terminate"

\* Channels that stay as they are have lost nothing.
LEMMA SameQueueGrows ==
    ASSUME TypeOK, queue' = queue
    PROVE  QueueGrows
BY DEF TypeOK, QueueGrows

\* notify_work: the thread has a message then, and no other channel changes.
LEMMA SentGrows ==
    ASSUME TypeOK, NEW l \in Level, queue' = Sent(queue, l)
    PROVE  QueueGrows /\ queue'[l] # <<>>
<1>1. /\ queue \in [Level -> Seq({"work", "terminate"})] /\ MaxQueue \in Nat \ {0}
      /\ \A k \in Level : Len(queue[k]) <= MaxQueue + 1
  BY LevelsAssumption DEF TypeOK
<1>2. CASE Len(queue[l]) < MaxQueue
  <2>1. queue' = [queue EXCEPT ![l] = Append(queue[l], "work")]
    BY <1>2 DEF Sent
  <2>2. queue[l] \in Seq({"work", "terminate"})
    BY <1>1
  <2>3. /\ Append(queue[l], "work") \in Seq({"work", "terminate"})
        /\ Append(queue[l], "work") # <<>>
        /\ Len(Append(queue[l], "work")) = Len(queue[l]) + 1
        /\ \A i \in 1..Len(queue[l]) : Append(queue[l], "work")[i] = queue[l][i]
        /\ Append(queue[l], "work")[Len(queue[l]) + 1] = "work"
    BY <2>2, AppendedMessage
  <2>4. \A k \in Level : queue'[k] = IF k = l THEN Append(queue[l], "work") ELSE queue[k]
    BY <1>1, <2>1
  <2>5. queue' \in [Level -> Seq({"work", "terminate"})]
    BY <1>1, <2>1, <2>3
  <2>6. \A k \in Level : Len(queue[k]) \in Nat
    BY <1>1, AppendedMessage
  <2>7. ASSUME NEW k \in Level
        PROVE  /\ Len(queue'[k]) <= MaxQueue + 1
               /\ Len(queue[k]) <= MaxQueue => Len(queue'[k]) <= MaxQueue
               /\ queue[k] # <<>> => queue'[k] # <<>>
    <3> DEFINE a == Append(queue[l], "work")
    <3>1. /\ Len(a) = Len(queue[l]) + 1 /\ a # <<>>
          /\ queue'[k] = IF k = l THEN a ELSE queue[k]
      BY <2>3, <2>4
    <3> HIDE DEF a
    <3> QED
      BY <1>1, <1>2, <2>6, <3>1
  <2>8. ASSUME NEW k \in Level, NEW i \in 1..Len(queue'[k]), queue'[k][i] = "terminate"
        PROVE  \E j \in 1..Len(queue[k]) : queue[k][j] = "terminate"
    <3>1. CASE k # l
      BY <2>4, <2>8, <3>1
    <3>2. CASE k = l
      <4> DEFINE a == Append(queue[l], "work")
      <4>1. /\ Len(a) = Len(queue[l]) + 1 /\ a[Len(queue[l]) + 1] = "work"
            /\ \A j \in 1..Len(queue[l]) : a[j] = queue[l][j]
            /\ queue'[l] = a
        BY <2>3, <2>4
      <4> HIDE DEF a
      <4>2. i \in 1..Len(queue[l])
        BY <2>6, <2>8, <3>2, <4>1
      <4> QED
        BY <2>8, <3>2, <4>1, <4>2
    <3> QED
      BY <3>1, <3>2
  <2> QED
    BY <2>3, <2>4, <2>5, <2>7, <2>8 DEF QueueGrows
<1>3. CASE ~(Len(queue[l]) < MaxQueue)
  <2>1. queue' = queue
    BY <1>3 DEF Sent
  <2>2. queue[l] # <<>>
    BY <1>1, <1>3, EmptySeq
  <2> QED
    BY <2>1, <2>2, SameQueueGrows
<1> QED
  BY <1>2, <1>3

-----------------------------------------------------------------------------
(* What most steps keep.                                                   *)

\* What needs a merge depends on the levels only.
LEMMA SameLevels ==
    ASSUME UNCHANGED levels
    PROVE  \A l : (NeedsMerge(l)' <=> NeedsMerge(l)) /\ (Desperate(l)' <=> Desperate(l))
BY DEF levels, NeedsMerge, Desperate

\* One thread goes on, the others stay.
LEMMA ThreadMoves ==
    ASSUME TypeOK, NEW l \in Level, NEW s \in ThreadState,
           thread' = [thread EXCEPT ![l] = s]
    PROVE  /\ thread' \in [Level -> ThreadState]
           /\ \A k \in Level : thread'[k] = IF k = l THEN s ELSE thread[k]
BY DEF TypeOK

\* The level after one whose thread has not ended still listens, unless the last
\* thread has panicked.
LEMMA NextListens ==
    ASSUME IInv, NEW l \in Level, l # Last, thread[l] \notin {"done", "dead"},
           ~Listening(l + 1)
    PROVE  thread[Last] = "dead"
<1>1. l + 1 \in Level /\ l \in Int /\ stopping \in Int
  BY LevelFacts DEF IInv, TypeOK
<1>2. thread[l + 1] = "done" \/ thread[l + 1] = "dead"
  BY DEF Listening
<1>3. l + 1 <= stopping => l < stopping
  BY <1>1
<1> QED
  BY <1>1, <1>2, <1>3 DEF IInv, StopInOrder

\* Threads end in order as long as none ends out of turn.
LEMMA StopKept ==
    ASSUME IInv, QueueGrows, stopping' = stopping,
           \/ thread'[Last] = "dead"
           \/ /\ poisoned' = poisoned
              /\ \A k \in Level : \/ thread'[k] = thread[k]
                                  \/ /\ thread[k] \notin {"done", "dead"}
                                     /\ thread'[k] \notin {"done", "dead"}
    PROVE  QueuesHaveRoom' /\ StopInOrder'
<1>1. QueuesHaveRoom'
  BY DEF IInv, QueuesHaveRoom, QueueGrows
<1>2. StopInOrder'
  <2>1. CASE thread'[Last] = "dead"
    BY <2>1 DEF StopInOrder
  <2>2. CASE thread'[Last] # "dead"
    <3>1. thread[Last] # "dead" /\ poisoned' = poisoned
      BY <2>2, LevelFacts
    <3>2. /\ \A l \in Level : thread[l] # "dead"
          /\ poisoned = {}
          /\ \A l \in Level : thread[l] = "done" => l <= stopping
          /\ \A l \in Level : \A i \in 1..Len(queue[l]) :
                queue[l][i] = "terminate" => l <= stopping
          /\ \A l \in Level : l < stopping => thread[l] = "done"
      BY <3>1 DEF IInv, StopInOrder
    <3>3. \A l \in Level : \A i \in 1..Len(queue'[l]) :
             queue'[l][i] = "terminate" => l <= stopping
      BY <3>2 DEF QueueGrows
    <3> QED
      BY <2>2, <3>1, <3>2, <3>3 DEF StopInOrder
  <2> QED
    BY <2>1, <2>2
<1> QED
  BY <1>1, <1>2

\* Incoming is in its budget when it does not grow and no writer moves.
LEMMA BudgetKept ==
    ASSUME IInv, UNCHANGED <<writer, left>>, Len(incoming') <= Len(incoming),
           Len(incoming') \in Nat
    PROVE  IncomingIsInBudget'
<1>1. Pending' = Pending
  BY DEF Pending
<1>2. /\ Cardinality(Pending) \in Nat /\ Cardinality(Writer) \in Nat
      /\ Len(incoming) \in Nat /\ \A w \in Writer : left[w] \in Nat
  BY LevelsAssumption, FS_CardinalityType, FS_Subset, LenProperties DEF IInv, TypeOK, Pending
<1>3. CommitsPerLock * Cardinality(Pending) \in Nat /\ Budget \in Nat
  BY <1>2, LevelsAssumption DEF Budget
<1> HIDE DEF Budget
<1>4. Budget' = Budget
  BY DEF Budget
<1> QED
  BY <1>1, <1>2, <1>3, <1>4 DEF IInv, IncomingIsInBudget

\* A thread moves and has committed nothing, and does not yet.
LEMMA PlainMove ==
    ASSUME IInv, NEW l \in Level, NEW s \in ThreadState,
           thread' = [thread EXCEPT ![l] = s], UNCHANGED <<levels, writers, writelock>>,
           \A k \in Level \ {l} : queue[k] # <<>> => queue'[k] # <<>>,
           thread[l] # "notify", s \notin {"commit", "notify"},
           s = "recv" => ~NeedsMerge(l)
    PROVE  StillThere' /\ LockedWhileCommitting' /\ IncomingIsInBudget' /\ WorkIsKnown'
<1>1. \A k \in Level : thread'[k] = IF k = l THEN s ELSE thread[k]
  BY ThreadMoves DEF IInv
<1>2. StillThere'
  BY <1>1, LevelFacts DEF IInv, StillThere, levels
<1>3. LockedWhileCommitting'
  BY <1>1 DEF IInv, LockedWhileCommitting, writers
<1>4. IncomingIsInBudget'
  BY BudgetKept, LenProperties DEF levels, writers, IInv, TypeOK
<1>5. WorkIsKnown'
  <2> SUFFICES ASSUME NEW k \in Level, NeedsMerge(k)', thread'[k] = "recv", queue'[k] = <<>>
               PROVE  k # Incoming /\ thread'[k - 1] = "notify"
    BY DEF WorkIsKnown
  <2>1. NeedsMerge(k)
    BY SameLevels
  <2>2. k # l /\ thread[k] = "recv" /\ queue[k] = <<>>
    BY <1>1, <2>1
  <2>3. k # Incoming /\ thread[k - 1] = "notify"
    BY <2>1, <2>2 DEF IInv, WorkIsKnown
  <2>4. k - 1 \in Level
    BY <2>3, LevelFacts
  <2> QED
    BY <1>1, <2>3, <2>4
<1> QED
  BY <1>2, <1>3, <1>4, <1>5

\* A thread gives its merge locks back.
LEMMA UnlockedKept ==
    ASSUME IInv, NEW l \in Level, NEW s \in {"first", "recv", "sleep", "dead"},
           thread' = [thread EXCEPT ![l] = s], mergelock' = Unlocked(l)
    PROVE  /\ LockedWhileMerging'
           /\ mergelock' \in [Level -> SUBSET Level]
           /\ \A k \in Level : \A i, j \in mergelock'[k] : i = j
<1>1. \A k \in Level : thread'[k] = IF k = l THEN s ELSE thread[k]
  BY ThreadMoves DEF IInv, ThreadState
<1>2. \A k \in Level : mergelock'[k] = mergelock[k] \ {l}
  BY DEF Unlocked
<1>3. mergelock' \in [Level -> SUBSET Level] /\ \A k \in Level : \A i, j \in mergelock'[k] : i = j
  BY <1>2 DEF Unlocked, IInv, TypeOK
<1>4. ASSUME NEW k \in Level
      PROVE  /\ thread'[k] \in {"second", "check", "commit", "notify"} => mergelock'[k] = {k}
             /\ thread'[k] \in {"check", "commit", "notify"} /\ k # Incoming
                    => mergelock'[k + 1] = {k}
  <2>1. CASE k = l
    BY <1>1, <2>1
  <2>2. CASE k # l
    <3>1. thread[k] \in {"check", "commit", "notify"} => k + 1 \in Level
      BY LevelFacts DEF IInv, LastPromotesNothing
    <3> QED
      BY <1>1, <1>2, <2>2, <3>1 DEF IInv, LockedWhileMerging
  <2> QED
    BY <2>1, <2>2
<1> QED
  BY <1>3, <1>4 DEF LockedWhileMerging

-----------------------------------------------------------------------------
(* The steps of the merge threads.                                         *)

\* Nothing to merge, nobody at work.
LEMMA InitInv == Init => IInv
<1> SUFFICES ASSUME Init PROVE IInv
  OBVIOUS
<1> USE DEF Init, NothingRuns
<1>1. TypeOK
  BY LevelFacts, LevelsAssumption DEF TypeOK, ThreadState
<1>2. LastPromotesNothing /\ LockedWhileMerging /\ StillThere /\ LockedWhileCommitting
  BY LevelFacts DEF LastPromotesNothing, LockedWhileMerging, StillThere, LockedWhileCommitting
<1>3. IncomingIsInBudget
  <2>1. Pending = {}
    BY DEF Pending
  <2>2. Cardinality(Pending) = 0 /\ Cardinality(Writer) \in Nat
    BY <2>1, FS_EmptySet, FS_CardinalityType, LevelsAssumption
  <2>3. CommitsPerLock * Cardinality(Writer) \in Nat
    BY <2>2, LevelsAssumption
  <2> QED
    BY <2>2, <2>3, LevelsAssumption DEF IncomingIsInBudget, Budget
<1>4. WorkIsKnown
  <2>1. ASSUME NEW l \in Regular
        PROVE  l \notin tombstones /\ ~(regular[l] >= NeedsMergeSize[l]) /\ ~Desperate(l)
    <3>1. regular[l] = 0 /\ tombstones = {} /\ l # Incoming /\ l # Waiting
      BY LevelFacts
    <3>2. NeedsMergeSize[l] \in Nat \ {0} /\ DesperateFactor * NeedsMergeSize[l] \in Nat
      BY SizesArePositive
    <3> HIDE DEF Init, NothingRuns
    <3>3. ~(0 > DesperateFactor * NeedsMergeSize[l])
      BY <3>2
    <3> QED
      BY <3>1, <3>2, <3>3 DEF Desperate
  <2>2. \A l \in Level : ~NeedsMerge(l)
    BY <2>1 DEF NeedsMerge
  <2> QED
    BY <2>2 DEF WorkIsKnown
<1>5. QueuesHaveRoom /\ StopInOrder
  BY LevelFacts, LevelsAssumption DEF QueuesHaveRoom, StopInOrder
<1> QED
  BY <1>1, <1>2, <1>3, <1>4, <1>5 DEF IInv

\* merge_loop receives a message.
LEMMA ReceiveInv ==
    ASSUME IInv, NEW l \in Level, Receive(l)
    PROVE  IInv'
<1> USE DEF IInv
<1> DEFINE s == IF Head(queue[l]) = "work" THEN "first" ELSE "done"
<1>1. /\ thread[l] = "recv" /\ queue[l] # <<>> /\ s \in {"first", "done"}
      /\ thread' = [thread EXCEPT ![l] = s]
      /\ queue' = [queue EXCEPT ![l] = Tail(queue[l])]
      /\ UNCHANGED <<levels, locks, writers, stopping>>
  BY DEF Receive
<1>2. queue[l] \in Seq({"work", "terminate"})
  BY DEF TypeOK
<1>3. /\ Head(queue[l]) \in {"work", "terminate"}
      /\ Head(queue[l]) = queue[l][1]
      /\ Tail(queue[l]) \in Seq({"work", "terminate"})
      /\ Len(queue[l]) \in Nat \ {0} /\ Len(Tail(queue[l])) = Len(queue[l]) - 1
      /\ \A i \in 1..Len(Tail(queue[l])) : Tail(queue[l])[i] = queue[l][i + 1]
  BY <1>1, <1>2, HeadTailProperties, EmptySeq
<1> HIDE DEF s
<1>4. \A k \in Level : /\ thread'[k] = IF k = l THEN s ELSE thread[k]
                       /\ queue'[k] = IF k = l THEN Tail(queue[l]) ELSE queue[k]
  BY <1>1, ThreadMoves DEF ThreadState, TypeOK
<1>5. TypeOK'
  <2>1. queue' \in [Level -> Seq({"work", "terminate"})]
    BY <1>1, <1>3 DEF TypeOK
  <2>2. \A k \in Level : Len(queue'[k]) <= MaxQueue + 1
    <3>1. \A k \in Level : Len(queue[k]) <= MaxQueue + 1
      BY DEF TypeOK
    <3>2. Len(queue'[l]) = Len(queue[l]) - 1
      BY <1>3, <1>4
    <3>3. Len(queue'[l]) <= MaxQueue + 1
      BY <1>3, <3>1, <3>2, LevelsAssumption
    <3> QED
      BY <1>4, <3>1, <3>3
  <2>3. thread' \in [Level -> ThreadState]
    BY <1>1 DEF TypeOK, ThreadState
  <2> QED
    BY <1>1, <2>1, <2>2, <2>3 DEF TypeOK, levels, locks, writers
<1>6. LastPromotesNothing' /\ LockedWhileMerging'
  BY <1>1, <1>4, LevelFacts DEF LastPromotesNothing, LockedWhileMerging, locks
<1>7. StillThere' /\ LockedWhileCommitting' /\ IncomingIsInBudget' /\ WorkIsKnown'
  <2>1. UNCHANGED <<levels, writers, writelock>>
    BY <1>1 DEF locks
  <2>2. \A k \in Level \ {l} : queue[k] # <<>> => queue'[k] # <<>>
    BY <1>4
  <2> QED
    BY <1>1, <2>1, <2>2, PlainMove DEF ThreadState
<1>8. QueuesHaveRoom'
  BY <1>1, <1>3, <1>4, LevelsAssumption DEF QueuesHaveRoom
<1>9. StopInOrder'
  <2>1. CASE thread[Last] = "dead"
    BY <1>1, <1>4, <2>1, LevelFacts DEF StopInOrder
  <2>2. CASE thread[Last] # "dead"
    <3>1. s = "done" => l <= stopping
      BY <1>3, <2>2 DEF s, StopInOrder
    <3>2. ASSUME NEW k \in Level, NEW i \in 1..Len(queue'[k]), queue'[k][i] = "terminate"
          PROVE  k <= stopping
      <4>1. CASE k # l
        BY <1>4, <2>2, <3>2, <4>1 DEF StopInOrder
      <4>2. CASE k = l
        <5>1. i + 1 \in 1..Len(queue[l]) /\ queue[l][i + 1] = "terminate"
          <6> DEFINE t == Tail(queue[l])
          <6>1. queue'[l] = t /\ Len(t) = Len(queue[l]) - 1 /\ Len(queue[l]) \in Nat \ {0}
                /\ \A j \in 1..Len(t) : t[j] = queue[l][j + 1]
            BY <1>3, <1>4
          <6> HIDE DEF t
          <6> QED
            BY <3>2, <4>2, <6>1
        <5> QED
          BY <2>2, <4>2, <5>1 DEF StopInOrder
      <4> QED
        BY <4>1, <4>2
    <3> QED
      BY <1>1, <1>4, <2>2, <3>1, <3>2 DEF StopInOrder, locks
  <2> QED
    BY <2>1, <2>2
<1> QED
  BY <1>5, <1>6, <1>7, <1>8, <1>9

\* merge takes the lock of the level it merges from.
LEMMA LockFirstInv ==
    ASSUME IInv, NEW l \in Level, LockFirst(l)
    PROVE  IInv'
<1> USE DEF IInv
<1>0. /\ thread[l] = "first" /\ queue' = queue /\ poisoned' = poisoned
      /\ UNCHANGED <<levels, writers, writelock, stopping>>
      /\ \/ /\ mergelock[l] = {} /\ l \notin poisoned
            /\ mergelock' = [mergelock EXCEPT ![l] = {l}]
            /\ thread' = [thread EXCEPT ![l] = IF l = Incoming THEN "check" ELSE "second"]
         \/ l \in poisoned /\ Die(l)
      /\ thread \in [Level -> ThreadState] /\ mergelock \in [Level -> SUBSET Level]
  BY DEF LockFirst, CanLock, TypeOK
<1>1. QueueGrows
  BY <1>0, SameQueueGrows
<1>2. PICK s \in {"check", "second", "dead"} : thread' = [thread EXCEPT ![l] = s]
  BY <1>0 DEF Die
<1>3. \A k \in Level : thread'[k] = IF k = l THEN s ELSE thread[k]
  BY <1>2, ThreadMoves DEF ThreadState
<1>4. /\ mergelock' \in [Level -> SUBSET Level]
      /\ \A k \in Level : \A i, j \in mergelock'[k] : i = j
      /\ LockedWhileMerging'
  <2>1. CASE l \in poisoned /\ Die(l)
    BY <2>1, UnlockedKept DEF Die
  <2>2. CASE ~(l \in poisoned /\ Die(l))
    <3>0. mergelock[l] = {} /\ mergelock' = [mergelock EXCEPT ![l] = {l}]
      BY <1>0, <2>2
    <3>1. mergelock' \in [Level -> SUBSET Level]
      BY <1>0, <3>0
    <3>2. \A k \in Level : mergelock'[k] = IF k = l THEN {l} ELSE mergelock[k]
      BY <1>0, <3>0
    <3>3. thread'[l] = IF l = Incoming THEN "check" ELSE "second"
      BY <1>0, <2>2
    <3>4. \A k \in Level : \A i, j \in mergelock'[k] : i = j
      BY <3>2 DEF TypeOK
    <3>5. ASSUME NEW k \in Level
          PROVE  /\ thread'[k] \in {"second", "check", "commit", "notify"} => mergelock'[k] = {k}
                 /\ thread'[k] \in {"check", "commit", "notify"} /\ k # Incoming
                        => mergelock'[k + 1] = {k}
      <4>1. CASE k = l
        BY <1>3, <3>2, <3>3, <4>1
      <4>2. CASE k # l
        <5>1. thread[k] \in {"check", "commit", "notify"} => k + 1 \in Level
          BY LevelFacts DEF LastPromotesNothing
        <5>2. mergelock[l] # {k}
          BY <3>0
        <5> QED
          BY <1>3, <3>2, <4>2, <5>1, <5>2 DEF LockedWhileMerging
      <4> QED
        BY <4>1, <4>2
    <3> QED
      BY <3>1, <3>4, <3>5 DEF LockedWhileMerging
  <2> QED
    BY <2>1, <2>2
<1>5. TypeOK'
  BY <1>0, <1>2, <1>4 DEF TypeOK, ThreadState, levels, writers
<1>6. LastPromotesNothing'
  BY <1>0, <1>3, LevelFacts DEF LastPromotesNothing, Die
<1>7. StillThere' /\ LockedWhileCommitting' /\ IncomingIsInBudget' /\ WorkIsKnown'
  BY <1>0, <1>2, PlainMove DEF ThreadState
<1>8. QueuesHaveRoom' /\ StopInOrder'
  <2>1. l \in poisoned => thread'[Last] = "dead"
    BY <1>0, <1>3, LevelFacts DEF StopInOrder
  <2>2. l \notin poisoned => s # "dead"
    BY <1>0, <1>3
  <2> QED
    BY <1>0, <1>1, <1>3, <2>1, <2>2, StopKept
<1> QED
  BY <1>4, <1>5, <1>6, <1>7, <1>8

\* merge takes the lock of the level it merges into.
LEMMA LockSecondInv ==
    ASSUME IInv, NEW l \in Level, LockSecond(l)
    PROVE  IInv'
<1> USE DEF IInv
<1>0. /\ thread[l] = "second" /\ queue' = queue
      /\ UNCHANGED <<levels, writers, writelock, stopping>>
      /\ \/ /\ l = Last /\ thread' = [thread EXCEPT ![l] = "dead"]
            /\ poisoned' = poisoned \cup {l} /\ mergelock' = Unlocked(l)
         \/ /\ l # Last /\ mergelock[l + 1] = {}
            /\ mergelock' = [mergelock EXCEPT ![l + 1] = {l}]
            /\ thread' = [thread EXCEPT ![l] = "check"]
            /\ poisoned' = poisoned
         \/ l # Last /\ l + 1 \in poisoned /\ Die(l) /\ poisoned' = poisoned
      /\ thread \in [Level -> ThreadState] /\ mergelock \in [Level -> SUBSET Level]
  BY DEF LockSecond, CanLock, TypeOK
<1>1. QueueGrows
  BY <1>0, SameQueueGrows
<1>2. PICK s \in {"check", "dead"} : thread' = [thread EXCEPT ![l] = s]
  BY <1>0 DEF Die
<1>3. \A k \in Level : thread'[k] = IF k = l THEN s ELSE thread[k]
  BY <1>2, ThreadMoves DEF ThreadState
<1>4. /\ mergelock' \in [Level -> SUBSET Level]
      /\ \A k \in Level : \A i, j \in mergelock'[k] : i = j
      /\ LockedWhileMerging'
  <2>1. CASE s = "dead"
    <3>1. mergelock' = Unlocked(l)
      BY <1>0, <1>3, <2>1 DEF Die
    <3> QED
      BY <1>2, <2>1, <3>1, UnlockedKept
  <2>2. CASE s = "check"
    <3>1. l # Last /\ mergelock[l + 1] = {} /\ mergelock' = [mergelock EXCEPT ![l + 1] = {l}]
      BY <1>0, <1>3, <2>2 DEF Die
    <3>2. l + 1 \in Level /\ l + 1 # l /\ l \in Int
      BY <3>1, LevelFacts
    <3>3. mergelock' \in [Level -> SUBSET Level]
      BY <3>1, <3>2 DEF TypeOK
    <3>4. \A k \in Level : mergelock'[k] = IF k = l + 1 THEN {l} ELSE mergelock[k]
      BY <3>1, <3>2 DEF TypeOK
    <3>5. \A k \in Level : \A i, j \in mergelock'[k] : i = j
      <4>1. \A k \in Level : \A i, j \in mergelock[k] : i = j
        BY DEF TypeOK
      <4> QED
        BY <3>4, <4>1
    <3>6. ASSUME NEW k \in Level
          PROVE  /\ thread'[k] \in {"second", "check", "commit", "notify"} => mergelock'[k] = {k}
                 /\ thread'[k] \in {"check", "commit", "notify"} /\ k # Incoming
                        => mergelock'[k + 1] = {k}
      <4>1. CASE k = l
        BY <1>0, <3>2, <3>4, <4>1 DEF LockedWhileMerging
      <4>2. CASE k # l
        <5>1. k \in Int /\ k + 1 # l + 1
          BY <3>2, <4>2, LevelFacts
        <5>2. thread[k] \in {"check", "commit", "notify"} => k + 1 \in Level
          BY LevelFacts DEF LastPromotesNothing
        <5>3. mergelock[l + 1] # {k}
          BY <3>1
        <5> QED
          BY <1>3, <3>4, <4>2, <5>1, <5>2, <5>3 DEF LockedWhileMerging
      <4> QED
        BY <4>1, <4>2
    <3> QED
      BY <3>3, <3>5, <3>6 DEF LockedWhileMerging
  <2> QED
    BY <2>1, <2>2
<1>5. TypeOK'
  BY <1>0, <1>2, <1>4 DEF TypeOK, ThreadState, levels, writers
<1>6. LastPromotesNothing'
  BY <1>0, <1>3, LevelFacts DEF LastPromotesNothing, Die
<1>7. StillThere' /\ LockedWhileCommitting' /\ IncomingIsInBudget' /\ WorkIsKnown'
  BY <1>0, <1>2, PlainMove DEF ThreadState
<1>8. QueuesHaveRoom' /\ StopInOrder'
  <2>1. s = "dead" => thread'[Last] = "dead"
    BY <1>0, <1>3, LevelFacts DEF StopInOrder, Die
  <2>2. s # "dead" => poisoned' = poisoned
    BY <1>0, <1>3
  <2> QED
    BY <1>0, <1>1, <1>3, <2>1, <2>2, StopKept
<1> QED
  BY <1>4, <1>5, <1>6, <1>7, <1>8

\* merge finds that nothing needs it.
LEMMA NothingToDoInv ==
    ASSUME IInv, NEW l \in Level, NothingToDo(l)
    PROVE  IInv'
<1> USE DEF IInv
<1>0. /\ thread[l] = "check" /\ ~NeedsMerge(l) /\ queue' = queue
      /\ thread' = [thread EXCEPT ![l] = "recv"] /\ mergelock' = Unlocked(l)
      /\ UNCHANGED <<levels, writers, poisoned, writelock, stopping>>
  BY DEF NothingToDo, Release
<1>1. \A k \in Level : thread'[k] = IF k = l THEN "recv" ELSE thread[k]
  BY <1>0, ThreadMoves DEF ThreadState
<1>2. /\ LockedWhileMerging'
      /\ mergelock' \in [Level -> SUBSET Level]
      /\ \A k \in Level : \A i, j \in mergelock'[k] : i = j
  BY <1>0, UnlockedKept
<1>3. TypeOK'
  BY <1>0, <1>2 DEF TypeOK, ThreadState, levels, writers
<1>4. LastPromotesNothing'
  BY <1>1, LevelFacts DEF LastPromotesNothing
<1>5. StillThere' /\ LockedWhileCommitting' /\ IncomingIsInBudget' /\ WorkIsKnown'
  BY <1>0, PlainMove DEF ThreadState
<1>6. QueuesHaveRoom' /\ StopInOrder'
  BY <1>0, <1>1, SameQueueGrows, StopKept
<1> QED
  BY <1>2, <1>3, <1>4, <1>5, <1>6

\* merge finds the next level desperate, wakes it and sleeps.
LEMMA NextIsDesperateInv ==
    ASSUME IInv, NEW l \in Level, NextIsDesperate(l)
    PROVE  IInv'
<1> USE DEF IInv
<1>0. /\ thread[l] = "check" /\ mergelock' = Unlocked(l)
      /\ thread' = [thread EXCEPT ![l] = IF Listening(l + 1) THEN "sleep" ELSE "dead"]
      /\ queue' = IF Listening(l + 1) THEN Sent(queue, l + 1) ELSE queue
      /\ UNCHANGED <<levels, writers, poisoned, writelock, stopping>>
  BY DEF NextIsDesperate, Release, Die
<1> DEFINE s == IF Listening(l + 1) THEN "sleep" ELSE "dead"
<1>1. l # Last /\ l + 1 \in Level
  BY <1>0, LevelFacts DEF LastPromotesNothing
<1>2. QueueGrows
  BY <1>0, <1>1, SentGrows, SameQueueGrows
<1>3. s \in {"sleep", "dead"} /\ s \in ThreadState
  BY DEF ThreadState
<1>4. s = "dead" => thread[Last] = "dead"
  BY <1>0, <1>1, NextListens
<1>5. thread' = [thread EXCEPT ![l] = s]
  BY <1>0
<1> HIDE DEF s
<1>6. \A k \in Level : thread'[k] = IF k = l THEN s ELSE thread[k]
  BY <1>3, <1>5, ThreadMoves
<1>7. /\ LockedWhileMerging'
      /\ mergelock' \in [Level -> SUBSET Level]
      /\ \A k \in Level : \A i, j \in mergelock'[k] : i = j
  BY <1>0, <1>3, <1>5, UnlockedKept
<1>8. TypeOK'
  <2>1. queue' \in [Level -> Seq({"work", "terminate"})]
        /\ \A k \in Level : Len(queue'[k]) <= MaxQueue + 1
    BY <1>2 DEF QueueGrows
  <2>2. thread' \in [Level -> ThreadState]
    BY <1>3, <1>5, ThreadMoves
  <2> QED
    BY <1>0, <1>7, <2>1, <2>2 DEF TypeOK, levels, writers
<1>9. LastPromotesNothing'
  BY <1>1, <1>6, LevelFacts DEF LastPromotesNothing
<1>10. StillThere' /\ LockedWhileCommitting' /\ IncomingIsInBudget' /\ WorkIsKnown'
  BY <1>0, <1>2, <1>3, <1>5, PlainMove DEF QueueGrows
<1>11. QueuesHaveRoom' /\ StopInOrder'
  BY <1>0, <1>1, <1>2, <1>3, <1>4, <1>6, LevelFacts, StopKept
<1> QED
  BY <1>7, <1>8, <1>9, <1>10, <1>11

\* merge looks again after the sleep.
LEMMA WakeUpInv ==
    ASSUME IInv, NEW l \in Level, WakeUp(l)
    PROVE  IInv'
<1> USE DEF IInv
<1>0. /\ thread[l] = "sleep" /\ queue' = queue
      /\ thread' = [thread EXCEPT ![l] = "first"]
      /\ UNCHANGED <<levels, writers, locks, stopping>>
      /\ UNCHANGED <<poisoned, writelock, mergelock>>
  BY DEF WakeUp, locks
<1>1. \A k \in Level : thread'[k] = IF k = l THEN "first" ELSE thread[k]
  BY <1>0, ThreadMoves DEF ThreadState
<1>2. TypeOK'
  BY <1>0 DEF TypeOK, ThreadState, levels, writers
<1>3. LastPromotesNothing' /\ LockedWhileMerging'
  BY <1>0, <1>1, LevelFacts DEF LastPromotesNothing, LockedWhileMerging
<1>4. StillThere' /\ LockedWhileCommitting' /\ IncomingIsInBudget' /\ WorkIsKnown'
  BY <1>0, PlainMove DEF ThreadState
<1>5. QueuesHaveRoom' /\ StopInOrder'
  BY <1>0, <1>1, SameQueueGrows, StopKept
<1> QED
  BY <1>2, <1>3, <1>4, <1>5

\* A level that needs a merge holds something, and is not the last.
LEMMA NeedsMergeHolds ==
    ASSUME TypeOK, NEW l \in Level, NeedsMerge(l)
    PROVE  /\ l = Incoming => incoming # <<>>
           /\ l = Waiting => waiting # <<>>
           /\ l \in Regular => l # Last /\ regular[l] > 0
<1>1. l = Incoming => incoming # <<>>
  BY LevelFacts DEF NeedsMerge
<1>2. l = Waiting => waiting # <<>>
  BY LevelFacts DEF NeedsMerge
<1>3. ASSUME l \in Regular
      PROVE  l # Last /\ regular[l] > 0
  <2>1. l # Last /\ (l \in tombstones \/ regular[l] >= NeedsMergeSize[l] \/ Desperate(l))
    BY <1>3, LevelFacts DEF NeedsMerge
  <2>2. Desperate(l) => regular[l] > DesperateFactor * NeedsMergeSize[l]
    BY <1>3, LevelFacts DEF Desperate
  <2>3. l \in tombstones => regular[l] > 0
    BY DEF TypeOK
  <2>4. regular[l] \in Nat
    BY <1>3 DEF TypeOK
  <2>5. NeedsMergeSize[l] \in Nat \ {0} /\ DesperateFactor * NeedsMergeSize[l] \in Nat
    BY <1>3, SizesArePositive
  <2> QED
    BY <2>1, <2>2, <2>3, <2>4, <2>5
<1> QED
  BY <1>1, <1>2, <1>3

\* prepare_merge.
LEMMA PrepareInv ==
    ASSUME IInv, NEW l \in Level, Prepare(l)
    PROVE  IInv'
<1> USE DEF IInv
<1>0. /\ thread[l] = "check" /\ NeedsMerge(l) /\ queue' = queue
      /\ thread' = [thread EXCEPT ![l] = "commit"]
      /\ taken' = IF l = Incoming THEN RunLength ELSE taken
      /\ UNCHANGED <<incoming, waiting, regular, tombstones, writer, left, commits,
                     poisoned, writelock, mergelock, stopping>>
  BY DEF Prepare, locks, writers
<1>1. \A k \in Level : thread'[k] = IF k = l THEN "commit" ELSE thread[k]
  BY <1>0, ThreadMoves DEF ThreadState
<1>2. taken' \in 0..Len(incoming)
  <2>1. l = Incoming => RunLength \in 1..Len(incoming)
    BY <1>0, NeedsMergeHolds, RunLengthType DEF TypeOK
  <2> QED
    BY <1>0, <2>1 DEF TypeOK
<1>3. TypeOK'
  BY <1>0, <1>2 DEF TypeOK, ThreadState
<1>4. l # Last
  BY <1>0, LevelFacts DEF LastPromotesNothing
<1>5. LastPromotesNothing' /\ LockedWhileMerging'
  BY <1>0, <1>1, <1>4, LevelFacts DEF LastPromotesNothing, LockedWhileMerging
<1>6. StillThere'
  BY <1>0, <1>1, NeedsMergeHolds, LevelFacts DEF StillThere
<1>7. LockedWhileCommitting'
  BY <1>0, <1>1 DEF LockedWhileCommitting
<1>8. IncomingIsInBudget'
  BY <1>0, BudgetKept, LenProperties DEF TypeOK
<1>9. WorkIsKnown'
  <2> SUFFICES ASSUME NEW k \in Level, NeedsMerge(k)', thread'[k] = "recv", queue'[k] = <<>>
               PROVE  k # Incoming /\ thread'[k - 1] = "notify"
    BY DEF WorkIsKnown
  <2>1. NeedsMerge(k)
    BY <1>0 DEF NeedsMerge, Desperate
  <2>2. k # l /\ thread[k] = "recv" /\ queue[k] = <<>>
    BY <1>0, <1>1
  <2>3. k # Incoming /\ thread[k - 1] = "notify"
    BY <2>1, <2>2 DEF WorkIsKnown
  <2>4. k - 1 \in Level
    BY <2>3, LevelFacts
  <2> QED
    BY <1>0, <1>1, <2>3, <2>4
<1>10. QueuesHaveRoom' /\ StopInOrder'
  BY <1>0, <1>1, SameQueueGrows, StopKept
<1> QED
  BY <1>3, <1>5, <1>6, <1>7, <1>8, <1>9, <1>10

\* merge notifies its own thread or the next.
LEMMA NotifyInv ==
    ASSUME IInv, NEW l \in Level, Notify(l)
    PROVE  IInv'
<1> USE DEF IInv
<1> DEFINE s == IF Listening(l + 1) THEN "first" ELSE "dead"
<1>0. /\ thread[l] = "notify" /\ mergelock' = Unlocked(l) /\ writelock' = {}
      /\ thread' = [thread EXCEPT ![l] = s]
      /\ queue' = IF Listening(l + 1) THEN Sent(queue, l + 1) ELSE queue
      /\ UNCHANGED <<levels, writers, poisoned, stopping>>
  BY DEF Notify, NotifyNext, Release, Die
<1>1. l # Last /\ l + 1 \in Level /\ l \in Int
  BY <1>0, LevelFacts DEF LastPromotesNothing
<1>2. QueueGrows /\ (Listening(l + 1) => queue'[l + 1] # <<>>)
  BY <1>0, <1>1, SentGrows, SameQueueGrows
<1>3. s \in {"first", "dead"} /\ s \in ThreadState
  BY DEF ThreadState
<1>4. s = "dead" => thread[Last] = "dead"
  BY <1>0, <1>1, NextListens
<1> HIDE DEF s
<1>5. \A k \in Level : thread'[k] = IF k = l THEN s ELSE thread[k]
  BY <1>0, <1>3, ThreadMoves
<1>6. /\ LockedWhileMerging'
      /\ mergelock' \in [Level -> SUBSET Level]
      /\ \A k \in Level : \A i, j \in mergelock'[k] : i = j
  BY <1>0, <1>3, UnlockedKept
<1>7. TypeOK'
  BY <1>0, <1>2, <1>3, <1>6 DEF TypeOK, levels, writers, QueueGrows
<1>8. LastPromotesNothing'
  BY <1>1, <1>5, LevelFacts DEF LastPromotesNothing
<1>9. StillThere'
  BY <1>0, <1>3, <1>5, LevelFacts DEF StillThere, levels
<1>10. LockedWhileCommitting'
  <2>1. \A k \in Level : k # l => thread[k] # "notify"
    BY <1>0 DEF LockedWhileCommitting
  <2>2. \A w \in Writer : writer[w] # "writing"
    BY <1>0, WritersAssumption DEF LockedWhileCommitting
  <2> QED
    BY <1>0, <1>3, <1>5, <2>1, <2>2 DEF LockedWhileCommitting, writers
<1>11. IncomingIsInBudget'
  BY <1>0, BudgetKept, LenProperties DEF levels, writers, TypeOK
<1>12. WorkIsKnown'
  <2> SUFFICES ASSUME NEW k \in Level, NeedsMerge(k)', thread'[k] = "recv", queue'[k] = <<>>
               PROVE  k # Incoming /\ thread'[k - 1] = "notify"
    BY DEF WorkIsKnown
  <2>1. NeedsMerge(k)
    BY <1>0, SameLevels
  <2>2. k # l /\ thread[k] = "recv" /\ queue[k] = <<>>
    BY <1>2, <1>3, <1>5 DEF QueueGrows
  <2>3. k # Incoming /\ thread[k - 1] = "notify" /\ k - 1 \in Level
    BY <2>1, <2>2, LevelFacts DEF WorkIsKnown
  <2>4. k # l + 1
    BY <1>2, <2>2 DEF Listening
  <2>5. k - 1 # l
    BY <1>1, <2>4, LevelFacts
  <2> QED
    BY <1>5, <2>3, <2>5
<1>13. QueuesHaveRoom' /\ StopInOrder'
  BY <1>0, <1>1, <1>2, <1>3, <1>4, <1>5, LevelFacts, StopKept
<1> QED
  BY <1>6, <1>7, <1>8, <1>9, <1>10, <1>11, <1>12, <1>13

\* Taking the oldest away.
LEMMA WithoutOldestType ==
    ASSUME NEW q \in Seq(SegmentKind), NEW k \in 0..Len(q)
    PROVE  WithoutOldest(q, k) \in Seq(SegmentKind) /\ Len(WithoutOldest(q, k)) = Len(q) - k
<1>1. Len(q) \in Nat /\ \A i \in 1..Len(q) - k : q[i] \in SegmentKind
  BY ElementOfSeq, LenProperties
<1> QED
  BY <1>1, SubSeqProperties DEF WithoutOldest

\* What a merge from incoming puts into waiting.
LEMMA PromotedType ==
    ASSUME NEW q \in Seq(SegmentKind), NEW new \in Promoted(q)
    PROVE  new \in Seq(SegmentKind)
BY DEF Promoted, SegmentKind, LeafSegment, ParentSegment

\* A commit changes the two levels it is about and nothing else.
LEMMA CommitLevels ==
    ASSUME IInv, NEW l \in Level, Commit(l)
    PROVE  /\ incoming' \in Seq(SegmentKind) /\ Len(incoming') <= Len(incoming)
           /\ waiting' \in Seq(SegmentKind)
           /\ regular' \in [Regular -> Nat]
           /\ tombstones' \subseteq {k \in Regular : regular'[k] > 0}
           /\ taken' \in 0..Len(incoming')
           /\ l # Incoming => incoming' = incoming
           /\ l \notin {Incoming, Waiting} => waiting' = waiting
           /\ thread[Waiting] = "commit" /\ l # Waiting => waiting' # <<>>
           /\ \A k \in Regular : k # l /\ k # l + 1 =>
                 /\ regular'[k] = regular[k] /\ (k \in tombstones' <=> k \in tombstones)
           /\ l = Incoming => regular' = regular /\ tombstones' = tombstones
<1> USE DEF IInv
<1>0. /\ incoming \in Seq(SegmentKind) /\ waiting \in Seq(SegmentKind)
      /\ regular \in [Regular -> Nat] /\ tombstones \subseteq {k \in Regular : regular[k] > 0}
      /\ taken \in 0..Len(incoming) /\ Len(incoming) \in Nat /\ Len(waiting) \in Nat
      /\ thread[l] = "commit" /\ l # Last
  BY LevelFacts, LenProperties DEF Commit, TypeOK, LastPromotesNothing
<1>1. CASE CommitFromIncoming(l)
  <2> DEFINE run == SubSeq(incoming, Len(incoming) - taken + 1, Len(incoming))
  <2>0. /\ l = Incoming /\ incoming' = WithoutOldest(incoming, taken) /\ taken' = 0
        /\ regular' = regular /\ tombstones' = tombstones
        /\ \E new \in Promoted(run) : waiting' = new \o waiting
    BY <1>1 DEF CommitFromIncoming
  <2>1. run \in Seq(SegmentKind)
    <3>1. \A i \in Len(incoming) - taken + 1..Len(incoming) : incoming[i] \in SegmentKind
      BY <1>0, ElementOfSeq
    <3> QED
      BY <1>0, <3>1, SubSeqProperties
  <2> HIDE DEF run
  <2>2. PICK new \in Promoted(run) : waiting' = new \o waiting
    BY <2>0
  <2>3. new \in Seq(SegmentKind)
    BY <2>1, PromotedType
  <2>4. waiting' \in Seq(SegmentKind) /\ (waiting # <<>> => waiting' # <<>>)
    BY <1>0, <2>2, <2>3, ConcatProperties, ConcatEqualIffEmpty
  <2>5. incoming' \in Seq(SegmentKind) /\ Len(incoming') = Len(incoming) - taken
    BY <1>0, <2>0, WithoutOldestType
  <2>6. Len(incoming') \in Nat /\ Len(incoming') <= Len(incoming)
    BY <1>0, <2>5
  <2> QED
    BY <1>0, <2>0, <2>4, <2>5, <2>6, LevelFacts DEF StillThere
<1>2. CASE CommitFromWaiting(l)
  <2>0. /\ l = Waiting /\ waiting # <<>> /\ incoming' = incoming /\ taken' = taken
    BY <1>0, <1>2 DEF CommitFromWaiting, StillThere
  <2>1. PICK survives \in 0..Oldest(waiting) - 1 :
           waiting' = WithoutOldest(waiting, 1)
                      \o (IF survives = 0 THEN <<>> ELSE <<survives>>)
    BY <1>2 DEF CommitFromWaiting
  <2>2. waiting' \in Seq(SegmentKind)
    <3>1. Len(waiting) \in Nat \ {0}
      BY <1>0, <2>0, EmptySeq
    <3>2. Oldest(waiting) \in {1, 2}
      BY <1>0, <3>1, ElementOfSeq DEF Oldest, SegmentKind, LeafSegment, ParentSegment
    <3>3. survives = 0 \/ survives \in SegmentKind
      BY <3>2 DEF SegmentKind, LeafSegment
    <3> DEFINE rest == IF survives = 0 THEN <<>> ELSE <<survives>>
    <3>4. rest \in Seq(SegmentKind)
      BY <3>3
    <3>5. WithoutOldest(waiting, 1) \in Seq(SegmentKind)
      BY <1>0, <3>1, WithoutOldestType
    <3>6. waiting' = WithoutOldest(waiting, 1) \o rest
      BY <2>1
    <3> HIDE DEF rest
    <3> QED
      BY <3>4, <3>5, <3>6, ConcatProperties
  <2>3. PICK n \in 0..regular[0] + 1, t \in SUBSET {0} :
           regular' = [regular EXCEPT ![0] = n] /\ tombstones' = (tombstones \ {0}) \cup t
    BY <1>2 DEF CommitFromWaiting
  <2>4. 0 \in tombstones' => regular'[0] > 0
    BY <1>2 DEF CommitFromWaiting, MergedInto
  <2>5. 0 \in Regular /\ 0 = Waiting + 1
    BY LevelFacts
  <2>6. \A k \in Regular : k # 0 =>
           /\ regular'[k] = regular[k] /\ (k \in tombstones' <=> k \in tombstones)
    BY <1>0, <2>3, <2>5
  <2>7. regular' \in [Regular -> Nat]
    BY <1>0, <2>3, <2>5
  <2>8. tombstones' \subseteq {k \in Regular : regular'[k] > 0}
    BY <1>0, <2>3, <2>4, <2>5, <2>6
  <2> QED
    BY <1>0, <2>0, <2>2, <2>5, <2>6, <2>7, <2>8, LevelFacts
<1>3. CASE CommitFromRegular(l)
  <2>0. l \in Regular /\ incoming' = incoming /\ waiting' = waiting /\ taken' = taken
    BY <1>3 DEF CommitFromRegular
  <2>1. PICK n \in 0..regular[l + 1] + 1, t \in SUBSET {l, l + 1} :
           /\ regular' = [regular EXCEPT ![l] = @ - 1, ![l + 1] = n]
           /\ tombstones' = (tombstones \ {l, l + 1}) \cup t
    BY <1>3 DEF CommitFromRegular
  <2>2. (l \in tombstones' => regular'[l] > 0) /\ (l + 1 \in tombstones' => regular'[l + 1] > 0)
    BY <1>3 DEF CommitFromRegular, MergedInto
  <2>3. l \in Int /\ l + 1 \in Regular /\ l # l + 1
    BY <1>0, <2>0, LevelFacts
  <2>4. regular[l] \in Nat \ {0} /\ regular[l + 1] \in Nat
    BY <1>0, <2>0, <2>3 DEF StillThere
  <2>5. regular' \in [Regular -> Nat]
    BY <1>0, <2>0, <2>1, <2>3, <2>4
  <2>6. \A k \in Regular : k # l /\ k # l + 1 =>
           /\ regular'[k] = regular[k] /\ (k \in tombstones' <=> k \in tombstones)
    BY <1>0, <2>0, <2>1, <2>3
  <2>7. tombstones' \subseteq {k \in Regular : regular'[k] > 0}
    BY <1>0, <2>0, <2>1, <2>2, <2>3, <2>6
  <2>8. l # Incoming /\ l # Waiting
    BY <2>0, LevelFacts
  <2>9. thread[Waiting] = "commit" => waiting' # <<>>
    BY <2>0 DEF StillThere
  <2> QED
    BY <1>0, <2>0, <2>5, <2>6, <2>7, <2>8, <2>9
<1> QED
  BY <1>1, <1>2, <1>3 DEF Commit

\* commit_merge.
LEMMA CommitInv ==
    ASSUME IInv, NEW l \in Level, Commit(l)
    PROVE  IInv'
<1> USE DEF IInv
<1>0. /\ thread[l] = "commit" /\ queue' = queue /\ writelock = {} /\ writelock' = {l}
      /\ thread' = [thread EXCEPT ![l] = "notify"]
      /\ UNCHANGED <<writers, writer, left, commits, mergelock, poisoned, stopping>>
  BY DEF Commit, writers
<1>1. \A k \in Level : thread'[k] = IF k = l THEN "notify" ELSE thread[k]
  BY <1>0, ThreadMoves DEF ThreadState
<1>2. l # Last /\ l \in Int /\ l + 1 \in Level
  BY <1>0, LevelFacts DEF LastPromotesNothing
<1>3. TypeOK'
  <2>1. thread' \in [Level -> ThreadState] /\ writelock' \subseteq Level \cup Writer
    BY <1>0 DEF TypeOK, ThreadState
  <2> QED
    BY <1>0, <2>1, CommitLevels DEF TypeOK
<1>4. LastPromotesNothing' /\ LockedWhileMerging'
  BY <1>0, <1>1, <1>2, LevelFacts DEF LastPromotesNothing, LockedWhileMerging
<1>5. StillThere'
  <2>1. thread'[Waiting] = "commit" => waiting' # <<>>
    BY <1>1, CommitLevels, LevelFacts
  <2>2. ASSUME NEW k \in Regular, thread'[k] = "commit"
        PROVE  regular'[k] > 0
    <3>1. k # l /\ thread[k] = "commit" /\ k \in Level
      BY <1>1, <2>2, LevelFacts
    <3>2. CASE l = Incoming
      BY <3>1, <3>2, CommitLevels DEF StillThere
    <3>3. CASE l # Incoming
      <4>1. mergelock[l + 1] = {l} /\ mergelock[k] = {k}
        BY <1>0, <3>1, <3>3 DEF LockedWhileMerging
      <4>2. k # l + 1
        BY <3>1, <4>1
      <4> QED
        BY <3>1, <4>2, CommitLevels DEF StillThere
    <3> QED
      BY <3>2, <3>3
  <2> QED
    BY <2>1, <2>2 DEF StillThere
<1>6. LockedWhileCommitting'
  BY <1>0, <1>1 DEF LockedWhileCommitting
<1>7. IncomingIsInBudget'
  BY <1>0, BudgetKept, CommitLevels, LenProperties
<1>8. WorkIsKnown'
  <2> SUFFICES ASSUME NEW k \in Level, NeedsMerge(k)', thread'[k] = "recv", queue'[k] = <<>>
               PROVE  k # Incoming /\ thread'[k - 1] = "notify"
    BY DEF WorkIsKnown
  <2>1. CASE k = l + 1
    BY <1>1, <1>2, <2>1, LevelFacts
  <2>2. CASE k # l + 1
    <3>1. k # l /\ thread[k] = "recv" /\ queue[k] = <<>>
      BY <1>0, <1>1
    <3>2. k = Incoming => incoming' = incoming
      BY <3>1, CommitLevels
    <3>3. k = Waiting => waiting' = waiting
      <4>1. k = Waiting => l \notin {Incoming, Waiting}
        BY <2>2, <3>1, LevelFacts
      <4> QED
        BY <4>1, CommitLevels
    <3>4. k \in Regular => regular'[k] = regular[k] /\ (k \in tombstones' <=> k \in tombstones)
      BY <2>2, <3>1, CommitLevels
    <3>5. NeedsMerge(k)
      BY <3>2, <3>3, <3>4, LevelFacts DEF NeedsMerge, Desperate
    <3>6. k # Incoming /\ thread[k - 1] = "notify" /\ k - 1 \in Level
      BY <3>1, <3>5, LevelFacts DEF WorkIsKnown
    <3> QED
      BY <1>0, <1>1, <3>6
  <2> QED
    BY <2>1, <2>2
<1>9. QueuesHaveRoom' /\ StopInOrder'
  BY <1>0, <1>1, SameQueueGrows, StopKept
<1> QED
  BY <1>3, <1>4, <1>5, <1>6, <1>7, <1>8, <1>9

-----------------------------------------------------------------------------
(* The steps of the writers and of stop.                                   *)

\* Steps of writers that only add to channels leave the threads' part alone.
LEMMA ThreadsKept ==
    ASSUME IInv, QueueGrows,
           UNCHANGED <<thread, mergelock, waiting, regular, tombstones, poisoned, stopping>>
    PROVE  /\ LastPromotesNothing' /\ LockedWhileMerging' /\ StillThere'
           /\ QueuesHaveRoom' /\ StopInOrder'
           /\ incoming' = incoming => WorkIsKnown'
<1> USE DEF IInv
<1>1. LastPromotesNothing' /\ LockedWhileMerging' /\ StillThere'
  BY DEF LastPromotesNothing, LockedWhileMerging, StillThere
<1>2. QueuesHaveRoom' /\ StopInOrder'
  BY StopKept
<1>3. ASSUME incoming' = incoming
      PROVE  WorkIsKnown'
  <2> SUFFICES ASSUME NEW k \in Level, NeedsMerge(k)'
               PROVE  \/ thread[k] # "recv" \/ queue'[k] # <<>>
                      \/ k # Incoming /\ thread[k - 1] = "notify"
    BY DEF WorkIsKnown
  <2>1. NeedsMerge(k)
    BY <1>3 DEF NeedsMerge, Desperate
  <2> QED
    BY <2>1 DEF WorkIsKnown, QueueGrows
<1> QED
  BY <1>1, <1>2, <1>3

\* Multiplication by a number.
LEMMA Times ==
    ASSUME NEW c \in Nat, NEW a \in Nat, NEW b \in Nat
    PROVE  c * a \in Nat /\ (a <= b => c * a <= c * b) /\ c * (a + 1) = c * a + c
OBVIOUS

\* Writers that hold or were promised the lock can be counted.
LEMMA PendingFacts ==
    ASSUME TypeOK
    PROVE  /\ IsFiniteSet(Pending) /\ Cardinality(Pending) \in Nat /\ Cardinality(Writer) \in Nat
           /\ Len(incoming) \in Nat /\ Budget \in Nat
           /\ CommitsPerLock * Cardinality(Pending) \in Nat
           /\ CommitsPerLock \in Nat \ {0} /\ DesperateIncoming \in Nat
           /\ \A w \in Writer : left[w] \in Nat /\ left[w] <= CommitsPerLock
<1>1. /\ IsFiniteSet(Pending) /\ Cardinality(Pending) \in Nat /\ Cardinality(Writer) \in Nat
  BY LevelsAssumption, FS_CardinalityType, FS_Subset DEF Pending
<1>2. CommitsPerLock \in Nat \ {0} /\ DesperateIncoming \in Nat
  BY LevelsAssumption
<1>3. Len(incoming) \in Nat /\ \A w \in Writer : left[w] \in Nat /\ left[w] <= CommitsPerLock
  BY <1>2, LenProperties DEF TypeOK
<1>4. CommitsPerLock * Cardinality(Pending) \in Nat /\ CommitsPerLock * Cardinality(Writer) \in Nat
  BY <1>1, <1>2, Times
<1>5. Budget \in Nat
  BY <1>2, <1>4 DEF Budget
<1> QED
  BY <1>1, <1>2, <1>3, <1>4, <1>5

\* A writer moves that neither had passed get_write_lock nor passes it now.
LEMMA WriterMoves ==
    ASSUME IInv, NEW w \in Writer, NEW s \in {"asking", "asleep", "idle"},
           writer[w] \in {"asking", "asleep", "idle"},
           writer' = [writer EXCEPT ![w] = s], QueueGrows,
           UNCHANGED <<levels, locks, thread, left, commits, stopping>>
    PROVE  IInv'
<1> USE DEF IInv
<1>1. \A v \in Writer : writer'[v] = IF v = w THEN s ELSE writer[v]
  BY DEF TypeOK
<1>2. UNCHANGED <<thread, mergelock, waiting, regular, tombstones, poisoned, stopping, incoming>>
  BY DEF levels, locks
<1>3. TypeOK'
  BY DEF TypeOK, QueueGrows, levels, locks
<1>4. LockedWhileCommitting'
  BY <1>1 DEF LockedWhileCommitting, locks
<1>5. Pending' = Pending
  BY <1>1 DEF Pending
<1>6. IncomingIsInBudget'
  BY <1>1, <1>2, <1>5 DEF IncomingIsInBudget, Budget
<1> QED
  BY <1>2, <1>3, <1>4, <1>6, ThreadsKept

\* get_write_lock looks at incoming.
LEMMA AskInv ==
    ASSUME IInv, NEW w \in Writer, Ask(w)
    PROVE  IInv'
<1> USE DEF IInv
<1>0. writer[w] = "asking" /\ UNCHANGED <<levels, locks, thread, left, commits, stopping>>
  BY DEF Ask
<1>1. CASE Desperate(Incoming)
  <2>1. QueueGrows
    BY <1>1, SentGrows, SameQueueGrows, LevelFacts DEF Ask
  <2>2. PICK s \in {"asleep", "idle"} : writer' = [writer EXCEPT ![w] = s]
    BY <1>1 DEF Ask
  <2> QED
    BY <1>0, <2>1, <2>2, WriterMoves
<1>2. CASE ~Desperate(Incoming)
  <2>0. writer' = [writer EXCEPT ![w] = "locking"] /\ queue' = queue
    BY <1>2 DEF Ask
  <2>1. \A v \in Writer : writer'[v] = IF v = w THEN "locking" ELSE writer[v]
    BY <2>0 DEF TypeOK
  <2>2. UNCHANGED <<thread, mergelock, waiting, regular, tombstones, poisoned, stopping, incoming>>
    BY <1>0 DEF levels, locks
  <2>3. TypeOK'
    BY <1>0, <2>0 DEF TypeOK, levels, locks
  <2>4. LockedWhileCommitting'
    BY <1>0, <2>1 DEF LockedWhileCommitting, locks
  <2>5. Len(incoming) <= DesperateIncoming
    <3>1. Len(incoming) \in Nat /\ DesperateIncoming \in Nat
      BY PendingFacts
    <3> QED
      BY <1>2, <3>1 DEF Desperate
  <2>6. /\ Len(incoming') = Len(incoming) /\ left' = left
        /\ Cardinality(Pending') \in Nat /\ Cardinality(Writer) \in Nat
        /\ Len(incoming) \in Nat /\ CommitsPerLock \in Nat /\ DesperateIncoming \in Nat
        /\ \A v \in Writer : left[v] \in Nat /\ left[v] <= CommitsPerLock
    <3>1. IsFiniteSet(Pending')
      BY LevelsAssumption, FS_Subset DEF Pending
    <3> QED
      BY <1>0, <2>2, <3>1, PendingFacts, FS_CardinalityType
  <2>7. Cardinality(Pending') <= Cardinality(Writer)
    BY LevelsAssumption, FS_Subset DEF Pending
  <2>8. ASSUME NEW v \in Writer, writer'[v] = "writing"
        PROVE  Cardinality(Pending') + 1 <= Cardinality(Writer)
    <3>1. Pending' \in SUBSET (Writer \ {v})
      BY <2>8 DEF Pending
    <3>2. IsFiniteSet(Writer \ {v}) /\ Cardinality(Writer \ {v}) = Cardinality(Writer) - 1
      BY LevelsAssumption, FS_RemoveElement
    <3>3. Cardinality(Pending') <= Cardinality(Writer \ {v})
      BY <3>1, <3>2, FS_Subset
    <3> QED
      BY <2>6, <3>2, <3>3
  <2>9. IncomingIsInBudget'
    <3> DEFINE p == Cardinality(Pending')
               n == Cardinality(Writer)
    <3>1. CommitsPerLock * p \in Nat /\ CommitsPerLock * n \in Nat
          /\ CommitsPerLock * p <= CommitsPerLock * n
      BY <2>6, <2>7, Times
    <3>2. ASSUME NEW v \in Writer, writer'[v] = "writing"
          PROVE  CommitsPerLock * p + CommitsPerLock <= CommitsPerLock * n
      <4>1. CommitsPerLock * (p + 1) = CommitsPerLock * p + CommitsPerLock
            /\ CommitsPerLock * (p + 1) <= CommitsPerLock * n
        BY <2>6, <2>8, <3>2, Times
      <4> QED
        BY <4>1
    <3> DEFINE cp == CommitsPerLock * p
               cn == CommitsPerLock * n
    <3>3. Budget' = DesperateIncoming + cn
      BY DEF Budget
    <3>4. cp \in Nat /\ cn \in Nat /\ cp <= cn
          /\ \A v \in Writer : writer'[v] = "writing" => cp + CommitsPerLock <= cn
      BY <3>1, <3>2
    <3> HIDE DEF cp, cn
    <3>5. Len(incoming') + cp <= Budget'
      BY <2>5, <2>6, <3>3, <3>4
    <3>6. \A v \in Writer : writer'[v] = "writing" => Len(incoming') + cp + left'[v] <= Budget'
      BY <2>5, <2>6, <3>3, <3>4
    <3> QED
      BY <3>5, <3>6 DEF IncomingIsInBudget, cp
  <2> QED
    BY <2>0, <2>2, <2>3, <2>4, <2>9, ThreadsKept, SameQueueGrows
<1> QED
  BY <1>1, <1>2

\* get_write_lock returns.
LEMMA GetWriteLockInv ==
    ASSUME IInv, NEW w \in Writer, GetWriteLock(w)
    PROVE  IInv'
<1> USE DEF IInv
<1>0. /\ writer[w] = "locking" /\ writelock = {} /\ writelock' = {w} /\ queue' = queue
      /\ writer' = [writer EXCEPT ![w] = "writing"]
      /\ left' = [left EXCEPT ![w] = CommitsPerLock]
      /\ UNCHANGED <<levels, thread, mergelock, poisoned, commits, stopping>>
  BY DEF GetWriteLock
<1>1. \A v \in Writer : /\ writer'[v] = IF v = w THEN "writing" ELSE writer[v]
                        /\ left'[v] = IF v = w THEN CommitsPerLock ELSE left[v]
  BY <1>0 DEF TypeOK
<1>2. UNCHANGED <<thread, mergelock, waiting, regular, tombstones, poisoned, stopping, incoming>>
  BY <1>0 DEF levels
<1>3. TypeOK'
  BY <1>0, LevelsAssumption DEF TypeOK, levels
<1>4. \A v \in Writer : writer[v] # "writing"
  BY <1>0 DEF LockedWhileCommitting
<1>5. LockedWhileCommitting'
  BY <1>0, <1>1, <1>4 DEF LockedWhileCommitting
<1>6. w \in Pending /\ Pending' = Pending \ {w}
  BY <1>0, <1>1 DEF Pending
<1>7. Cardinality(Pending') + 1 = Cardinality(Pending) /\ Cardinality(Pending') \in Nat
  <2>1. IsFiniteSet(Pending) /\ Cardinality(Pending) \in Nat
    BY PendingFacts
  <2>2. IsFiniteSet(Pending \ {w}) /\ Cardinality(Pending \ {w}) = Cardinality(Pending) - 1
    BY <1>6, <2>1, FS_RemoveElement
  <2>3. Cardinality(Pending \ {w}) \in Nat
    BY <2>2, FS_CardinalityType
  <2> QED
    BY <1>6, <2>1, <2>2, <2>3
<1>8. IncomingIsInBudget'
  <2> DEFINE p == CommitsPerLock * Cardinality(Pending)
             q == CommitsPerLock * Cardinality(Pending')
  <2>1. p = q + CommitsPerLock /\ q \in Nat
    BY <1>7, PendingFacts, Times
  <2>2. Len(incoming) + p <= Budget /\ Budget' = Budget
    BY DEF IncomingIsInBudget, Budget
  <2>3. Budget \in Nat /\ Len(incoming) \in Nat /\ CommitsPerLock \in Nat
    BY PendingFacts
  <2> HIDE DEF p, q
  <2>4. Len(incoming) + q <= Budget /\ Len(incoming) + q + CommitsPerLock <= Budget
    BY <2>1, <2>2, <2>3
  <2> QED
    BY <1>1, <1>2, <1>4, <2>2, <2>4 DEF IncomingIsInBudget, q
<1> QED
  BY <1>0, <1>2, <1>3, <1>5, <1>8, ThreadsKept, SameQueueGrows

\* commit_segment.
LEMMA CommitSegmentInv ==
    ASSUME IInv, NEW w \in Writer, CommitSegment(w)
    PROVE  IInv'
<1> USE DEF IInv
<1>0. /\ writer[w] = "writing" /\ left[w] > 0 /\ commits < MaxCommits
      /\ commits' = commits + 1 /\ left' = [left EXCEPT ![w] = left[w] - 1]
      /\ queue' = IF Listening(Incoming) THEN Sent(queue, Incoming) ELSE queue
      /\ UNCHANGED <<locks, waiting, regular, tombstones, thread, taken, writer, stopping>>
      /\ UNCHANGED <<mergelock, poisoned, writelock>>
  BY DEF CommitSegment, locks
<1>1. PICK s \in WriterKinds[commits + 1] : incoming' = <<s>> \o incoming
  BY DEF CommitSegment
<1>2. incoming' \in Seq(SegmentKind) /\ Len(incoming') = Len(incoming) + 1 /\ Len(incoming) \in Nat
  <2>1. <<s>> \in Seq(SegmentKind) /\ Len(<<s>>) = 1 /\ incoming \in Seq(SegmentKind)
    <3>1. commits + 1 \in 1..MaxCommits
      BY <1>0, LevelsAssumption DEF TypeOK
    <3>2. s \in SegmentKind
      BY <1>1, <3>1, KindsAssumption
    <3> QED
      BY <3>2 DEF TypeOK
  <2> QED
    BY <1>1, <2>1, ConcatProperties, LenProperties
<1>3. QueueGrows /\ (Listening(Incoming) => queue'[Incoming] # <<>>)
  BY <1>0, LevelFacts, SentGrows, SameQueueGrows
<1>4. left[w] \in Nat \ {0} /\ \A v \in Writer : left'[v] = IF v = w THEN left[w] - 1 ELSE left[v]
  BY <1>0, PendingFacts DEF TypeOK
<1>5. TypeOK'
  <2>1. left' \in [Writer -> 0..CommitsPerLock]
    BY <1>0, <1>4, PendingFacts DEF TypeOK
  <2>2. commits' \in 0..MaxCommits
    BY <1>0, LevelsAssumption DEF TypeOK
  <2>3. taken' \in 0..Len(incoming')
    BY <1>0, <1>2 DEF TypeOK
  <2>4. queue' \in [Level -> Seq({"work", "terminate"})]
        /\ \A k \in Level : Len(queue'[k]) <= MaxQueue + 1
    BY <1>3 DEF QueueGrows
  <2> QED
    BY <1>0, <1>2, <2>1, <2>2, <2>3, <2>4 DEF TypeOK
<1>6. LockedWhileCommitting'
  BY <1>0 DEF LockedWhileCommitting
<1>7. IncomingIsInBudget'
  <2> DEFINE p == CommitsPerLock * Cardinality(Pending)
  <2>1. Pending' = Pending /\ Budget' = Budget
    BY <1>0 DEF Pending, Budget
  <2>2. \A v \in Writer : writer[v] = "writing" => v = w
    BY <1>0 DEF LockedWhileCommitting
  <2>3. p \in Nat /\ Budget \in Nat
    BY PendingFacts
  <2>4. Len(incoming) + p + left[w] <= Budget
    BY <1>0 DEF IncomingIsInBudget
  <2> HIDE DEF p, Budget
  <2>5. Len(incoming') + p <= Budget /\ Len(incoming') + p + left'[w] <= Budget
    BY <1>2, <1>4, <2>3, <2>4
  <2> QED
    BY <1>0, <2>1, <2>2, <2>5 DEF IncomingIsInBudget, p
<1>8. WorkIsKnown'
  <2> SUFFICES ASSUME NEW k \in Level, NeedsMerge(k)'
               PROVE  \/ thread[k] # "recv" \/ queue'[k] # <<>>
                      \/ k # Incoming /\ thread[k - 1] = "notify"
    BY <1>0 DEF WorkIsKnown
  <2>1. CASE k = Incoming
    BY <1>3, <2>1 DEF Listening
  <2>2. CASE k # Incoming
    <3>1. NeedsMerge(k)
      BY <1>0, <2>2 DEF NeedsMerge, Desperate
    <3> QED
      BY <1>3, <3>1 DEF WorkIsKnown, QueueGrows
  <2> QED
    BY <2>1, <2>2
<1> QED
  BY <1>0, <1>3, <1>5, <1>6, <1>7, <1>8, ThreadsKept

\* The write lock is dropped.
LEMMA DropWriteLockInv ==
    ASSUME IInv, NEW w \in Writer, DropWriteLock(w)
    PROVE  IInv'
<1> USE DEF IInv
<1>0. /\ writer[w] = "writing" /\ writelock' = {} /\ queue' = queue
      /\ writer' = [writer EXCEPT ![w] = "idle"] /\ left' = [left EXCEPT ![w] = 0]
      /\ UNCHANGED <<levels, thread, mergelock, poisoned, commits, stopping>>
  BY DEF DropWriteLock
<1>1. \A v \in Writer : /\ writer'[v] = IF v = w THEN "idle" ELSE writer[v]
                        /\ left'[v] = IF v = w THEN 0 ELSE left[v]
  BY <1>0 DEF TypeOK
<1>2. UNCHANGED <<thread, mergelock, waiting, regular, tombstones, poisoned, stopping, incoming>>
  BY <1>0 DEF levels
<1>3. TypeOK'
  BY <1>0, LevelsAssumption DEF TypeOK, levels
<1>4. LockedWhileCommitting' /\ \A v \in Writer : writer'[v] # "writing"
  BY <1>0, <1>1, WritersAssumption DEF LockedWhileCommitting
<1>5. Pending' = Pending
  BY <1>0, <1>1 DEF Pending
<1>6. IncomingIsInBudget'
  BY <1>2, <1>4, <1>5 DEF IncomingIsInBudget, Budget
<1> QED
  BY <1>0, <1>2, <1>3, <1>4, <1>6, ThreadsKept, SameQueueGrows

\* stop goes on to the next thread, tells it to terminate and waits for it.
LEMMA GoOnToInv ==
    ASSUME IInv, NEW l \in Incoming..Stopped, l = stopping + 1, GoOnTo(l),
           stopping \in Level => thread[stopping] = "done",
           UNCHANGED <<levels, locks, writers, thread>>
    PROVE  IInv'
<1> USE DEF IInv
<1>0. UNCHANGED <<incoming, waiting, regular, tombstones, taken, mergelock, poisoned,
                  writelock, writer, left, commits, thread>>
  BY DEF levels, locks, writers
<1>1. /\ LastPromotesNothing' /\ LockedWhileMerging' /\ StillThere'
      /\ LockedWhileCommitting' /\ IncomingIsInBudget'
  BY <1>0 DEF LastPromotesNothing, LockedWhileMerging, StillThere, LockedWhileCommitting,
              IncomingIsInBudget, Pending, Budget
<1>2. \A k \in Level : NeedsMerge(k)' <=> NeedsMerge(k)
  BY SameLevels
<1>3. /\ l \in Int /\ stopping \in Int /\ stopping >= Running
      /\ \A k \in Level : k \in Int /\ k < Stopped
      /\ \A k \in Level : k < l => k = stopping \/ k < stopping
      /\ l \notin Level => l = Stopped
  BY LevelFacts DEF TypeOK
<1>4. CASE l \in Level /\ Listening(l)
  <2>0. stopping' = l /\ queue' = [queue EXCEPT ![l] = Append(queue[l], "terminate")]
    BY <1>4 DEF GoOnTo, Terminated
  <2> DEFINE a == Append(queue[l], "terminate")
  <2>1. /\ a \in Seq({"work", "terminate"}) /\ a # <<>>
        /\ Len(queue[l]) \in Nat /\ Len(a) = Len(queue[l]) + 1
    BY <1>4, AppendedMessage DEF TypeOK
  <2>2. \A k \in Level : queue'[k] = IF k = l THEN a ELSE queue[k]
    BY <2>0 DEF TypeOK
  <2>3. queue' \in [Level -> Seq({"work", "terminate"})]
    BY <2>0, <2>1 DEF TypeOK
  <2> HIDE DEF a
  <2>4. \A k \in Level : Len(queue'[k]) <= MaxQueue + 1
    <3>1. Len(queue[l]) <= MaxQueue
      BY <1>3, <1>4 DEF QueuesHaveRoom
    <3>2. Len(a) <= MaxQueue + 1
      BY <2>1, <3>1, LevelsAssumption
    <3> QED
      BY <2>2, <3>2 DEF TypeOK
  <2>5. TypeOK'
    <3>1. stopping' \in Running..Stopped
      BY <1>4, <2>0, LevelFacts
    <3> QED
      BY <1>0, <2>3, <2>4, <3>1 DEF TypeOK
  <2>6. WorkIsKnown'
    BY <1>0, <1>2, <2>1, <2>2 DEF WorkIsKnown
  <2>7. QueuesHaveRoom'
    BY <1>3, <1>4, <2>0, <2>2 DEF QueuesHaveRoom
  <2>8. StopInOrder'
    <3>1. CASE thread[Last] = "dead"
      BY <1>0, <3>1 DEF StopInOrder
    <3>2. CASE thread[Last] # "dead"
      <4>1. /\ \A k \in Level : thread[k] # "dead"
            /\ poisoned = {}
            /\ \A k \in Level : thread[k] = "done" => k <= stopping
            /\ \A k \in Level : \A i \in 1..Len(queue[k]) :
                  queue[k][i] = "terminate" => k <= stopping
            /\ \A k \in Level : k < stopping => thread[k] = "done"
        BY <3>2 DEF StopInOrder
      <4>2. \A k \in Level : k <= stopping => k <= l
        BY <1>3
      <4>3. \A k \in Level : \A i \in 1..Len(queue'[k]) :
               queue'[k][i] = "terminate" => k <= l
        BY <1>3, <2>2, <4>1, <4>2
      <4>4. \A k \in Level : k < l => thread[k] = "done"
        BY <1>3, <4>1
      <4> QED
        BY <1>0, <2>0, <4>1, <4>2, <4>3, <4>4 DEF StopInOrder
    <3> QED
      BY <3>1, <3>2
  <2> QED
    BY <1>1, <2>5, <2>6, <2>7, <2>8
<1>5. CASE ~(l \in Level /\ Listening(l))
  <2>0. stopping' = Stopped /\ queue' = queue
    BY <1>5 DEF GoOnTo
  <2>1. TypeOK'
    <3>1. stopping' \in Running..Stopped
      BY <2>0, LevelFacts
    <3> QED
      BY <1>0, <2>0, <3>1 DEF TypeOK
  <2>2. WorkIsKnown'
    BY <1>0, <1>2, <2>0 DEF WorkIsKnown
  <2>3. \A k \in Level : k <= Stopped /\ ~(k > Stopped)
    BY <1>3, LevelFacts
  <2>4. QueuesHaveRoom'
    BY <2>0, <2>3 DEF QueuesHaveRoom
  <2>5. StopInOrder'
    <3>1. CASE thread[Last] = "dead"
      BY <1>0, <3>1 DEF StopInOrder
    <3>2. CASE thread[Last] # "dead"
      <4>1. /\ \A k \in Level : thread[k] # "dead"
            /\ poisoned = {}
            /\ \A k \in Level : thread[k] = "done" => k <= stopping
            /\ \A k \in Level : k < stopping => thread[k] = "done"
        BY <3>2 DEF StopInOrder
      <4>2. l = Stopped
        <5>1. ASSUME l \in Level
              PROVE  FALSE
          <6>1. thread[l] = "done"
            BY <1>5, <4>1, <5>1 DEF Listening
          <6>2. l <= stopping
            BY <4>1, <5>1, <6>1
          <6> QED
            BY <1>3, <6>2
        <5> QED
          BY <1>3, <5>1
      <4>3. \A k \in Level : thread[k] = "done"
        BY <1>3, <4>1, <4>2
      <4> QED
        BY <1>0, <2>0, <2>3, <4>1, <4>3 DEF StopInOrder
    <3> QED
      BY <3>1, <3>2
  <2> QED
    BY <1>1, <2>1, <2>2, <2>4, <2>5
<1> QED
  BY <1>4, <1>5

\* stop begins with incoming.
LEMMA BeginStopInv == IInv /\ BeginStop => IInv'
<1> SUFFICES ASSUME IInv, BeginStop PROVE IInv'
  OBVIOUS
<1>1. /\ FirstToStop \in Incoming..Stopped /\ FirstToStop = stopping + 1
      /\ stopping \notin Level
  BY LevelFacts DEF BeginStop, FirstToStop
<1> QED
  BY <1>1, GoOnToInv DEF BeginStop

\* stop joins a thread that is done.
LEMMA JoinInv == IInv /\ Join => IInv'
<1> SUFFICES ASSUME IInv, Join PROVE IInv'
  OBVIOUS
<1> USE DEF IInv
<1>1. CASE thread[stopping] = "done" /\ GoOnTo(NextToStop(stopping))
  <2>1. NextToStop(stopping) \in Incoming..Stopped /\ NextToStop(stopping) = stopping + 1
    BY LevelFacts DEF Join, NextToStop
  <2> QED
    BY <1>1, <2>1, GoOnToInv DEF Join
<1>2. CASE thread[stopping] = "dead" /\ stopping' = Stopped /\ queue' = queue
  <2>0. UNCHANGED <<incoming, waiting, regular, tombstones, taken, mergelock, poisoned,
                    writelock, writer, left, commits, thread>>
    BY DEF Join, levels, locks, writers
  <2>1. stopping \in Level /\ thread[Last] = "dead"
    BY <1>2 DEF StopInOrder, Join
  <2>2. TypeOK'
    <3>1. stopping' \in Running..Stopped
      BY <1>2, LevelFacts
    <3> QED
      BY <1>2, <2>0, <3>1 DEF TypeOK
  <2>3. /\ LastPromotesNothing' /\ LockedWhileMerging' /\ StillThere'
        /\ LockedWhileCommitting' /\ IncomingIsInBudget'
    BY <2>0 DEF LastPromotesNothing, LockedWhileMerging, StillThere, LockedWhileCommitting,
                IncomingIsInBudget, Pending, Budget
  <2>4. WorkIsKnown'
    BY <1>2, <2>0 DEF WorkIsKnown, NeedsMerge, Desperate
  <2>5. QueuesHaveRoom'
    BY <1>2, LevelFacts DEF QueuesHaveRoom
  <2>6. StopInOrder'
    BY <2>0, <2>1 DEF StopInOrder
  <2> QED
    BY <2>2, <2>3, <2>4, <2>5, <2>6
<1> QED
  BY <1>1, <1>2 DEF Join

-----------------------------------------------------------------------------
(* The theorems.                                                           *)

\* Every step of a merge thread.
LEMMA MergeThreadInv ==
    ASSUME IInv, NEW l \in Level, MergeThread(l)
    PROVE  IInv'
BY ReceiveInv, LockFirstInv, LockSecondInv, NothingToDoInv, NextIsDesperateInv, WakeUpInv,
   PrepareInv, CommitInv, NotifyInv DEF MergeThread

\* Every step of a writer.
LEMMA WriterStepInv ==
    ASSUME IInv, NEW w \in Writer, WriterStep(w)
    PROVE  IInv'
<1>1. CASE Begin(w) \/ AskAgain(w)
  <2>1. /\ writer[w] \in {"asking", "asleep", "idle"} /\ queue' = queue
        /\ writer' = [writer EXCEPT ![w] = "asking"]
        /\ UNCHANGED <<levels, locks, thread, left, commits, stopping>>
    BY <1>1 DEF Begin, AskAgain
  <2> QED
    BY <2>1, WriterMoves, SameQueueGrows DEF IInv
<1> QED
  BY <1>1, AskInv, GetWriteLockInv, CommitSegmentInv, DropWriteLockInv DEF WriterStep

\* Every action keeps the invariant.
LEMMA StepInv == IInv /\ [Next]_vars => IInv'
<1> SUFFICES ASSUME IInv, [Next]_vars PROVE IInv'
  OBVIOUS
<1>1. CASE UNCHANGED vars
  <2>0. /\ UNCHANGED <<levels, locks, writers, thread, queue, stopping>>
        /\ UNCHANGED <<incoming, waiting, regular, tombstones, taken, mergelock, poisoned,
                       writelock, writer, left, commits>>
    BY <1>1 DEF vars, levels, locks, writers
  <2>1. TypeOK'
    BY <2>0 DEF IInv, TypeOK
  <2>2. LockedWhileCommitting' /\ IncomingIsInBudget'
    BY <2>0 DEF IInv, LockedWhileCommitting, IncomingIsInBudget, Pending, Budget
  <2> QED
    BY <2>0, <2>1, <2>2, ThreadsKept, SameQueueGrows DEF IInv
<1> QED
  BY <1>1, MergeThreadInv, WriterStepInv, BeginStopInv, JoinInv DEF Next, AllStopped

\* The inductive invariant holds in every reachable state.
THEOREM Inductive == Spec => []IInv
BY InitInv, StepInv, PTL DEF Spec

\* Every variable has its type; in particular no level holds less than nothing
\* and no channel more messages than there is room for.
THEOREM TypeCorrect == Spec => []TypeOK
<1>1. IInv => TypeOK
  BY DEF IInv
<1> QED
  BY <1>1, Inductive, PTL

\* No wakeup is lost, however many levels there are and however large they must
\* be to be merged.
THEOREM NoWakeupIsLost == Spec => []QuietMeansSettled
<1>1. IInv => QuietMeansSettled
  <2> SUFFICES ASSUME IInv, \A l \in Level : thread[l] = "recv" /\ queue[l] = <<>>,
                      NEW l \in Level, NeedsMerge(l)
               PROVE  FALSE
    BY DEF QuietMeansSettled
  <2>1. l # Incoming /\ thread[l - 1] = "notify"
    BY DEF IInv, WorkIsKnown
  <2> QED
    BY <2>1, LevelFacts
<1> QED
  BY <1>1, Inductive, PTL

\* The thread of the last level is always the first to panic.
THEOREM LastPanicsFirst == Spec => []NoThreadPanicsFirst
<1>1. IInv => NoThreadPanicsFirst
  BY DEF IInv, StopInOrder, NoThreadPanicsFirst
<1> QED
  BY <1>1, Inductive, PTL

\* Incoming outgrows its limit by no more than what the writers that saw it below
\* the limit can commit, for any number of writers and commits.
THEOREM WritersStayInBudget == Spec => []WritersAreHeldBack
<1>1. IInv => WritersAreHeldBack
  <2> SUFFICES ASSUME IInv PROVE WritersAreHeldBack
    OBVIOUS
  <2>1. Len(incoming) + CommitsPerLock * Cardinality(Pending) <= Budget
    BY DEF IInv, IncomingIsInBudget
  <2>2. /\ CommitsPerLock * Cardinality(Pending) \in Nat /\ Budget \in Nat /\ Len(incoming) \in Nat
        /\ Cardinality(Writer) \in Nat /\ CommitsPerLock \in Nat
    BY PendingFacts DEF IInv
  <2>3. Budget = DesperateIncoming + Cardinality(Writer) * CommitsPerLock
    BY <2>2 DEF Budget
  <2> HIDE DEF Budget
  <2>4. Len(incoming) <= Budget
    BY <2>1, <2>2
  <2> QED
    BY <2>3, <2>4 DEF WritersAreHeldBack
<1> QED
  BY <1>1, Inductive, PTL

=============================================================================
