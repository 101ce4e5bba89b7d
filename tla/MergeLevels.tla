---------------------------- MODULE MergeLevels ----------------------------
(***************************************************************************)
(* The threads that merge: lsm/src/lib.rs, merge_loop, DatabaseFile::merge, *)
(* notify_work, needs_merge, get_write_lock and stop.                      *)
(*                                                                         *)
(* Each level has a thread that waits on its channel and, once woken,      *)
(* promotes what the level holds until nothing needs it any more.  Merge   *)
(* locks keep two threads off the same segments, the write lock orders the *)
(* commits with those of the writers, and a level that is desperate holds  *)
(* back the one before it, up to the writers.                              *)
(*                                                                         *)
(* What a merge does to the data is in LsmTree; here a segment is the      *)
(* number of merges it takes to promote all of it.                         *)
(***************************************************************************)
EXTENDS Integers, FiniteSets, Sequences

CONSTANTS
    Writer,             \* threads that commit segments
    NumRegular,         \* NUM_REGULAR_LEVELS
    DesperateIncoming, DesperateWaiting,  \* settings
    NeedsMergeSize,     \* how large a regular level has to be to be merged
    DesperateFactor,    \* settings: desperate_level_factor
    WriterKinds,        \* bound: the kinds of the first, second ... segment committed
    CommitsPerLock,     \* bound: commits under one write lock
    MaxCommits,         \* bound: commits in all
    Files,              \* bound: what the file may hold when it is opened
    MaxQueue            \* bound: messages that wait in a channel

ASSUME LevelsAssumption ==
    /\ IsFiniteSet(Writer)
    /\ NumRegular \in Nat \ {0}
    /\ DesperateIncoming \in Nat /\ DesperateWaiting \in Nat
    /\ DesperateFactor \in Nat
    /\ CommitsPerLock \in Nat \ {0} /\ MaxCommits \in Nat /\ MaxQueue \in Nat \ {0}

Incoming == -2
Waiting == -1
Regular == 0..NumRegular - 1
Level == Incoming..NumRegular - 1
Last == NumRegular - 1

ASSUME WritersAssumption == Writer \cap Level = {}

ASSUME SizesAssumption == NeedsMergeSize \in [Regular -> Nat \ {0}]

\* A leaf segment is promoted at once.  A parent segment of incoming is moved to
\* waiting as it is, and then it may take two merges.
LeafSegment == 1
ParentSegment == 2
SegmentKind == {LeafSegment, ParentSegment}

ASSUME KindsAssumption == WriterKinds \in [1..MaxCommits -> SUBSET SegmentKind]

ASSUME FilesAssumption ==
    \A file \in Files :
        /\ file.incoming \in Seq(SegmentKind) /\ file.waiting \in Seq(SegmentKind)
        /\ file.regular \in [Regular -> Nat]
        /\ file.tombstones \subseteq {l \in Regular : file.regular[l] > 0}

VARIABLES incoming,   \* header.incoming, newest first
          waiting,    \* header.waiting, newest first
          regular,    \* header.regular: how much each level holds
          tombstones, \* the regular levels whose segment holds tombstones
          thread,     \* where each merge thread is
          taken,      \* how many segments the incoming thread is promoting
          queue,      \* the channel of each merge thread
          mergelock,  \* who holds each merge lock, {} or one thread
          poisoned,   \* the merge locks whose holder panicked
          writelock,  \* who holds the write lock, {} or one thread
          writer,     \* where each writer is
          left,       \* commits a writer may still do under its write lock
          commits,    \* commits so far
          stopping    \* the level whose thread stop() is waiting for

levels == <<incoming, waiting, regular, tombstones, taken>>
locks == <<mergelock, poisoned, writelock>>
writers == <<writer, left, commits>>
vars == <<levels, locks, writers, thread, queue, stopping>>

\* Values of stopping, before and after the levels.
Running == Incoming - 1
Stopped == Last + 1

\* recv: in rx.recv(); first, second: about to lock the merge lock of the level
\* and of the next; check: in guts; commit: waits for the write lock; notify:
\* about to send the message after the commit; sleep: between two rounds; done:
\* terminated; dead: panicked.
ThreadState == {"recv", "first", "second", "check", "commit", "notify", "sleep",
                "done", "dead"}

TypeOK ==
    /\ incoming \in Seq(SegmentKind)
    /\ waiting \in Seq(SegmentKind)
    /\ regular \in [Regular -> Nat]
    /\ tombstones \subseteq {l \in Regular : regular[l] > 0}
    /\ thread \in [Level -> ThreadState]
    /\ taken \in 0..Len(incoming)
    /\ queue \in [Level -> Seq({"work", "terminate"})]
    /\ \A l \in Level : Len(queue[l]) <= MaxQueue + 1
    /\ mergelock \in [Level -> SUBSET Level]
    /\ \A l \in Level : \A i, k \in mergelock[l] : i = k
    /\ poisoned \subseteq Level
    /\ writelock \subseteq Level \cup Writer
    /\ \A i, k \in writelock : i = k
    /\ writer \in [Writer -> {"idle", "asking", "asleep", "locking", "writing"}]
    /\ left \in [Writer -> 0..CommitsPerLock]
    /\ commits \in 0..MaxCommits
    /\ stopping \in Running..Stopped

\* DatabaseFile::new: every thread waits for a message, and nobody has sent any.
NothingRuns ==
    /\ thread = [l \in Level |-> "recv"]
    /\ taken = 0
    /\ queue = [l \in Level |-> <<>>]
    /\ mergelock = [l \in Level |-> {}]
    /\ poisoned = {}
    /\ writelock = {}
    /\ writer = [w \in Writer |-> "idle"]
    /\ left = [w \in Writer |-> 0]
    /\ commits = 0
    /\ stopping = Running

\* An empty file.
Init ==
    /\ incoming = <<>> /\ waiting = <<>>
    /\ regular = [l \in Regular |-> 0] /\ tombstones = {}
    /\ NothingRuns

\* A file that was used before: what needed a merge when it was closed still does.
Reopened ==
    /\ \E file \in Files :
          /\ incoming = file.incoming /\ waiting = file.waiting
          /\ regular = file.regular /\ tombstones = file.tombstones
    /\ NothingRuns

-----------------------------------------------------------------------------
(* needs_merge and notify_work.                                            *)

Oldest(segments) == segments[Len(segments)]

DesperateIgnoringIncoming(l) ==
    \/ l = Waiting /\ Len(waiting) > DesperateWaiting
    \/ /\ l \in Regular \ {Last} /\ l \notin tombstones
       /\ regular[l] >= NeedsMergeSize[l]
       /\ regular[l] > DesperateFactor * NeedsMergeSize[l]

Desperate(l) ==
    \/ l = Incoming /\ Len(incoming) > DesperateIncoming
    \/ l = Waiting /\ Len(waiting) > DesperateWaiting
    \/ /\ l \in Regular \ {Last} /\ l \notin tombstones
       /\ regular[l] >= NeedsMergeSize[l]
       /\ regular[l] > DesperateFactor * NeedsMergeSize[l]

\* One leaf stays in incoming until another segment comes.  A regular level is
\* merged for its size or for its tombstones, and with tombstones it is never
\* desperate.  Nothing is promoted out of the last level.
NeedsMerge(l) ==
    \/ /\ l = Incoming /\ incoming # <<>>
       /\ Desperate(l) \/ Len(incoming) > 1 \/ Oldest(incoming) = ParentSegment
    \/ l = Waiting /\ waiting # <<>>
    \/ /\ l \in Regular \ {Last}
       /\ l \in tombstones \/ regular[l] >= NeedsMergeSize[l] \/ Desperate(l)

\* The receiver is dropped when its thread ends.
Listening(l) == thread[l] \notin {"done", "dead"}

\* Another message that there is work adds nothing to those that already wait.
Sent(q, l) == IF Len(q[l]) < MaxQueue THEN [q EXCEPT ![l] = Append(@, "work")] ELSE q

-----------------------------------------------------------------------------
(* The merge threads.                                                      *)

Unlocked(l) == [k \in Level |-> mergelock[k] \ {l}]

CanLock(k) == mergelock[k] = {} /\ k \notin poisoned

\* An error out of merge() makes merge_loop panic when the locks are released.
Die(l) ==
    /\ thread' = [thread EXCEPT ![l] = "dead"]
    /\ mergelock' = Unlocked(l)

Receive(l) ==
    /\ thread[l] = "recv"
    /\ queue[l] # <<>>
    /\ thread' = [thread EXCEPT ![l] = IF Head(queue[l]) = "work" THEN "first" ELSE "done"]
    /\ queue' = [queue EXCEPT ![l] = Tail(@)]
    /\ UNCHANGED <<levels, locks, writers, stopping>>

\* The incoming thread needs no second lock.
LockFirst(l) ==
    /\ thread[l] = "first"
    /\ \/ /\ CanLock(l)
          /\ mergelock' = [mergelock EXCEPT ![l] = {l}]
          /\ thread' = [thread EXCEPT ![l] = IF l = Incoming THEN "check" ELSE "second"]
       \/ l \in poisoned /\ Die(l)
    /\ UNCHANGED <<levels, writers, queue, poisoned, writelock, stopping>>

\* There is no merge lock after that of the last level: indexing panics while
\* the first lock is held.
LockSecond(l) ==
    /\ thread[l] = "second"
    /\ \/ /\ l = Last
          /\ thread' = [thread EXCEPT ![l] = "dead"]
          /\ poisoned' = poisoned \cup {l}
          /\ mergelock' = Unlocked(l)
       \/ /\ l # Last /\ CanLock(l + 1)
          /\ mergelock' = [mergelock EXCEPT ![l + 1] = {l}]
          /\ thread' = [thread EXCEPT ![l] = "check"]
          /\ UNCHANGED poisoned
       \/ l # Last /\ l + 1 \in poisoned /\ Die(l) /\ UNCHANGED poisoned
    /\ UNCHANGED <<levels, writers, queue, writelock, stopping>>

\* The round is over: break out of the loop, or sleep and go on.
Release(l, next) ==
    /\ thread' = [thread EXCEPT ![l] = next]
    /\ mergelock' = Unlocked(l)

NothingToDoGoOn(l) ==
    /\ thread[l] = "check"
    /\ ~NeedsMerge(l)
    /\ Release(l, "first")
    /\ UNCHANGED <<levels, writers, queue, poisoned, writelock, stopping>>

NothingToDo(l) ==
    /\ thread[l] = "check"
    /\ ~NeedsMerge(l)
    /\ Release(l, "recv")
    /\ UNCHANGED <<levels, writers, queue, poisoned, writelock, stopping>>

NextIsDesperateUntold(l) ==
    /\ thread[l] = "check"
    /\ NeedsMerge(l) /\ Desperate(l + 1)
    /\ Release(l, "sleep")
    /\ UNCHANGED <<levels, writers, queue, poisoned, writelock, stopping>>

\* The next level is desperate: that is told, and this one waits.
NextIsDesperate(l) ==
    /\ thread[l] = "check"
    /\ NeedsMerge(l) /\ Desperate(l + 1)
    /\ IF Listening(l + 1)
       THEN Release(l, "sleep") /\ queue' = Sent(queue, l + 1)
       ELSE Die(l) /\ UNCHANGED queue
    /\ UNCHANGED <<levels, writers, poisoned, writelock, stopping>>

WakeUp(l) ==
    /\ thread[l] = "sleep"
    /\ thread' = [thread EXCEPT ![l] = "first"]
    /\ UNCHANGED <<levels, locks, writers, queue, stopping>>

\* How many segments of incoming are promoted together: the oldest ones that
\* are of the same kind.
RunLength ==
    LET n == Len(incoming)
    IN  CHOOSE k \in 1..n :
            /\ \A i \in n - k + 1..n : incoming[i] = Oldest(incoming)
            /\ k < n => incoming[n - k] # Oldest(incoming)

\* prepare_merge and prepare_merge_from_incoming, up to write_lock.lock().
Prepare(l) ==
    /\ thread[l] = "check"
    /\ NeedsMerge(l) /\ ~Desperate(l + 1)
    /\ thread' = [thread EXCEPT ![l] = "commit"]
    /\ taken' = IF l = Incoming THEN RunLength ELSE taken
    /\ UNCHANGED <<locks, writers, incoming, waiting, regular, tombstones,
                   queue, stopping>>

WithoutOldest(segments, k) == SubSeq(segments, 1, Len(segments) - k)

\* What a run of incoming becomes: parents are moved, leaves are merged into one
\* segment.
Promoted(run) ==
    IF Oldest(run) = ParentSegment THEN {run}
    ELSE IF Len(run) = 1 THEN {<<LeafSegment>>}
    ELSE {<<s>> : s \in SegmentKind}

CommitFromIncoming(l) ==
    /\ l = Incoming
    /\ incoming' = WithoutOldest(incoming, taken)
    /\ \E new \in Promoted(SubSeq(incoming, Len(incoming) - taken + 1, Len(incoming))) :
          waiting' = new \o waiting
    /\ taken' = 0
    /\ UNCHANGED <<regular, tombstones>>

\* What a merge may leave the level it promotes to, and the one it promotes
\* from: promoted pairs add to it, replace or delete others.  Tombstones reach a
\* level only when there is something behind it.
MergedInto(l) ==
    /\ regular'[l] \in {regular[l] - 1, regular[l], regular[l] + 1} \cap Nat
    /\ l \in tombstones' =>
           /\ regular'[l] > 0
           /\ l \in tombstones \/ \E k \in l + 1..Last : regular[k] > 0

\* A merge promotes all or a part of the oldest segment of waiting.
CommitFromWaiting(l) ==
    /\ l = Waiting
    /\ \E survives \in 0..Oldest(waiting) - 1 :
          waiting' = WithoutOldest(waiting, 1)
                     \o (IF survives = 0 THEN <<>> ELSE <<survives>>)
    /\ \E n \in 0..regular[0] + 1, t \in SUBSET {0} :
          /\ regular' = [regular EXCEPT ![0] = n]
          /\ tombstones' = (tombstones \ {0}) \cup t
    /\ MergedInto(0)
    /\ UNCHANGED <<incoming, taken>>

CommitFromRegular(l) ==
    /\ l \in Regular
    /\ \E n \in 0..regular[l + 1] + 1, t \in SUBSET {l, l + 1} :
          /\ regular' = [regular EXCEPT ![l] = @ - 1, ![l + 1] = n]
          /\ tombstones' = (tombstones \ {l, l + 1}) \cup t
    /\ l \in tombstones' => l \in tombstones /\ regular'[l] > 0
    /\ MergedInto(l + 1)
    /\ UNCHANGED <<incoming, waiting, taken>>

\* The commit under the write lock, which is held until the message is sent.
Commit(l) ==
    /\ thread[l] = "commit"
    /\ writelock = {}
    /\ writelock' = {l}
    /\ CommitFromIncoming(l) \/ CommitFromWaiting(l) \/ CommitFromRegular(l)
    /\ thread' = [thread EXCEPT ![l] = "notify"]
    /\ UNCHANGED <<writers, queue, mergelock, poisoned, stopping>>

NotifySelf(l) == Sent(queue, l)
NotifyNext(l) == Sent(queue, l + 1)

Notify(l) ==
    /\ thread[l] = "notify"
    /\ writelock' = {}
    /\ IF Listening(l + 1)
       THEN Release(l, "first") /\ queue' = NotifyNext(l)
       ELSE Die(l) /\ UNCHANGED queue
    /\ UNCHANGED <<levels, writers, poisoned, stopping>>

MergeThread(l) ==
    \/ Receive(l) \/ LockFirst(l) \/ LockSecond(l) \/ NothingToDo(l)
    \/ NextIsDesperate(l) \/ WakeUp(l) \/ Prepare(l) \/ Commit(l) \/ Notify(l)

-----------------------------------------------------------------------------
(* The writers.                                                            *)

Begin(w) ==
    /\ writer[w] = "idle"
    /\ stopping = Running
    /\ writer' = [writer EXCEPT ![w] = "asking"]
    /\ UNCHANGED <<levels, locks, thread, queue, left, commits, stopping>>

\* get_write_lock: incoming is looked at before the lock is taken.
Ask(w) ==
    /\ writer[w] = "asking"
    /\ IF Desperate(Incoming)
       THEN IF Listening(Incoming)
            THEN writer' = [writer EXCEPT ![w] = "asleep"] /\ queue' = Sent(queue, Incoming)
            ELSE writer' = [writer EXCEPT ![w] = "idle"] /\ UNCHANGED queue
       ELSE writer' = [writer EXCEPT ![w] = "locking"] /\ UNCHANGED queue
    /\ UNCHANGED <<levels, locks, thread, left, commits, stopping>>

AskAgain(w) ==
    /\ writer[w] = "asleep"
    /\ writer' = [writer EXCEPT ![w] = "asking"]
    /\ UNCHANGED <<levels, locks, thread, queue, left, commits, stopping>>

GetWriteLock(w) ==
    /\ writer[w] = "locking"
    /\ writelock = {}
    /\ writelock' = {w}
    /\ writer' = [writer EXCEPT ![w] = "writing"]
    /\ left' = [left EXCEPT ![w] = CommitsPerLock]
    /\ UNCHANGED <<levels, thread, queue, mergelock, poisoned, commits,
                   stopping>>

\* commit_segment.
CommitSegment(w) ==
    /\ writer[w] = "writing"
    /\ left[w] > 0 /\ commits < MaxCommits
    /\ \E s \in WriterKinds[commits + 1] : incoming' = <<s>> \o incoming
    /\ commits' = commits + 1
    /\ left' = [left EXCEPT ![w] = @ - 1]
    /\ queue' = IF Listening(Incoming) THEN Sent(queue, Incoming) ELSE queue
    /\ UNCHANGED <<locks, waiting, regular, tombstones, thread, taken, writer,
                   stopping>>

DropWriteLock(w) ==
    /\ writer[w] = "writing"
    /\ writelock' = {}
    /\ writer' = [writer EXCEPT ![w] = "idle"]
    /\ left' = [left EXCEPT ![w] = 0]
    /\ UNCHANGED <<levels, thread, queue, mergelock, poisoned, commits,
                   stopping>>

WriterStep(w) ==
    \/ Begin(w) \/ Ask(w) \/ AskAgain(w) \/ GetWriteLock(w)
    \/ CommitSegment(w) \/ DropWriteLock(w)

-----------------------------------------------------------------------------
(* stop: one thread after the other is told to terminate, and waited for.  *)

FirstToStopIsWaiting == Waiting
FirstToStop == Incoming
NextToStop(l) == IF l = Last THEN Stopped ELSE l + 1

Terminated(q, l) == [q EXCEPT ![l] = Append(@, "terminate")]

\* stop goes on to a level: it tells its thread to terminate, or gives up with an
\* error when the thread is dead.
GoOnTo(l) ==
    IF l \in Level /\ Listening(l)
    THEN stopping' = l /\ queue' = Terminated(queue, l)
    ELSE stopping' = Stopped /\ UNCHANGED queue

\* stop takes the database away from the writers.
BeginStop ==
    /\ stopping = Running
    /\ \A w \in Writer : writer[w] = "idle"
    /\ GoOnTo(FirstToStop)
    /\ UNCHANGED <<levels, locks, writers, thread>>

\* Joining a thread that panicked ends stop as well.
Join ==
    /\ stopping \in Level
    /\ \/ thread[stopping] = "done" /\ GoOnTo(NextToStop(stopping))
       \/ thread[stopping] = "dead" /\ stopping' = Stopped /\ UNCHANGED queue
    /\ UNCHANGED <<levels, locks, writers, thread>>

AllStopped == stopping = Stopped /\ UNCHANGED vars

Next ==
    \/ \E l \in Level : MergeThread(l)
    \/ \E w \in Writer : WriterStep(w)
    \/ BeginStop
    \/ Join
    \/ AllStopped

Spec == Init /\ [][Next]_vars

\* A thread goes on when it can.  A mutex is not fair, but who waits for a merge
\* lock gets it while the other thread sleeps, and who waits for the write lock
\* while the others prepare; so a thread is not passed over forever.  Nothing
\* makes a writer begin or commit, but it drops its write lock.
Fairness ==
    /\ \A l \in Level : SF_vars(MergeThread(l))
    /\ \A w \in Writer : SF_vars(Ask(w) \/ AskAgain(w) \/ GetWriteLock(w) \/ DropWriteLock(w))
    /\ WF_vars(Join)

FairSpec == Reopened /\ [][Next]_vars /\ Fairness

-----------------------------------------------------------------------------
(* Properties.                                                             *)

\* No wakeup is lost: when every thread waits for a message and none is on its
\* way, no level needs a merge.  (notify_work after every commit, and the round
\* a thread makes before it waits again)
QuietMeansSettled ==
    (\A l \in Level : thread[l] = "recv" /\ queue[l] = <<>>)
        => \A l \in Level : ~NeedsMerge(l)

\* Only the thread of the last level panics of its own: until it does, no thread
\* sends to one that has ended, also not while they are stopped one by one, and
\* none meets a poisoned lock.  (stop, notify_work)
NoThreadPanicsFirst ==
    (\E l \in Level : thread[l] = "dead") => thread[Last] = "dead"

\* What the desperate limits promise: incoming outgrows its limit by no more
\* than what the writers that saw it below it could commit, though each of them
\* looked before it had the write lock.  (get_write_lock)
WritersAreHeldBack ==
    Len(incoming) <= DesperateIncoming + Cardinality(Writer) * CommitsPerLock

\* A writer that asks for the write lock gets it, though it is held back as long
\* as incoming is desperate: levels that are desperate one behind the other do not
\* wait for each other for ever, also when nobody but the writer has told any of
\* their threads anything since the file was opened.  Where threads panic, the
\* writer waits on until it has the lock or that of incoming is gone and its message
\* fails.  (get_write_lock, guts)
WritersProceed ==
    \A w \in Writer :
        writer[w] = "asking" ~> writer[w] = "writing" \/ thread[Incoming] = "dead"

\* stop returns, with an error if need be, whatever the merge threads were doing
\* and also when some of them have panicked.
StopReturns == stopping \in Level ~> stopping = Stopped

\* A comment in needs_merge says of the last level that it doesn't need a merge
\* because it has nowhere to promote to: its thread has nothing to do.
LastLevelIsQuiet == thread[Last] # "dead"
=============================================================================
