---------------------------- MODULE RunningTree ----------------------------
(***************************************************************************)
(* Which merges of LsmTree are made while a process runs: lsm/src/lib.rs,  *)
(* DatabaseFile::new, merge_loop, merge and notify_work.                   *)
(*                                                                         *)
(* A merge thread waits for a message and then merges for as long as its   *)
(* level needs it.  It is told by the writer, or by the thread before it,  *)
(* that has committed into its level or is held back by it; nobody tells   *)
(* it when the file is opened, so what needed a merge when the file was    *)
(* closed stays until some commit sets off the threads before it.  The     *)
(* thread of the last level panics as soon as it is told, and a thread     *)
(* that tells one that is gone panics as well.                             *)
(*                                                                         *)
(* MergeLevels has the same threads with their channels and locks, without *)
(* the data.  Here a thread that was told is one that looks at its level   *)
(* again until it is settled, since whatever changes the level tells it.   *)
(***************************************************************************)
EXTENDS LsmTree

VARIABLES told,     \* the merge threads that were sent a message since the opening
          dead,     \* the merge threads that panicked since
          arrived   \* the threads whose level was committed into since

process == <<told, dead>>
runningVars == <<vars, process, arrived>>

\* Thread t promotes into regular level t, the incoming one into waiting.  The
\* last thread has the last level to promote from and no level to promote to.
IncomingThread == -1
LastThread == NumRegularLevels
MergeThread == IncomingThread .. LastThread

Working == told \ dead

RunningInit == Init /\ told = {} /\ dead = {} /\ arrived = {}

-----------------------------------------------------------------------------
(* notify_work.                                                            *)

TellItself(t) ==
    IF t + 1 \in dead
    THEN dead' = dead \cup {t} /\ UNCHANGED told
    ELSE told' = told \cup {t} /\ UNCHANGED dead

\* A thread tells the next one, whose channel is gone when that one panicked.
TellNext(t) ==
    IF t + 1 \in dead
    THEN dead' = dead \cup {t} /\ UNCHANGED told
    ELSE told' = told \cup {t + 1} /\ UNCHANGED dead

WriterCommits(seg) ==
    /\ CommitSegment(seg)
    /\ told' = told \cup {IncomingThread}
    /\ arrived' = arrived \cup {IncomingThread}
    /\ UNCHANGED dead

-----------------------------------------------------------------------------
(* The incoming thread.                                                    *)

IncomingPrepares ==
    /\ IncomingThread \in Working
    /\ PrepareMergeFromIncoming
    /\ UNCHANGED <<process, arrived>>

IncomingCommits ==
    /\ CommitMergeFromIncoming
    /\ TellNext(IncomingThread)
    /\ arrived' = arrived \cup {0}

\* Waiting is desperate: that is told, and nothing is merged into it.
IncomingHeldBack ==
    /\ IncomingThread \in Working
    /\ ~pendingIncoming.busy
    /\ NeedsMergeIncoming
    /\ Len(waiting) > DesperateWaiting
    /\ TellNext(IncomingThread)
    /\ UNCHANGED <<vars, arrived>>

-----------------------------------------------------------------------------
(* The threads of waiting and of the regular levels.                       *)

\* The second lock of the thread before the last is the one the last thread held
\* when it panicked.  That thread may still have a message waiting and look again,
\* whether or not its level needs it.
LocksPoisoned(t) == t + 1 = LastThread /\ LastThread \in dead

ThreadPrepares(t) ==
    /\ t \in Working
    /\ ~LocksPoisoned(t)
    /\ PrepareMerge(t)
    /\ UNCHANGED <<process, arrived>>

ThreadCommits(t) ==
    /\ CommitMerge(t)
    /\ TellNext(t)
    /\ arrived' = arrived \cup {t + 1}

\* The next level is desperate.  Its size is left open, so that a parent without
\* tombstones may be; the last level never is.
ThreadHeldBack(t) ==
    /\ t \in Working
    /\ ~pending[t].busy /\ LocksFree(t)
    /\ NeedsMerge(t)
    /\ t + 1 # LastThread
    /\ regular[t].kind = "parent" /\ ~HasTombstone(regular[t].pairs)
    /\ TellNext(t)
    /\ UNCHANGED <<vars, arrived>>

MeetsPoisonedLock(t) ==
    /\ t \in Working
    /\ ~pending[t].busy /\ LocksFree(t)
    /\ LocksPoisoned(t)
    /\ dead' = dead \cup {t}
    /\ UNCHANGED <<vars, told, arrived>>

\* There is no merge lock after that of the last level: indexing panics while
\* the first lock is held, which is the second one of the thread before.
LastPanics ==
    /\ LastThread \in Working
    /\ ~pending[LastThread - 1].busy
    /\ dead' = dead \cup {LastThread}
    /\ UNCHANGED <<vars, told, arrived>>

-----------------------------------------------------------------------------
\* The process dies and the file is opened again, by threads that all wait for a
\* message.
ReopenAll == Reopen /\ told' = {} /\ dead' = {} /\ arrived' = {}

Running ==
    \/ \E seg \in NewSegments : WriterCommits(seg)
    \/ IncomingPrepares
    \/ IncomingCommits
    \/ IncomingHeldBack
    \/ \E t \in Thread : ThreadPrepares(t)
    \/ \E t \in Thread : ThreadCommits(t)
    \/ \E t \in Thread : ThreadHeldBack(t)
    \/ \E t \in Thread : MeetsPoisonedLock(t)
    \/ LastPanics
    \/ ReopenAll

\* A parent without tombstones need not be promoted, since it may be small for
\* its level.
MustMerge(t) == NeedsMerge(t) /\ (t = 0 \/ HasTombstone(Source(t).pairs))

\* A thread that was told goes on until its level needs no merge.  One that is
\* held back is not so for ever: it tells the next thread, which merges what holds
\* it back or panics (WritersProceed of MergeLevels).  A thread that waits for a
\* message does nothing.
Fairness ==
    /\ WF_runningVars(IncomingPrepares)
    /\ WF_runningVars(IncomingCommits)
    /\ WF_runningVars(IncomingHeldBack)
    /\ \A t \in Thread :
          /\ WF_runningVars(MustMerge(t) /\ ThreadPrepares(t))
          /\ WF_runningVars(ThreadCommits(t))
          /\ WF_runningVars(MustMerge(t) /\ MeetsPoisonedLock(t))

RunningSpec == RunningInit /\ [][Running]_runningVars /\ Fairness

-----------------------------------------------------------------------------
(* Properties.                                                             *)

\* When the process is no longer restarted, every level that something was
\* committed into since the file was opened settles, or its thread panicked:
\* incoming keeps at most one leaf, waiting runs empty and every tombstone of a
\* regular level is pushed down until it is dropped.  No order of the merges, no
\* lock of a neighbour, no merge lost in a restart and no thread that panicked
\* further down leaves it unsettled.  Only a level that nothing came into and whose
\* thread was told nothing stays as the file had it.  (merge, notify_work)
MergesSettle ==
    <>[][~ReopenAll]_runningVars =>
    <>[](LET Busy == (arrived \cup told) \ dead IN
         /\ IncomingThread \in Busy =>
               \A i \in DOMAIN incoming : i = 1 /\ incoming[i].kind = "leaf"
         /\ 0 \in Busy => waiting = <<>>
         /\ \A t \in Thread \ {0} :
               t \in Busy => ~HasTombstone(regular[t - 1].pairs))
=============================================================================
