----------------------------- MODULE SampleThreads -----------------------------
(***************************************************************************)
(* Two programs that start a few threads and stop them: part05/main.c,     *)
(* whose threads only wait to be told to end, and ddostools/main.c, whose  *)
(* threads send datagrams.  They share the handshake of the server's       *)
(* threads, and differ in what an error does.                              *)
(*                                                                         *)
(* A critical section is one step; `locked' says that main keeps the mutex *)
(* beyond one.  The counters that only main prints are left out.           *)
(* pthread_cond_wait stands in no loop: both programs go on when it returns*)
(* without a signal, as POSIX allows; `early' remembers that main has.     *)
(***************************************************************************)
EXTENDS Integers, FiniteSets

CONSTANTS
  ThreadCount,   \* KC_THREAD_COUNT: 2 and 16
  JoinMax,       \* how many threads the error path of ddostools joins: 12
  ThreadFaults   \* of "shared", "memory", "init", "threads", "handle",
                 \* "create", "socket", "spurious"

ASSUME SampleThreadsAssumption ==
  ThreadCount \in Nat \ {0} /\ JoinMax \in 1 .. ThreadCount

VARIABLES
  program,         \* "part05" or "ddostools"
  main,            \* where the main thread is
  object,          \* the object kcGenerateShared makes next
  i,               \* loop counter of kcStartThread, then of kcFreeThreads
  held, made,      \* objects with memory; those whose bit shared->flag has
  handle,          \* handle[t], an allocation: "null", "unfilled" or "filled"
  pc,              \* where thread t is
  isRuning, threadRunCount,
  locked,          \* main holds the mutex
  early            \* history: main has gone on without a signal

mainVars == <<main, object, i, held, made, handle, threadRunCount, locked, early>>
threadVars == <<program, mainVars, pc, isRuning>>

Thread == 0 .. ThreadCount - 1
Places == {"shared", "objects", "threads", "handle", "create", "lock", "blocked",
           "woken", "check", "running", "fails", "join", "free",
           "freed", "crashed", "hung"}

\* part05 has a condition variable of its own for the handshake.
ObjectAfter ==
  [mutex |-> "cond", cond |-> IF program = "part05" THEN "condStart" ELSE "none",
   condStart |-> "none"]

ThreadsInit ==
  /\ program \in {"part05", "ddostools"}
  /\ main = "shared"
  /\ object = "mutex"
  /\ i = 0
  /\ held = {} /\ made = {}
  /\ handle = [t \in Thread |-> "null"]
  /\ pc = [t \in Thread |-> "none"]
  /\ isRuning = TRUE
  /\ threadRunCount = 0
  /\ locked = FALSE /\ early = FALSE

\* Neither program is run.
ThreadsIdle ==
  /\ program = "none" /\ main = "freed" /\ object = "none"
  /\ i = 0 /\ threadRunCount = 0
  /\ held = {} /\ made = {}
  /\ handle = [t \in Thread |-> "null"]
  /\ pc = [t \in Thread |-> "none"]
  /\ isRuning = FALSE /\ locked = FALSE /\ early = FALSE

MainStep(from, to) == main = from /\ main' = to
Unmoved == UNCHANGED <<program, object, held, made, pc, early>>

-----------------------------------------------------------------------------
(***************************************************************************)
(* kcGenerateShared and kcFreeShared                                       *)
(***************************************************************************)
MakeShared ==
  /\ \/ MainStep("shared", "objects")
     \/ "shared" \in ThreadFaults /\ MainStep("shared", "freed")
  /\ UNCHANGED <<program, object, i, held, made, handle, threadRunCount, locked, early, pc, isRuning>>

MakeObject ==
  /\ main = "objects"
  /\ \/ /\ object # "none"
        /\ \/ /\ held' = held \cup {object} /\ made' = made \cup {object}
              /\ object' = ObjectAfter[object]
              /\ UNCHANGED main
           \/ /\ "init" \in ThreadFaults
              /\ held' = held \cup {object}
              /\ main' = "free"
              /\ UNCHANGED <<made, object>>
           \/ /\ "memory" \in ThreadFaults
              /\ main' = "free"
              /\ UNCHANGED <<held, made, object>>
     \/ /\ object = "none"
        /\ main' = "threads"
        /\ UNCHANGED <<held, made, object>>
  /\ UNCHANGED <<program, i, handle, threadRunCount, locked, early, pc, isRuning>>

\* Mutant: what failed to initialise is not freed.
FreeShared_OnlyMade ==
  /\ MainStep("free", "freed")
  /\ held' = held \ made
  /\ made' = {}
  /\ UNCHANGED <<program, object, i, handle, threadRunCount, locked, early, pc, isRuning>>

\* Destroys what flag says is initialised, frees what is not NULL.
FreeShared ==
  /\ MainStep("free", "freed")
  /\ held' = {}
  /\ made' = {}
  /\ UNCHANGED <<program, object, i, handle, threadRunCount, locked, early, pc, isRuning>>

-----------------------------------------------------------------------------
(***************************************************************************)
(* kcStartThread                                                           *)
(***************************************************************************)
MakeHandles ==
  /\ \/ MainStep("threads", "handle")
     \/ "threads" \in ThreadFaults /\ MainStep("threads", "free")
  /\ Unmoved /\ UNCHANGED <<i, handle, threadRunCount, locked, isRuning>>

MakeHandle ==
  /\ \/ /\ i < ThreadCount
        /\ MainStep("handle", "create")
        /\ handle' = [handle EXCEPT ![i] = "unfilled"]
     \/ /\ i < ThreadCount
        /\ "handle" \in ThreadFaults
        /\ MainStep("handle", "fails")
        /\ UNCHANGED handle
     \/ /\ i = ThreadCount
        /\ MainStep("handle", "check")
        /\ UNCHANGED handle
  /\ Unmoved /\ UNCHANGED <<i, threadRunCount, locked, isRuning>>

CreateThread ==
  /\ \/ /\ MainStep("create", "lock")
        /\ handle' = [handle EXCEPT ![i] = "filled"]
        /\ pc' = [pc EXCEPT ![i] = "begin"]
     \/ /\ "create" \in ThreadFaults
        /\ MainStep("create", "fails")
        /\ UNCHANGED <<handle, pc>>
  /\ UNCHANGED <<program, object, i, held, made, threadRunCount, locked, early, isRuning>>

\* Mutant: main goes on without waiting for the thread.
Await_Not ==
  /\ MainStep("lock", "woken")
  /\ Unmoved /\ UNCHANGED <<i, handle, threadRunCount, locked, isRuning>>

\* Locks the mutex and waits; a signal that has gone before is lost.
Await ==
  /\ MainStep("lock", "blocked")
  /\ Unmoved /\ UNCHANGED <<i, handle, threadRunCount, locked, isRuning>>

\* The wait returns although nobody has signalled.
MainSpuriousWakeup ==
  /\ "spurious" \in ThreadFaults
  /\ MainStep("blocked", "woken")
  /\ early' = TRUE
  /\ UNCHANGED <<program, object, i, held, made, handle, threadRunCount, locked, pc, isRuning>>

\* Mutant: the thread is counted, and the loop counter forgotten.
Started_Again ==
  /\ main = "woken"
  /\ main' = "handle"
  /\ threadRunCount' = threadRunCount + 1
  /\ Unmoved /\ UNCHANGED <<i, handle, locked, isRuning>>

\* A thread that could not start has set isRuning to false: main leaves for
\* the error label with the mutex locked.
Started ==
  /\ main = "woken"
  /\ IF isRuning
     THEN /\ main' = "handle"
          /\ i' = i + 1
          /\ threadRunCount' = threadRunCount + 1
          /\ UNCHANGED locked
     ELSE /\ main' = "fails"
          /\ locked' = TRUE
          /\ UNCHANGED <<i, threadRunCount>>
  /\ Unmoved /\ UNCHANGED <<handle, isRuning>>

CheckCount ==
  /\ IF threadRunCount = ThreadCount
     THEN MainStep("check", "running") /\ UNCHANGED locked
     ELSE MainStep("check", "fails") /\ locked' = TRUE
  /\ Unmoved /\ UNCHANGED <<i, handle, threadRunCount, isRuning>>

\* Wakes whoever waits; those have to take the mutex again.
Broadcast == pc' = [t \in Thread |-> IF pc[t] = "wait" THEN "woken" ELSE pc[t]]

\* Mutant: part05 does not tell its threads to end.
StartFails_Quiet ==
  /\ MainStep("fails", "join")
  /\ program = "part05" => ~locked
  /\ UNCHANGED <<pc, isRuning>>
  /\ i' = 0
  /\ UNCHANGED <<program, object, held, made, handle, threadRunCount, locked, early>>

\* part05 calls kcStopThread, which takes the mutex; ddostools only joins.
StartFails ==
  /\ MainStep("fails", "join")
  /\ \/ /\ program = "part05"
        /\ ~locked
        /\ isRuning' = FALSE
        /\ Broadcast
     \/ program = "ddostools" /\ UNCHANGED <<pc, isRuning>>
  /\ i' = 0
  /\ UNCHANGED <<program, object, held, made, handle, threadRunCount, locked, early>>

-----------------------------------------------------------------------------
(***************************************************************************)
(* The operator's ESC, kcStopThread and kcFreeThreads                      *)
(***************************************************************************)
StopThread ==
  /\ MainStep("running", "join")
  /\ isRuning' = FALSE
  /\ IF program = "part05" THEN Broadcast ELSE UNCHANGED pc
  /\ i' = 0
  /\ UNCHANGED <<program, object, held, made, handle, threadRunCount, locked, early>>

\* threadRunCount = ThreadCount only if Start has succeeded.
Joins == IF program = "ddostools" /\ threadRunCount < ThreadCount THEN JoinMax ELSE ThreadCount

JoinAndFree ==
  /\ handle[i] = "filled" => pc[i] = "ended"
  /\ handle' = [handle EXCEPT ![i] = "null"]
  /\ i' = i + 1

\* Mutant: the last thread is not joined.
JoinThread_ButLast ==
  /\ main = "join"
  /\ IF i < Joins - 1
     THEN JoinAndFree /\ UNCHANGED main
     ELSE main' = "free" /\ UNCHANGED <<i, handle>>
  /\ Unmoved /\ UNCHANGED <<threadRunCount, locked, isRuning>>

\* The array goes with the last join, and with it the way to the handles that
\* are left.  Joining what pthread_create has not filled in fails at once, ends
\* the program, or never returns.
JoinThread ==
  /\ main = "join"
  /\ IF i < Joins
     THEN /\ JoinAndFree
          /\ main' \in IF handle[i] = "unfilled" THEN {"join", "crashed", "hung"} ELSE {"join"}
     ELSE main' = "free" /\ UNCHANGED <<i, handle>>
  /\ Unmoved /\ UNCHANGED <<threadRunCount, locked, isRuning>>

-----------------------------------------------------------------------------
(***************************************************************************)
(* kcThreadVoid                                                            *)
(***************************************************************************)
Notify == main' = IF main = "blocked" THEN "woken" ELSE main
ThreadStep(t, from, to) == pc[t] = from /\ ~locked /\ pc' = [pc EXCEPT ![t] = to]
MainStays == UNCHANGED <<program, object, i, held, made, handle, threadRunCount, locked, early>>

ThreadBegin(t) ==
  /\ ThreadStep(t, "begin", "loop")
  /\ Notify
  /\ MainStays /\ UNCHANGED isRuning

\* Mutant: the thread that cannot make its socket does not say so.
ThreadFails_Silent(t) ==
  /\ program = "ddostools" /\ "socket" \in ThreadFaults
  /\ ThreadStep(t, "begin", "ended")
  /\ Notify
  /\ MainStays /\ UNCHANGED isRuning

\* kcGenerateSocket has failed.
ThreadFails(t) ==
  /\ program = "ddostools" /\ "socket" \in ThreadFaults
  /\ ThreadStep(t, "begin", "ended")
  /\ isRuning' = FALSE
  /\ Notify
  /\ MainStays

\* part05: pthread_cond_wait first, isRuning afterwards.
ThreadWaits(t) ==
  /\ program = "part05"
  /\ ThreadStep(t, "loop", "wait")
  /\ MainStays /\ UNCHANGED <<main, isRuning>>

ThreadWoken(t) ==
  /\ ThreadStep(t, "woken", IF isRuning THEN "loop" ELSE "ended")
  /\ MainStays /\ UNCHANGED <<main, isRuning>>

ThreadSpuriousWakeup(t) ==
  /\ "spurious" \in ThreadFaults
  /\ ThreadStep(t, "wait", "woken")
  /\ MainStays /\ UNCHANGED <<main, isRuning>>

\* ddostools: sendto and recvfrom, which time out, and isRuning afterwards.
ThreadSends(t) ==
  /\ program = "ddostools"
  /\ ThreadStep(t, "loop", IF isRuning THEN "loop" ELSE "ended")
  /\ MainStays /\ UNCHANGED <<main, isRuning>>

ThreadNext(t) ==
  ThreadBegin(t) \/ ThreadFails(t) \/ ThreadWaits(t) \/ ThreadWoken(t) \/ ThreadSends(t)

MainNext ==
  \/ MakeShared \/ MakeObject \/ FreeShared
  \/ MakeHandles \/ MakeHandle \/ CreateThread \/ Await \/ Started \/ CheckCount \/ StartFails
  \/ JoinThread

ThreadsNext ==
  \/ MainNext \/ MainSpuriousWakeup \/ StopThread
  \/ \E t \in Thread : ThreadNext(t) \/ ThreadSpuriousWakeup(t)

ThreadsSpec == ThreadsInit /\ [][ThreadsNext]_threadVars

\* The operating system schedules every thread; the operator need not stop, and
\* nothing need wake without a signal.
ThreadsFairness ==
  WF_threadVars(MainNext) /\ \A t \in Thread : WF_threadVars(ThreadNext(t))

-----------------------------------------------------------------------------
ThreadsTypeOK ==
  /\ program \in {"none", "part05", "ddostools"}
  /\ main \in Places
  /\ object \in {"mutex", "cond", "condStart", "none"}
  /\ i \in 0 .. ThreadCount
  /\ made \subseteq held /\ held \subseteq {"mutex", "cond", "condStart"}
  /\ handle \in [Thread -> {"null", "unfilled", "filled"}]
  /\ pc \in [Thread -> {"none", "begin", "loop", "wait", "woken", "ended"}]
  /\ isRuning \in BOOLEAN /\ locked \in BOOLEAN /\ early \in BOOLEAN
  /\ threadRunCount \in 0 .. ThreadCount

Alive(t) == pc[t] \notin {"none", "ended"}

\* Start reports success only when it has created every thread and, unless a wait
\* has returned without a signal, each has got through its own start: main is then
\* woken by the thread it waits for and by no other, and none has ended.
SuccessMeansStarted ==
  main = "running" => \A t \in Thread :
    /\ pc[t] # "none"
    /\ ~early => pc[t] \in {"loop", "wait", "woken"}

\* The error path of ddostools joins JoinMax threads, however many there are.
NeverJoined ==
  IF program = "ddostools" /\ threadRunCount < ThreadCount THEN JoinMax .. threadRunCount ELSE {}

\* The program ends with no object, no handle and no thread left, but for one
\* gap: what ddostools never joins keeps its handle and, if it is alive, needs
\* the mutex that has been freed.  It can be alive only because main has kept
\* that mutex, or has gone on without a signal.
ThreadsLeaveNothing ==
  main = "freed" =>
    /\ held = {}
    /\ \A t \in Thread : Alive(t) \/ handle[t] # "null" => t \in NeverJoined
    /\ \A t \in Thread : Alive(t) => locked \/ early

\* The new thread has signalled before main began to wait.
SignalMissed == main = "blocked" /\ pc[i] \notin {"none", "begin"}

\* A thread of part05 went to sleep after the broadcast.
BroadcastMissed == main = "join" /\ ~isRuning /\ \E t \in Thread : pc[t] = "wait"

\* main joins threads of ddostools that need the mutex it has kept, or that
\* nobody has told to end.
NeverTold ==
  program = "ddostools" /\ main = "join" /\ (locked \/ isRuning) /\ \E t \in Thread : Alive(t)

\* A program that is not running goes on until it runs or has ended, except in
\* these gaps and when it joins a thread that does not exist.
ThreadsProceed ==
  main # "running" ~>
    \/ main \in {"running", "freed", "crashed", "hung"}
    \/ SignalMissed \/ BroadcastMissed \/ NeverTold
=============================================================================
