--------------------------- MODULE ServerLifecycle ---------------------------
(***************************************************************************)
(* What kcUdpBackedThreadStart acquires, step by step, and what            *)
(* kcUdpBackedThreadStop, kcSharedFree, kcQueueFree and kcThreadWorksFree  *)
(* release, whichever step fails (UdpServer/KcUdpBackedThreadsHead.c and   *)
(* consoleRuning in UdpServer/main.c).                                     *)
(*                                                                         *)
(* The handshake of main with a new thread and the threads' own work are   *)
(* in UdpServer; here a thread is only alive or not, and the two ways in   *)
(* which UdpServer shows that waiting may never end are choices: main may  *)
(* miss a new thread's signal, a thread may miss Stop's broadcast.  No     *)
(* wakeup is spurious.                                                     *)
(***************************************************************************)
EXTENDS Integers, TLC

CONSTANTS
  QueueMax,    \* config->queue_max
  PoolSize,    \* config->threadPoolSize
  CounterMod,  \* number of values of the uint8_t loop counter: 256
  MaxThreads,  \* bound: workers a run may create, for pools of CounterMod or more
  Faults       \* the acquisitions that may fail

ASSUME SizeAssumption ==
  /\ {QueueMax, PoolSize, CounterMod, MaxThreads} \subseteq Nat \ {0}

VARIABLES
  pc,         \* where main is
  rc,         \* what Start returns, once that is certain
  held,       \* the resources that exist and are initialised
  raw,        \* synchronisation objects with memory but not initialised
  isRuning,
  item,       \* what each slot has: nothing, its buffer, also its socket
  i,          \* loop counter of kcQueueCreate and kcThreadWorksCreate
  handle,     \* *threadRecv and *threadWorks[k]: a thread, NoHandle or Garbage
  created,    \* workers created so far; they are numbered in that order
  alive,      \* threads that run
  stuck,      \* those that sleep for ever
  stdin       \* descriptor 0 is open

vars == <<pc, rc, held, raw, isRuning, item, i, handle, created, alive, stuck,
          stdin>>

Item     == 1..QueueMax
Receiver == 0                 \* as a thread
RecvIdx  == -1                \* as an index of handle
Index    == 0..PoolSize       \* threadWorks has one entry more than workers
NoHandle == -1
Garbage  == -2

\* The order in which Start makes what is not a thread.
Following ==
  [shared |-> "mutex", mutex |-> "cond", cond |-> "condStart",
   condStart |-> "rwlock", rwlock |-> "plugins", plugins |-> "items",
   items |-> "item"]
Object == {"mutex", "cond", "condStart", "rwlock"}

\* What Stop locks and broadcasts, without looking.
Signalled == {"mutex", "cond", "condStart"}

Init ==
  /\ pc = "shared"
  /\ rc = "none"
  /\ held = {}
  /\ raw = {}
  /\ isRuning = TRUE
  /\ item = [s \in Item |-> "empty"]
  /\ i = 0
  /\ handle = [k \in Index \cup {RecvIdx} |-> NoHandle]
  /\ created = 0
  /\ alive = {}
  /\ stuck = {}
  /\ stdin = TRUE

\* KC_ERROR_CLEAR of kcUdpBackedThreadStart.
StartFails == pc' = "stop" /\ rc' = "KC_FAIL"

-----------------------------------------------------------------------------
(***************************************************************************)
(* Start.                                                                  *)
(***************************************************************************)
Acquire(r) ==
  /\ pc = r
  /\ held' = held \cup {r}
  /\ pc' = Following[r]
  /\ UNCHANGED <<rc, raw, isRuning, item, i, handle, created, alive, stuck, stdin>>

\* A synchronisation object fails at its malloc or at its _init function.
AcquireFails(r) ==
  /\ pc = r
  /\ r \in Faults
  /\ raw' \in {raw} \cup {raw \cup ({r} \cap Object)}
  /\ StartFails
  /\ UNCHANGED <<held, isRuning, item, i, handle, created, alive, stuck, stdin>>

\* Mutant: the loop runs once too often.
MakeItem_OffByOne ==
  /\ pc = "item"
  /\ i <= QueueMax
  /\ item' = (i + 1 :> "open") @@ item
  /\ i' = i + 1
  /\ UNCHANGED <<pc, rc, held, raw, isRuning, handle, created, alive, stuck, stdin>>

\* One turn of kcQueueCreate's loop.
MakeItem ==
  /\ pc = "item"
  /\ i < QueueMax
  /\ item' = [item EXCEPT ![i + 1] = "open"]
  /\ i' = i + 1
  /\ UNCHANGED <<pc, rc, held, raw, isRuning, handle, created, alive, stuck, stdin>>

\* No memory for the buffer, or no raw socket; sockRaw keeps calloc's 0.
MakeItemFails ==
  /\ pc = "item"
  /\ i < QueueMax
  /\ \/ "buffer" \in Faults /\ UNCHANGED item
     \/ "socket" \in Faults /\ item' = [item EXCEPT ![i + 1] = "buffer"]
  /\ pc' = "queueFree"
  /\ UNCHANGED <<rc, held, raw, isRuning, i, handle, created, alive, stuck, stdin>>

\* kcQueueFree: every socket but -1 is closed, descriptor 0 too.
QueueFree ==
  IF "items" \in held
  THEN /\ item' = [s \in Item |-> "freed"]
       /\ stdin' = (stdin /\ \A s \in Item : item[s] = "open")
  ELSE UNCHANGED <<item, stdin>>

\* Mutant: the error path of kcQueueCreate frees the array only.
QueueFails_ArrayOnly ==
  /\ pc = "queueFree"
  /\ held' = held \ {"items"}
  /\ StartFails
  /\ UNCHANGED <<raw, isRuning, item, i, handle, created, alive, stuck, stdin>>

QueueFails ==
  /\ pc = "queueFree"
  /\ QueueFree
  /\ held' = held \ {"items"}
  /\ StartFails
  /\ UNCHANGED <<raw, isRuning, i, handle, created, alive, stuck>>

MakeWorks ==
  /\ pc = "item"
  /\ i = QueueMax
  /\ \/ held' = held \cup {"works"} /\ i' = 0 /\ pc' = "work"
     \/ "works" \in Faults /\ pc' = "worksStop" /\ UNCHANGED <<held, i, stuck>>
  /\ UNCHANGED <<rc, raw, isRuning, item, handle, created, alive, stuck, stdin>>

\* One turn of kcThreadWorksCreate's loop.  The counter is a uint8_t, so a
\* pool of CounterMod or more overwrites the first entries and goes on.
\* A worker that signals before main waits is waited for in vain.
MakeWork ==
  /\ pc = "work"
  /\ i < PoolSize
  /\ created < MaxThreads
  /\ handle' = [handle EXCEPT ![i] = created + 1]
  /\ created' = created + 1
  /\ alive' = alive \cup {created + 1}
  /\ i' = (i + 1) % CounterMod
  /\ pc' \in {"work", "hung"}
  /\ UNCHANGED <<rc, held, raw, isRuning, item, stuck, stdin>>

\* After a failed pthread_create the handle's memory keeps what it held.
MakeWorkFails ==
  /\ pc = "work"
  /\ i < PoolSize
  /\ \/ "handle" \in Faults /\ handle' = [handle EXCEPT ![i] = NoHandle]
     \/ "create" \in Faults /\ handle' = [handle EXCEPT ![i] = Garbage]
  /\ pc' = "worksStop"
  /\ UNCHANGED <<rc, held, raw, isRuning, item, i, created, alive, stuck, stdin>>

\* Mutant: the error path forgets to tell the workers.
WorksStop_KeepsRuning ==
  /\ pc = "worksStop"
  /\ pc' = "worksJoin"
  /\ UNCHANGED <<rc, held, raw, isRuning, item, i, handle, created, alive, stuck, stdin>>

\* KC_ERROR_CLEAR of kcThreadWorksCreate.
WorksStop ==
  /\ pc = "worksStop"
  /\ isRuning' = FALSE
  /\ pc' = "worksJoin"
  /\ UNCHANGED <<rc, held, raw, item, i, handle, created, alive, stuck, stdin>>

MakeReceiver ==
  /\ pc = "work"
  /\ i >= PoolSize
  /\ handle' = [handle EXCEPT ![RecvIdx] = Receiver]
  /\ alive' = alive \cup {Receiver}
  /\ \/ pc' = "running" /\ rc' = "KC_OK"
     \/ pc' = "hung" /\ UNCHANGED rc
  /\ UNCHANGED <<held, raw, isRuning, item, i, created, stuck, stdin>>

\* No memory for the handle, no thread, or a receiver that has cleared
\* isRuning and ended because it cannot listen.
MakeReceiverFails ==
  /\ pc = "work"
  /\ i >= PoolSize
  /\ \/ "recvHandle" \in Faults /\ StartFails /\ UNCHANGED <<handle, isRuning>>
     \/ /\ "recvCreate" \in Faults
        /\ handle' = [handle EXCEPT ![RecvIdx] = Garbage]
        /\ StartFails
        /\ UNCHANGED isRuning
     \/ /\ "bind" \in Faults
        /\ handle' = [handle EXCEPT ![RecvIdx] = Receiver]
        /\ isRuning' = FALSE
        /\ StartFails \/ (pc' = "hung" /\ UNCHANGED rc)
  /\ UNCHANGED <<held, raw, item, i, created, alive, stuck, stdin>>

-----------------------------------------------------------------------------
\* A thread ends some time after it has been told to ...
ThreadEnds(t) ==
  /\ ~isRuning
  /\ t \in alive \ stuck
  /\ alive' = alive \ {t}
  /\ UNCHANGED <<pc, rc, held, raw, isRuning, item, i, handle, created, stuck, stdin>>

\* ... or goes to sleep after the broadcast that was to tell it.
ThreadSticks(t) ==
  /\ ~isRuning
  /\ t \in alive \ stuck
  /\ stuck' = stuck \cup {t}
  /\ UNCHANGED <<pc, rc, held, raw, isRuning, item, i, handle, created, alive, stdin>>

(***************************************************************************)
(* Stop.  A call on a null pointer crashes the program; one on memory that *)
(* was never initialised crashes it, never returns, or is survived.        *)
(***************************************************************************)
Escape ==
  /\ pc = "running"
  /\ pc' = "stop"
  /\ UNCHANGED <<rc, held, raw, isRuning, item, i, handle, created, alive, stuck, stdin>>

\* After a failed Start, consoleRuning calls Stop once more.
Return == pc' = IF rc = "KC_FAIL" THEN "stopAgain" ELSE "ended"

\* Mutant: Stop only sends its datagram.
Stop_KeepsRuning ==
  /\ pc = "stop"
  /\ IF "shared" \in held THEN pc' = "joinRecv" ELSE Return
  /\ UNCHANGED <<rc, held, raw, isRuning, item, i, handle, created, alive, stuck, stdin>>

\* Stop locks and broadcasts what global_shared points to.  Of the objects
\* after the one that failed every pointer is null, so only a raw condStart is
\* survived.
Stop ==
  /\ pc = "stop"
  /\ \/ "shared" \notin held /\ Return /\ UNCHANGED isRuning
     \/ /\ "shared" \in held
        /\ Signalled \subseteq held \cup raw
        /\ isRuning' = FALSE
        /\ pc' = "joinRecv"
     \/ /\ "shared" \in held
        /\ ~(Signalled \subseteq held)
        /\ pc' \in {"crashed"} \cup {"hung" : r \in raw \cap {"mutex", "condStart"}}
        /\ UNCHANGED isRuning
  /\ UNCHANGED <<rc, held, raw, item, i, handle, created, alive, stuck, stdin>>

StopAgain ==
  /\ pc = "stopAgain"
  /\ pc' = IF "shared" \in held THEN "crashed" ELSE "ended"
  /\ UNCHANGED <<rc, held, raw, isRuning, item, i, handle, created, alive, stuck, stdin>>

\* pthread_join on the handles at indices ks, which are then freed.
Join(ks, label) ==
  /\ \A k \in ks : handle[k] \notin alive
  /\ \/ /\ handle' = [k \in DOMAIN handle |-> IF k \in ks THEN NoHandle ELSE handle[k]]
        /\ pc' = label
     \/ /\ \E k \in ks : handle[k] = Garbage
        /\ pc' \in {"crashed", "hung"}
        /\ UNCHANGED handle

JoinReceiver ==
  /\ pc = "joinRecv"
  /\ Join({RecvIdx}, "joinWorks")
  /\ UNCHANGED <<rc, held, raw, isRuning, item, i, created, alive, stuck, stdin>>

\* Mutant: the first worker is not waited for.
Joined_SkipsFirst == {k \in Index : k > 0 /\ \A j \in 0..k : handle[j] # NoHandle}

\* kcThreadWorksFree joins the entries before the first NULL.
Joined == {k \in Index : \A j \in 0..k : handle[j] # NoHandle}

\* kcThreadWorksFree, in kcSharedFree and in kcThreadWorksCreate's error path.
JoinWorks ==
  /\ \/ pc = "joinWorks" /\ Join(Joined, "release") /\ UNCHANGED rc
     \/ pc = "worksJoin" /\ Join(Joined, "stop") /\ rc' = "KC_FAIL"
  /\ held' = held \ {"works"}
  /\ UNCHANGED <<raw, isRuning, item, i, created, alive, stuck, stdin>>

\* The rest of kcSharedFree: items, plugins, the four objects, shared.
Release ==
  /\ pc = "release"
  /\ QueueFree
  /\ held' = {}
  /\ raw' = {}
  /\ Return
  /\ UNCHANGED <<rc, isRuning, i, handle, created, alive, stuck>>

-----------------------------------------------------------------------------
MainStep ==
  \/ \E r \in DOMAIN Following : Acquire(r) \/ AcquireFails(r)
  \/ MakeItem \/ MakeItemFails \/ QueueFails
  \/ MakeWorks \/ MakeWork \/ MakeWorkFails \/ WorksStop
  \/ MakeReceiver \/ MakeReceiverFails
  \/ Stop \/ JoinReceiver \/ JoinWorks \/ Release \/ StopAgain

Next ==
  \/ MainStep
  \/ Escape
  \/ \E t \in 0..MaxThreads : ThreadEnds(t) \/ ThreadSticks(t)

Spec == Init /\ [][Next]_vars

\* Main and the threads are scheduled; the operator need not press ESC.  A
\* thread that has been told to stop ends, unless it sleeps for ever.
FairSpec ==
  /\ Spec
  /\ WF_vars(MainStep)
  /\ \A t \in 0..MaxThreads : WF_vars(ThreadEnds(t))

-----------------------------------------------------------------------------
\* Every variable keeps its type.
TypeOK ==
  /\ pc \in DOMAIN Following \cup
       {"item", "queueFree", "work", "worksStop", "worksJoin", "running",
        "stop", "joinRecv", "joinWorks", "release", "stopAgain", "ended",
        "crashed", "hung"}
  /\ rc \in {"none", "KC_OK", "KC_FAIL"}
  /\ held \subseteq DOMAIN Following \cup {"works"}
  /\ raw \subseteq Object
  /\ isRuning \in BOOLEAN /\ stdin \in BOOLEAN
  /\ item \in [Item -> {"empty", "buffer", "open", "freed"}]
  /\ i \in 0..QueueMax \cup Index
  /\ created \in 0..MaxThreads
  /\ alive \subseteq 0..created /\ stuck \subseteq alive
  /\ handle \in [Index \cup {RecvIdx} -> 0..created \cup {NoHandle, Garbage}]

\* As long as any thread runs, all that threads use exists: no step of Start
\* makes a thread too early, no path through Stop frees anything too early.
ThreadsHaveResources ==
  alive # {} =>
    /\ DOMAIN Following \subseteq held
    /\ \A s \in Item : item[s] = "open"

\* Start reports success only if the receiver and as many workers as
\* configured run, each with a handle by which Stop can join it.
SuccessMeansRunning ==
  pc = "running" =>
    /\ isRuning
    /\ alive = 0..PoolSize
    /\ alive \subseteq {handle[k] : k \in Joined \cup {RecvIdx}}

\* What runs is whole: kcUdpBackedThreadStart promises no more than it has
\* made, and kcUdpBackedThreadStop takes nothing from a thread that runs.
RunsWhole == ThreadsHaveResources /\ SuccessMeansRunning

\* When Start and Stop have returned nothing is left behind: no thread, no
\* handle, no object, no buffer, no socket; and nothing else has been released,
\* but for descriptor 0 when a raw socket could not be made.  They return or
\* not: after a failed mutex, cond or condStart, and after a pthread_create
\* that failed, the program may crash; after no other failure does it.
NothingLeft ==
  /\ pc \in {"stopAgain", "ended"} =>
       /\ alive = {} /\ held = {} /\ raw = {}
       /\ \A k \in DOMAIN handle : handle[k] = NoHandle
       /\ \A s \in Item : item[s] \in {"empty", "freed"}
       /\ stdin \/ (i < QueueMax /\ created = 0)
  /\ pc = "crashed" =>
       \/ ~(Signalled \subseteq held)
       \/ \E k \in DOMAIN handle : handle[k] = Garbage

\* Main never goes on: it waits for a signal that came before, it is inside a
\* call on an object that was never initialised, or it joins a thread that
\* sleeps for ever.
MainHangs ==
  \/ pc = "hung"
  \/ pc = "joinRecv" /\ handle[RecvIdx] \in stuck
  \/ pc \in {"joinWorks", "worksJoin"} /\ \E k \in Joined : handle[k] \in stuck

\* Start comes to an end, whichever step failed: no error path leaves main
\* joining a thread that has not been told to stop.
StartReturns == pc = "shared" ~> pc \in {"running", "ended", "crashed"} \/ MainHangs

\* So does a stop, whatever Start had made by then.
StopReturns == pc = "stop" ~> pc \in {"ended", "crashed"} \/ MainHangs

\* Main waits for ever in kcUdpBackedThreadStart or kcUdpBackedThreadStop only
\* in the ways MainHangs names, whichever step failed.
LifeEnds == StartReturns /\ StopReturns
=============================================================================
