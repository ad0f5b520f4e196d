--------------------------- MODULE BackendThreads ---------------------------
(***************************************************************************)
(* The receiver thread and the worker threads of the UDP server            *)
(* (UdpServer/KcUdpBackedThreads.c).                                       *)
(*                                                                         *)
(* The receiver claims a free slot of a fixed array, fills it from the     *)
(* socket and marks it received; a worker claims a received slot, hands it *)
(* to a plugin and marks it free.  All threads share one mutex and one     *)
(* condition variable, cond: the receiver sleeps on it when no slot is     *)
(* free, a worker when no slot is received.  The main thread, which starts *)
(* and stops the others, sleeps on a second one, condStart.                *)
(*                                                                         *)
(* A critical section touches nothing but memory, so it is one atomic      *)
(* step.  pthread_cond_wait ends one step (label "wait": mutex released,   *)
(* thread asleep) and begins another (label "woken": the wait has been     *)
(* ended by somebody and the thread is about to own the mutex again).      *)
(* What a thread does outside the mutex is a step of its own.              *)
(***************************************************************************)
EXTENDS Naturals, FiniteSets

CONSTANTS
  QueueMax,   \* config->queue_max: number of slots
  PoolSize,   \* config->threadPoolSize: number of worker threads
  InboxMax,   \* datagrams the socket's receive buffer holds (SO_RCVBUF)
  Datagram,   \* the datagrams that peers may send
  StopByte,   \* the one-byte datagram kcUdpBackedThreadStop sends
  NoData,     \* content of a buffer that was never filled, or was reset
  Faults      \* what the environment may do wrong in this instance

ASSUME QueueMaxAssumption == QueueMax \in Nat \ {0}

\* kcThreadWorksCreate counts the workers in a uint8_t.
ASSUME PoolSizeAssumption == PoolSize \in 1..255

ASSUME DatagramAssumption ==
  /\ StopByte \notin Datagram
  /\ NoData \notin Datagram \cup {StopByte}

Recv   == 0
Worker == 1..PoolSize
Thread == 0..PoolSize
Slot   == 1..QueueMax
NoSlot == 0

(***************************************************************************)
(* The slot flags of KcPlugins.h.  A flag only ever gains one bit at a     *)
(* time or is reset to NORMAL.                                             *)
(***************************************************************************)
NORMAL        == 0
RECV_BEGIN    == 1
RECV_AFTER    == 2
RECV_COMPLETE == RECV_BEGIN + RECV_AFTER
PROCESS       == 4
COMPLETE      == RECV_BEGIN + RECV_AFTER + PROCESS
FlagValue     == {NORMAL, RECV_BEGIN, RECV_COMPLETE, COMPLETE}

\* f |= bit
SetBit(f, bit) == IF (f \div bit) % 2 = 1 THEN f ELSE f + bit

VARIABLES
  isRuning,       \* shared->isRuning
  flag,           \* flag of every slot
  buf,            \* what the receive buffer of every slot holds
  item,           \* backendItem of every thread: the slot it works on
  pc,             \* where every thread is
  main,           \* where the main thread is
  threadRunCount, \* shared->threadRunCount
  inbox,          \* datagrams in the socket's receive buffer
  sent,           \* datagrams that have arrived so far
  processed       \* datagrams whose plugin call has returned

vars == <<isRuning, flag, buf, item, pc, main, threadRunCount,
          inbox, sent, processed>>

mainVars    == <<main, threadRunCount>>
networkVars == <<inbox, sent>>

-----------------------------------------------------------------------------
(***************************************************************************)
(* Threads and condition variables.                                        *)
(***************************************************************************)
Goto(t, label) == pc' = [pc EXCEPT ![t] = label]

\* The threads asleep on cond.
Waiting == {t \in Thread : pc[t] = "wait"}

\* pthread_cond_signal(cond) by thread t: some sleeper is woken, if any.
SignalCond(t, label) ==
  \/ \E u \in Waiting : pc' = [pc EXCEPT ![t] = label, ![u] = "woken"]
  \/ Waiting = {} /\ Goto(t, label)

\* pthread_cond_signal(condStart): nothing is remembered when main is not
\* asleep on it.
SignalStart == main' = IF main = "blocked" THEN "awake" ELSE main

\* The slot a scan of the array finds: the first one whose flag is f.
First(f) == {s \in Slot : flag[s] = f /\ \A r \in 1..(s - 1) : flag[r] # f}

-----------------------------------------------------------------------------
(***************************************************************************)
(* The receiver: kcUdpBackendThreadRecv and kcUdpEnqueue.                  *)
(***************************************************************************)

\* The thread returns and the socket is closed; what was queued in it is lost.
RecvExit == Goto(Recv, "done") /\ inbox' = {}

\* kcGenerateRevcSocket succeeds.
RecvOpen ==
  /\ pc[Recv] = "init"
  /\ Goto(Recv, "notify")
  /\ UNCHANGED <<isRuning, flag, buf, item, mainVars, networkVars, processed>>

\* kcGenerateRevcSocket fails (socket, setsockopt or bind).
RecvOpenFails ==
  /\ "bind" \in Faults
  /\ pc[Recv] = "init"
  /\ Goto(Recv, "abort")
  /\ UNCHANGED <<isRuning, flag, buf, item, mainVars, networkVars, processed>>

\* Mutant: the error path forgets isRuning = 0.
RecvAbort_KeepsRuning ==
  /\ pc[Recv] = "abort"
  /\ SignalStart
  /\ RecvExit
  /\ UNCHANGED <<isRuning, flag, buf, item, threadRunCount, sent, processed>>

\* The error path: the server is marked stopped, sleepers on cond stay asleep.
RecvAbort ==
  /\ pc[Recv] = "abort"
  /\ isRuning' = FALSE
  /\ SignalStart
  /\ RecvExit
  /\ UNCHANGED <<flag, buf, item, threadRunCount, sent, processed>>

RecvNotify ==
  /\ pc[Recv] = "notify"
  /\ SignalStart
  /\ Goto(Recv, "enqueue")
  /\ UNCHANGED <<isRuning, flag, buf, item, threadRunCount, networkVars,
                 processed>>

\* Mutant: a received slot that no worker has claimed counts as free.
ScanForFree_Overwrites ==
  \/ \E s \in First(NORMAL) \cup First(RECV_COMPLETE) :
       /\ flag' = [flag EXCEPT ![s] = SetBit(@, RECV_BEGIN)]
       /\ item' = [item EXCEPT ![Recv] = s]
       /\ Goto(Recv, "check")
  \/ /\ First(NORMAL) = {}
     /\ Goto(Recv, "wait")
     /\ UNCHANGED <<flag, item>>

\* One pass of kcUdpEnqueue's loop under the mutex.
ScanForFree ==
  \/ \E s \in First(NORMAL) :
       /\ flag' = [flag EXCEPT ![s] = SetBit(@, RECV_BEGIN)]
       /\ item' = [item EXCEPT ![Recv] = s]
       /\ Goto(Recv, "check")
  \/ /\ First(NORMAL) = {}
     /\ Goto(Recv, "wait")
     /\ UNCHANGED <<flag, item>>

RecvEnqueue ==
  /\ pc[Recv] = "enqueue"
  /\ ScanForFree
  /\ UNCHANGED <<isRuning, buf, mainVars, networkVars, processed>>

RecvWoken ==
  /\ pc[Recv] = "woken"
  /\ isRuning
  /\ ScanForFree
  /\ UNCHANGED <<isRuning, buf, mainVars, networkVars, processed>>

RecvWokenStopped ==
  /\ pc[Recv] = "woken"
  /\ ~isRuning
  /\ RecvExit
  /\ UNCHANGED <<isRuning, flag, buf, item, mainVars, sent, processed>>

\* kcUdpEnqueue reads isRuning after it has released the mutex.  When it
\* returns NULL the slot it has claimed stays claimed.
RecvCheck ==
  /\ pc[Recv] = "check"
  /\ IF isRuning
     THEN Goto(Recv, "recvfrom") /\ UNCHANGED inbox
     ELSE RecvExit
  /\ UNCHANGED <<isRuning, flag, buf, item, mainVars, sent, processed>>

\* recvfrom blocks until there is a datagram.  The kernel queues in order of
\* arrival, but the network may have reordered what was sent.
RecvFrom ==
  /\ pc[Recv] = "recvfrom"
  /\ \E d \in inbox :
       /\ buf' = [buf EXCEPT ![item[Recv]] = d]
       /\ inbox' = inbox \ {d}
  /\ Goto(Recv, "store")
  /\ UNCHANGED <<isRuning, flag, item, mainVars, sent, processed>>

RecvFromFails ==
  /\ "recvfrom" \in Faults
  /\ pc[Recv] = "recvfrom"
  /\ buf' = [buf EXCEPT ![item[Recv]] = NoData]
  /\ Goto(Recv, "undo")
  /\ UNCHANGED <<isRuning, flag, item, mainVars, networkVars, processed>>

RecvUndo ==
  /\ pc[Recv] = "undo"
  /\ isRuning
  /\ flag' = [flag EXCEPT ![item[Recv]] = NORMAL]
  /\ item' = [item EXCEPT ![Recv] = NoSlot]
  /\ Goto(Recv, "enqueue")
  /\ UNCHANGED <<isRuning, buf, mainVars, networkVars, processed>>

\* Mutants: the receiver forgets to signal; it takes success for a
\* failure and resets the slot.
RecvStore_NoSignal ==
  /\ pc[Recv] = "store"
  /\ isRuning
  /\ flag' = [flag EXCEPT ![item[Recv]] = SetBit(@, RECV_AFTER)]
  /\ item' = [item EXCEPT ![Recv] = NoSlot]
  /\ Goto(Recv, "enqueue")
  /\ UNCHANGED <<isRuning, buf, mainVars, networkVars, processed>>
RecvStore_Resets ==
  /\ pc[Recv] = "store"
  /\ isRuning
  /\ flag' = [flag EXCEPT ![item[Recv]] = NORMAL]
  /\ item' = [item EXCEPT ![Recv] = NoSlot]
  /\ SignalCond(Recv, "enqueue")
  /\ UNCHANGED <<isRuning, buf, mainVars, networkVars, processed>>

RecvStore ==
  /\ pc[Recv] = "store"
  /\ isRuning
  /\ flag' = [flag EXCEPT ![item[Recv]] = SetBit(@, RECV_AFTER)]
  /\ item' = [item EXCEPT ![Recv] = NoSlot]
  /\ SignalCond(Recv, "enqueue")
  /\ UNCHANGED <<isRuning, buf, mainVars, networkVars, processed>>

\* Either critical section finds that the server has been stopped.
RecvStopped ==
  /\ pc[Recv] \in {"undo", "store"}
  /\ ~isRuning
  /\ RecvExit
  /\ UNCHANGED <<isRuning, flag, buf, item, mainVars, sent, processed>>

-----------------------------------------------------------------------------
(***************************************************************************)
(* A worker: kcUdpBackendThreadWorks and kcUdpDequeue.                     *)
(***************************************************************************)
\* Mutant: the worker does not tell main that it runs.
WorkerNotify_Silent(w) ==
  /\ pc[w] = "init"
  /\ Goto(w, "dequeue")
  /\ UNCHANGED <<isRuning, flag, buf, item, mainVars, networkVars, processed>>

WorkerNotify(w) ==
  /\ pc[w] = "init"
  /\ SignalStart
  /\ Goto(w, "dequeue")
  /\ UNCHANGED <<isRuning, flag, buf, item, threadRunCount, networkVars,
                 processed>>

\* Mutants: the claimed slot is not marked; isRuning is not consulted.
ScanForReceived_NoMark(w) ==
  \/ \E s \in First(RECV_COMPLETE) :
       /\ isRuning
       /\ item' = [item EXCEPT ![w] = s]
       /\ Goto(w, "process")
       /\ UNCHANGED flag
  \/ /\ First(RECV_COMPLETE) = {}
     /\ Goto(w, "wait")
     /\ UNCHANGED <<flag, item>>
ScanForReceived_AfterStop(w) ==
  \/ \E s \in First(RECV_COMPLETE) :
       /\ flag' = [flag EXCEPT ![s] = SetBit(@, PROCESS)]
       /\ item' = [item EXCEPT ![w] = s]
       /\ Goto(w, "process")
  \/ /\ First(RECV_COMPLETE) = {}
     /\ Goto(w, "wait")
     /\ UNCHANGED <<flag, item>>

\* One pass of kcUdpDequeue's loop under the mutex.  isRuning is consulted
\* only when there is a received slot: a worker that finds none goes to sleep
\* whether or not the server has been stopped.
ScanForReceived(w) ==
  \/ \E s \in First(RECV_COMPLETE) :
       /\ isRuning
       /\ flag' = [flag EXCEPT ![s] = SetBit(@, PROCESS)]
       /\ item' = [item EXCEPT ![w] = s]
       /\ Goto(w, "process")
  \/ /\ First(RECV_COMPLETE) # {}
     /\ ~isRuning
     /\ Goto(w, "done")
     /\ UNCHANGED <<flag, item>>
  \/ /\ First(RECV_COMPLETE) = {}
     /\ Goto(w, "wait")
     /\ UNCHANGED <<flag, item>>

WorkerDequeue(w) ==
  /\ pc[w] = "dequeue"
  /\ ScanForReceived(w)
  /\ UNCHANGED <<isRuning, buf, mainVars, networkVars, processed>>

WorkerWoken(w) ==
  /\ pc[w] = "woken"
  /\ IF isRuning
     THEN ScanForReceived(w)
     ELSE Goto(w, "done") /\ UNCHANGED <<flag, item>>
  /\ UNCHANGED <<isRuning, buf, mainVars, networkVars, processed>>

\* kcServerPluginsFind and funProcessData.  Whether a plugin is found and
\* what it returns only decides what is logged.
WorkerProcess(w) ==
  /\ pc[w] = "process"
  /\ processed' = processed \cup {buf[item[w]]}
  /\ Goto(w, "finish")
  /\ UNCHANGED <<isRuning, flag, buf, item, mainVars, networkVars>>

\* Mutants: only the bit PROCESS is cleared; nobody is told of the free slot.
WorkerFinish_ClearsOneBit(w) ==
  /\ pc[w] = "finish"
  /\ flag' = [flag EXCEPT ![item[w]] = RECV_COMPLETE]
  /\ item' = [item EXCEPT ![w] = NoSlot]
  /\ IF isRuning THEN SignalCond(w, "dequeue") ELSE Goto(w, "done")
  /\ UNCHANGED <<isRuning, buf, mainVars, networkVars, processed>>
WorkerFinish_NoSignal(w) ==
  /\ pc[w] = "finish"
  /\ flag' = [flag EXCEPT ![item[w]] = NORMAL]
  /\ item' = [item EXCEPT ![w] = NoSlot]
  /\ IF isRuning THEN Goto(w, "dequeue") ELSE Goto(w, "done")
  /\ UNCHANGED <<isRuning, buf, mainVars, networkVars, processed>>

WorkerFinish(w) ==
  /\ pc[w] = "finish"
  /\ flag' = [flag EXCEPT ![item[w]] = NORMAL]
  /\ item' = [item EXCEPT ![w] = NoSlot]
  /\ IF isRuning
     THEN SignalCond(w, "dequeue")
     ELSE Goto(w, "done")
  /\ UNCHANGED <<isRuning, buf, mainVars, networkVars, processed>>

-----------------------------------------------------------------------------
ReceiverStep ==
  \/ RecvOpen \/ RecvAbort \/ RecvNotify
  \/ RecvEnqueue \/ RecvWoken \/ RecvWokenStopped \/ RecvCheck
  \/ RecvFrom \/ RecvUndo \/ RecvStore \/ RecvStopped

ReceiverFault == RecvOpenFails \/ RecvFromFails

WorkerStep(w) ==
  \/ WorkerNotify(w) \/ WorkerDequeue(w) \/ WorkerWoken(w)
  \/ WorkerProcess(w) \/ WorkerFinish(w)

\* POSIX lets pthread_cond_wait return although nobody signalled.
SpuriousWakeup(t) ==
  /\ "spurious" \in Faults
  /\ pc[t] = "wait"
  /\ Goto(t, "woken")
  /\ UNCHANGED <<isRuning, flag, buf, item, mainVars, networkVars, processed>>
=============================================================================
