------------------------------ MODULE UdpServer ------------------------------
(***************************************************************************)
(* The whole server: the threads of BackendThreads together with the main  *)
(* thread that starts and stops them (kcUdpBackedThreadStart,              *)
(* kcThreadWorksCreate and kcUdpBackedThreadStop of                        *)
(* UdpServer/KcUdpBackedThreadsHead.c, called from consoleRuning in        *)
(* UdpServer/main.c) and with the network.                                 *)
(*                                                                         *)
(* Main starts here with the mutex, the condition variables, the plugins   *)
(* and the slots already made, and pthread_create succeeds.                *)
(***************************************************************************)
EXTENDS BackendThreads

\* The socket exists and is bound.
Listening == pc[Recv] \notin {"none", "init", "abort", "done"}

Init ==
  /\ isRuning = TRUE
  /\ flag = [s \in Slot |-> NORMAL]
  /\ buf = [s \in Slot |-> NoData]
  /\ item = [t \in Thread |-> NoSlot]
  /\ pc = [t \in Thread |-> "none"]
  /\ main = "launch"
  /\ threadRunCount = 0
  /\ inbox = {}
  /\ sent = {}
  /\ processed = {}

-----------------------------------------------------------------------------
(***************************************************************************)
(* Starting: one worker after the other, then the receiver.  After each    *)
(* pthread_create main locks the mutex and waits on condStart, without any *)
(* predicate that tells whether the new thread has signalled already.      *)
(***************************************************************************)
MainCreateWorker ==
  /\ main = "launch"
  /\ threadRunCount < PoolSize
  /\ pc' = [pc EXCEPT ![threadRunCount + 1] = "init"]
  /\ main' = "await"
  /\ UNCHANGED <<isRuning, flag, buf, item, threadRunCount, networkVars,
                 processed>>

MainCreateRecv ==
  /\ main = "launch"
  /\ threadRunCount = PoolSize
  /\ pc' = [pc EXCEPT ![Recv] = "init"]
  /\ main' = "await"
  /\ UNCHANGED <<isRuning, flag, buf, item, threadRunCount, networkVars,
                 processed>>

MainAwait ==
  /\ main = "await"
  /\ main' = "blocked"
  /\ UNCHANGED <<isRuning, flag, buf, item, pc, threadRunCount, networkVars,
                 processed>>

\* Mutant: the receiver is counted as one more worker.
MainWorkerStarted_CountsAll ==
  /\ main = "awake"
  /\ isRuning
  /\ threadRunCount' = threadRunCount + 1
  /\ main' = "launch"
  /\ UNCHANGED <<isRuning, flag, buf, item, pc, networkVars, processed>>

\* The wait for a worker has ended.
MainWorkerStarted ==
  /\ main = "awake"
  /\ pc[Recv] = "none"
  /\ isRuning
  /\ threadRunCount' = threadRunCount + 1
  /\ main' = "launch"
  /\ UNCHANGED <<isRuning, flag, buf, item, pc, networkVars, processed>>

\* The wait for the receiver has ended: Start returns KC_OK, or stops what it
\* has started.
MainRecvStarted ==
  /\ main = "awake"
  /\ pc[Recv] # "none"
  /\ main' = IF isRuning THEN "running" ELSE "stop"
  /\ UNCHANGED <<isRuning, flag, buf, item, pc, threadRunCount, networkVars,
                 processed>>

-----------------------------------------------------------------------------
(***************************************************************************)
(* Stopping.                                                               *)
(***************************************************************************)
\* The operator presses ESC.
MainEscape ==
  /\ main = "running"
  /\ main' = "stop"
  /\ UNCHANGED <<isRuning, flag, buf, item, pc, threadRunCount, networkVars,
                 processed>>

\* pthread_cond_broadcast(cond); nobody sleeps on condStart at this point.
BroadcastCond ==
  pc' = [t \in Thread |-> IF t \in Waiting THEN "woken" ELSE pc[t]]

MainStop ==
  /\ main = "stop"
  /\ isRuning' = FALSE
  /\ BroadcastCond
  /\ main' = "poke"
  /\ UNCHANGED <<flag, buf, item, threadRunCount, networkVars, processed>>

\* Mutant: the stop datagram is never sent.
MainPoke_Silent ==
  /\ main = "poke"
  /\ main' = "joinRecv"
  /\ UNCHANGED <<isRuning, flag, buf, item, pc, threadRunCount, networkVars,
                 processed>>

\* One datagram to the server's own port, to end a recvfrom.  It is dropped
\* when the port is closed or its buffer is full.
MainPoke ==
  /\ main = "poke"
  /\ inbox' = IF Listening /\ Cardinality(inbox) < InboxMax
              THEN inbox \cup {StopByte}
              ELSE inbox
  /\ main' = "joinRecv"
  /\ UNCHANGED <<isRuning, flag, buf, item, pc, threadRunCount, sent,
                 processed>>

\* No socket to send it from: the code goes on without it.
MainPokeFails ==
  /\ "poke" \in Faults
  /\ main = "poke"
  /\ main' = "joinRecv"
  /\ UNCHANGED <<isRuning, flag, buf, item, pc, threadRunCount, networkVars,
                 processed>>

\* kcSharedFree joins the receiver, then every worker, then frees the rest.
MainJoinRecv ==
  /\ main = "joinRecv"
  /\ pc[Recv] \in {"none", "done"}
  /\ main' = "joinWorks"
  /\ UNCHANGED <<isRuning, flag, buf, item, pc, threadRunCount, networkVars,
                 processed>>

\* Mutant: the loop over the workers ends after the first one.
MainJoinWorks_FirstOnly ==
  /\ main = "joinWorks"
  /\ pc[1] \in {"none", "done"}
  /\ main' = "freed"
  /\ UNCHANGED <<isRuning, flag, buf, item, pc, threadRunCount, networkVars,
                 processed>>

MainJoinWorks ==
  /\ main = "joinWorks"
  /\ \A w \in Worker : pc[w] \in {"none", "done"}
  /\ main' = "freed"
  /\ UNCHANGED <<isRuning, flag, buf, item, pc, threadRunCount, networkVars,
                 processed>>

-----------------------------------------------------------------------------
MainStep ==
  \/ MainCreateWorker \/ MainCreateRecv \/ MainAwait
  \/ MainWorkerStarted \/ MainRecvStarted
  \/ MainStop \/ MainPoke \/ MainJoinRecv \/ MainJoinWorks

MainSpuriousWakeup ==
  /\ "spurious" \in Faults
  /\ main = "blocked"
  /\ main' = "awake"
  /\ UNCHANGED <<isRuning, flag, buf, item, pc, threadRunCount, networkVars,
                 processed>>

(***************************************************************************)
(* The network.  Every datagram is sent once, or, with "resend", again     *)
(* after it has been processed.                                            *)
(***************************************************************************)
Arrive(d) ==
  /\ Listening
  /\ d \notin sent
  /\ Cardinality(inbox) < InboxMax
  /\ inbox' = inbox \cup {d}
  /\ sent' = sent \cup {d}
  /\ UNCHANGED <<isRuning, flag, buf, item, pc, mainVars, processed>>

Resend(d) ==
  /\ "resend" \in Faults
  /\ Listening
  /\ d \in processed
  /\ Cardinality(inbox) < InboxMax
  /\ inbox' = inbox \cup {d}
  /\ processed' = processed \ {d}
  /\ UNCHANGED <<isRuning, flag, buf, item, pc, mainVars, sent>>

Next ==
  \/ MainStep \/ MainEscape \/ MainPokeFails \/ MainSpuriousWakeup
  \/ ReceiverStep \/ ReceiverFault
  \/ \E w \in Worker : WorkerStep(w)
  \/ \E t \in Thread : SpuriousWakeup(t)
  \/ \E d \in Datagram : Arrive(d) \/ Resend(d)

Spec == Init /\ [][Next]_vars

(***************************************************************************)
(* The scheduler runs every thread that is neither asleep nor blocked, and *)
(* the mutex is always released, so each thread that can take a step does. *)
(* Nothing obliges the operator to stop the server, a peer to send, or a   *)
(* fault to happen.                                                        *)
(***************************************************************************)
Fairness ==
  /\ WF_vars(MainStep)
  /\ WF_vars(ReceiverStep)
  /\ \A w \in Worker : WF_vars(WorkerStep(w))

FairSpec == Spec /\ Fairness

-----------------------------------------------------------------------------
RecvLabel == {"none", "init", "abort", "notify", "enqueue", "wait", "woken",
              "check", "recvfrom", "undo", "store", "done"}
WorkerLabel == {"none", "init", "dequeue", "wait", "woken", "process",
                "finish", "done"}
MainLabel == {"launch", "await", "blocked", "awake", "running", "stop",
              "poke", "joinRecv", "joinWorks", "freed"}

\* Every variable keeps its type.
TypeOK ==
  /\ isRuning \in BOOLEAN
  /\ flag \in [Slot -> FlagValue]
  /\ buf \in [Slot -> Datagram \cup {StopByte, NoData}]
  /\ item \in [Thread -> Slot \cup {NoSlot}]
  /\ pc \in [Thread -> RecvLabel \cup WorkerLabel]
  /\ pc[Recv] \in RecvLabel
  /\ \A w \in Worker : pc[w] \in WorkerLabel
  /\ main \in MainLabel
  /\ threadRunCount \in 0..PoolSize
  /\ inbox \subseteq Datagram \cup {StopByte}
  /\ sent \subseteq Datagram
  /\ processed \subseteq Datagram

\* The flag of a slot that thread t works on.
OwnerFlag(t) == IF t = Recv THEN RECV_BEGIN ELSE COMPLETE

\* A slot that is being filled belongs to the receiver and to nobody else, one
\* that is being processed to exactly one worker, and no slot is left behind
\* in either state: the flags, read and written in separate critical sections
\* of several threads, are a correct ownership protocol.
SlotOwnership ==
  /\ \A t \in Thread :
       item[t] # NoSlot => flag[item[t]] = OwnerFlag(t)
  /\ \A t, u \in Thread :
       item[t] = item[u] /\ item[t] # NoSlot => t = u
  /\ \A s \in Slot :
       flag[s] \in {RECV_BEGIN, COMPLETE} => \E t \in Thread : item[t] = s

\* The slots whose datagram has been received and not yet been processed.
Pending ==
  {s \in Slot :
     \/ flag[s] = RECV_COMPLETE
     \/ item[Recv] = s /\ pc[Recv] = "store"
     \/ \E w \in Worker : item[w] = s /\ pc[w] = "process"}

\* No datagram is processed a second time: what waits in a slot has not been
\* processed, is not in the socket any more and is in no other slot.
AtMostOnce ==
  /\ \A s \in Pending : buf[s] \notin processed \cup inbox
  /\ \A r, s \in Pending : buf[r] = buf[s] => r = s
  /\ inbox \cap processed = {}

\* While the server runs, a datagram that has arrived is in the socket, in a
\* slot or processed: no failed recvfrom, no race of receiver and workers for
\* a slot loses it.
NoLoss ==
  isRuning => sent \subseteq inbox \cup processed \cup {buf[s] : s \in Pending}

\* What has been received into a slot stays as it is until a worker is done
\* with it, however long that takes.
ReceivedDataStable ==
  [][\A s \in Slot :
       flag[s] \in {RECV_COMPLETE, COMPLETE} => buf'[s] = buf[s]]_vars

\* The signals on the one shared condition variable are never all wasted: as
\* long as the server runs, there is no state in which every thread that could
\* use the free slots, or the received ones, is asleep and nobody is left to
\* wake it.  True when no more workers run than there are slots.
NoLostWakeup ==
  isRuning /\ main = "running" =>
    /\ pc[Recv] = "wait" /\ First(NORMAL) # {} =>
         \E w \in Worker : pc[w] # "wait"
    /\ First(RECV_COMPLETE) # {} => \E w \in Worker : pc[w] # "wait"

\* kcSharedFree releases the slots, the plugins, the mutex and the condition
\* variables: by then no thread is left that could touch them.
NoUseAfterFree ==
  main = "freed" => \A t \in Thread : pc[t] \in {"none", "done"}

-----------------------------------------------------------------------------
\* A datagram that a slot has received is processed, unless the server is
\* stopped first.
ReceivedIsProcessed ==
  \A d \in Datagram :
    (\E s \in Slot : flag[s] = RECV_COMPLETE /\ buf[s] = d)
      ~> (d \in processed \/ ~isRuning)

\* The receiver does not sleep on while slots are free: "go on" is what the
\* signal at the end of a worker's loop is for.
FreeSlotIsUsed ==
  (isRuning /\ First(NORMAL) # {} /\ pc[Recv] = "wait")
    ~> (pc[Recv] # "wait" \/ ~isRuning)

\* The thread main is about to wait for has not signalled yet.
SignalToCome ==
  IF pc[Recv] = "none"
  THEN pc[threadRunCount + 1] = "init"
  ELSE pc[Recv] \in {"init", "notify", "abort"}

\* Starting goes on whenever main is asleep before the new thread signals;
\* so a lost signal is the only thing that can hang it.
StartProceeds ==
  (main = "blocked" /\ SignalToCome) ~> main \notin {"blocked", "awake"}

\* Once Stop has made its only broadcast: some thread sleeps on cond, or is
\* about to scan the slots, will find nothing and go to sleep.
MissedBroadcast ==
  \/ Waiting # {}
  \/ First(RECV_COMPLETE) = {} /\ \E w \in Worker : pc[w] \in {"init", "dequeue"}
  \/ First(NORMAL) = {} /\ pc[Recv] \in {"init", "notify", "enqueue"}

\* Stopping ends whenever no thread is in the gap between its last look at
\* isRuning and its wait on cond; so that gap is the only thing that can hang
\* it (with the stop datagram sent).
StopCompletes ==
  (main = "poke" /\ ~MissedBroadcast) ~> main = "freed"

-----------------------------------------------------------------------------
\* "stop the background thread pool": a stop that has begun comes to an end.
StopEnds == main = "stop" ~> main = "freed"

\* "tell kcWorksCreate that the thread has started": a start that has begun
\* comes to an end, with or without success.
StartEnds == main = "launch" ~> main \in {"running", "freed"}

\* "start the receiver and wait": when Start has returned KC_OK, the socket
\* is bound.
StartMeansListening == main = "running" /\ isRuning => Listening

-----------------------------------------------------------------------------
\* What DatagramPool sees of the threads and the slots.
Received   == {s \in Slot : flag[s] = RECV_COMPLETE}
PooledData == {buf[s] : s \in Received}
InHand     == [w \in Worker |-> IF pc[w] = "process" THEN buf[item[w]]
                                ELSE NoData]
Releasing  == {w \in Worker : pc[w] = "finish"}

Pool == INSTANCE DatagramPool WITH
  Capacity   <- QueueMax,
  NoDatagram <- NoData,
  open       <- isRuning,
  pool       <- PooledData,
  busy       <- InHand,
  releasing  <- Releasing,
  done       <- processed

\* The threads, their flags and their signals implement the pool: capacity,
\* at most one worker for a datagram, nothing accepted or handed out once the
\* server has been stopped, and no call cut short.
ImplementsPool == Pool!Spec
=============================================================================
