--------------------------- MODULE UdpServerProofs ---------------------------
(***************************************************************************)
(* Proofs about UdpServer, for any number of slots, workers and datagrams  *)
(* and for any faults.                                                     *)
(***************************************************************************)
EXTENDS UdpServer, TLAPS, FiniteSetTheorems, WellFoundedInduction

\* Which threads work on a slot, told by where they are.
HoldersInv ==
  /\ pc[Recv] \in {"check", "recvfrom", "undo", "store"} => item[Recv] # NoSlot
  /\ item[Recv] # NoSlot =>
       pc[Recv] \in {"check", "recvfrom", "undo", "store", "done"}
  /\ \A w \in Worker : item[w] # NoSlot <=> pc[w] \in {"process", "finish"}

\* Main creates the threads in order, so a thread it is about to create does
\* not exist yet.
StartInv ==
  /\ main = "launch" =>
       /\ pc[Recv] = "none"
       /\ \A w \in Worker : w > threadRunCount => pc[w] = "none"
  /\ main \in {"await", "blocked", "awake"} /\ pc[Recv] = "none" =>
       /\ threadRunCount < PoolSize
       /\ \A w \in Worker : w > threadRunCount + 1 => pc[w] = "none"

\* The stop datagram reaches no slot that a worker may see.
DataInv ==
  /\ main \in {"poke", "joinRecv", "joinWorks", "freed"} => ~isRuning
  /\ isRuning => StopByte \notin inbox
  /\ pc[Recv] = "store" =>
       /\ buf[item[Recv]] \in Datagram \cup {StopByte}
       /\ isRuning => buf[item[Recv]] \in Datagram
  /\ \A s \in Slot : flag[s] \in {RECV_COMPLETE, COMPLETE} => buf[s] \in Datagram

IInv == TypeOK /\ SlotOwnership /\ HoldersInv /\ StartInv /\ DataInv

-----------------------------------------------------------------------------
LEMMA FlagBits ==
  /\ SetBit(NORMAL, RECV_BEGIN) = RECV_BEGIN
  /\ SetBit(RECV_BEGIN, RECV_AFTER) = RECV_COMPLETE
  /\ SetBit(RECV_COMPLETE, PROCESS) = COMPLETE
BY DEF SetBit, NORMAL, RECV_BEGIN, RECV_AFTER, RECV_COMPLETE, PROCESS, COMPLETE

LEMMA FlagsDiffer ==
  /\ NORMAL # RECV_BEGIN /\ NORMAL # RECV_COMPLETE /\ NORMAL # COMPLETE
  /\ RECV_BEGIN # RECV_COMPLETE /\ RECV_BEGIN # COMPLETE
  /\ RECV_COMPLETE # COMPLETE
BY DEF NORMAL, RECV_BEGIN, RECV_AFTER, RECV_COMPLETE, PROCESS, COMPLETE

LEMMA Constants ==
  /\ Recv \in Thread /\ Recv \notin Worker
  /\ \A w \in Worker : w \in Thread
  /\ \A t \in Thread : t = Recv \/ t \in Worker
  /\ NoSlot \notin Slot
  /\ PoolSize \in Nat
BY PoolSizeAssumption, QueueMaxAssumption DEF Recv, Thread, Worker, NoSlot, Slot

LEMMA FirstHasFlag ==
  ASSUME NEW f, NEW s \in First(f)
  PROVE  s \in Slot /\ flag[s] = f
BY DEF First

LEMMA InitIInv == Init => IInv
BY Constants, FlagsDiffer, DatagramAssumption
   DEF Init, IInv, TypeOK, SlotOwnership, HoldersInv, StartInv, DataInv,
       OwnerFlag, FlagValue, RecvLabel, WorkerLabel, MainLabel

LEMMA ReceiverKeepsIInv ==
  ASSUME IInv, ReceiverStep \/ ReceiverFault
  PROVE  IInv'
<1> USE Constants, FlagsDiffer, FlagBits, FirstHasFlag, DatagramAssumption
    DEF IInv, TypeOK, SlotOwnership, HoldersInv, StartInv, DataInv, OwnerFlag,
        FlagValue, RecvLabel, WorkerLabel, MainLabel, mainVars, networkVars,
        Goto, Waiting, SignalCond, SignalStart, RecvExit
<1>1. CASE RecvOpen
  BY <1>1 DEF RecvOpen
<1>2. CASE RecvAbort
  <2>1. ~isRuning' /\ isRuning' \in BOOLEAN
    BY ONLY <1>2 DEF RecvAbort
  <2>2. /\ pc[Recv] = "abort" /\ pc' = [pc EXCEPT ![Recv] = "done"]
        /\ main' = IF main = "blocked" THEN "awake" ELSE main
        /\ inbox' = {}
        /\ UNCHANGED <<flag, buf, item, threadRunCount, sent, processed>>
    BY ONLY <1>2 DEF RecvAbort, SignalStart, RecvExit, Goto
  <2>3. TypeOK'
    BY <2>1, <2>2
  <2>4. (SlotOwnership /\ HoldersInv)'
    BY <2>2
  <2>5. StartInv'
    BY <2>2
  <2>6. DataInv'
    BY <2>1, <2>2
  <2> QED
    BY <2>3, <2>4, <2>5, <2>6
<1>3. CASE RecvNotify
  BY <1>3 DEF RecvNotify
<1>4. CASE RecvEnqueue
  BY <1>4 DEF RecvEnqueue, ScanForFree
<1>5. CASE RecvWoken
  BY <1>5 DEF RecvWoken, ScanForFree
<1>6. CASE RecvWokenStopped
  BY <1>6 DEF RecvWokenStopped
<1>7. CASE RecvCheck
  BY <1>7 DEF RecvCheck
<1>8. CASE RecvFrom
  BY <1>8 DEF RecvFrom
<1>9. CASE RecvUndo
  BY <1>9 DEF RecvUndo
<1>10. CASE RecvStore
  BY <1>10 DEF RecvStore
<1>11. CASE RecvStopped
  BY <1>11 DEF RecvStopped
<1>12. CASE RecvOpenFails
  BY <1>12 DEF RecvOpenFails
<1>13. CASE RecvFromFails
  BY <1>13 DEF RecvFromFails
<1> QED
  BY <1>1, <1>2, <1>3, <1>4, <1>5, <1>6, <1>7, <1>8, <1>9, <1>10, <1>11,
     <1>12, <1>13 DEF ReceiverStep, ReceiverFault

LEMMA WorkerKeepsIInv ==
  ASSUME IInv, NEW w \in Worker, WorkerStep(w)
  PROVE  IInv'
<1> USE Constants, FlagsDiffer, FlagBits, FirstHasFlag, DatagramAssumption
    DEF IInv, TypeOK, SlotOwnership, HoldersInv, StartInv, DataInv, OwnerFlag,
        FlagValue, RecvLabel, WorkerLabel, MainLabel, mainVars, networkVars,
        Goto, Waiting, SignalCond, SignalStart, RecvExit
<1>1. CASE WorkerNotify(w)
  BY <1>1 DEF WorkerNotify
<1>2. CASE WorkerDequeue(w)
  BY <1>2 DEF WorkerDequeue, ScanForReceived
<1>3. CASE WorkerWoken(w)
  BY <1>3 DEF WorkerWoken, ScanForReceived
<1>4. CASE WorkerProcess(w)
  BY <1>4 DEF WorkerProcess
<1>5. CASE WorkerFinish(w)
  BY <1>5 DEF WorkerFinish
<1> QED
  BY <1>1, <1>2, <1>3, <1>4, <1>5 DEF WorkerStep

LEMMA MainKeepsIInv ==
  ASSUME IInv,
         MainStep \/ MainEscape \/ MainPokeFails \/ MainSpuriousWakeup
  PROVE  IInv'
<1> USE Constants, FlagsDiffer, FlagBits, FirstHasFlag, DatagramAssumption
    DEF IInv, TypeOK, SlotOwnership, HoldersInv, StartInv, DataInv, OwnerFlag,
        FlagValue, RecvLabel, WorkerLabel, MainLabel, mainVars, networkVars,
        Waiting
<1>1. CASE MainCreateWorker
  <2> DEFINE next == threadRunCount + 1
  <2>1. next \in Worker /\ next > threadRunCount
    BY <1>1 DEF MainCreateWorker, Worker
  <2>2. next \in Thread /\ next # Recv
    BY <2>1
  <2>3. pc[next] = "none" /\ pc[Recv] = "none"
    BY <1>1, <2>1 DEF MainCreateWorker
  <2>4. pc' = [pc EXCEPT ![next] = "init"]
    BY <1>1 DEF MainCreateWorker
  <2> HIDE DEF next
  <2>5. (TypeOK /\ SlotOwnership /\ HoldersInv /\ DataInv)'
    BY <1>1, <2>1, <2>2, <2>3, <2>4 DEF MainCreateWorker
  <2>6. \A w \in Worker : w > next => pc'[w] = "none"
    BY <1>1, <2>1, <2>4 DEF MainCreateWorker, Worker, next
  <2>7. StartInv'
    BY <1>1, <2>2, <2>3, <2>4, <2>6 DEF MainCreateWorker, next
  <2> QED
    BY <2>5, <2>7
<1>2. CASE MainCreateRecv
  BY <1>2 DEF MainCreateRecv
<1>3. CASE MainAwait
  BY <1>3 DEF MainAwait
<1>4. CASE MainWorkerStarted
  BY <1>4 DEF MainWorkerStarted
<1>5. CASE MainRecvStarted
  BY <1>5 DEF MainRecvStarted
<1>6. CASE MainStop
  BY <1>6, ZenonT(40) DEF MainStop, BroadcastCond
<1>7. CASE MainPoke
  BY <1>7 DEF MainPoke
<1>8. CASE MainJoinRecv
  BY <1>8 DEF MainJoinRecv
<1>9. CASE MainJoinWorks
  BY <1>9 DEF MainJoinWorks
<1>10. CASE MainEscape
  BY <1>10 DEF MainEscape
<1>11. CASE MainPokeFails
  BY <1>11 DEF MainPokeFails
<1>12. CASE MainSpuriousWakeup
  BY <1>12 DEF MainSpuriousWakeup
<1> QED
  BY <1>1, <1>2, <1>3, <1>4, <1>5, <1>6, <1>7, <1>8, <1>9, <1>10, <1>11,
     <1>12 DEF MainStep

LEMMA EnvironmentKeepsIInv ==
  ASSUME IInv,
         \/ \E t \in Thread : SpuriousWakeup(t)
         \/ \E d \in Datagram : Arrive(d) \/ Resend(d)
  PROVE  IInv'
<1> USE Constants, FlagsDiffer, FlagBits, DatagramAssumption
    DEF IInv, TypeOK, SlotOwnership, HoldersInv, StartInv, DataInv, OwnerFlag,
        FlagValue, RecvLabel, WorkerLabel, MainLabel, mainVars, networkVars,
        Goto
<1>1. ASSUME NEW t \in Thread, SpuriousWakeup(t)
      PROVE  IInv'
  BY <1>1 DEF SpuriousWakeup
<1>2. ASSUME NEW d \in Datagram, Arrive(d)
      PROVE  IInv'
  BY <1>2 DEF Arrive
<1>3. ASSUME NEW d \in Datagram, Resend(d)
      PROVE  IInv'
  BY <1>3 DEF Resend
<1> QED
  BY <1>1, <1>2, <1>3

LEMMA StutteringKeepsIInv == IInv /\ UNCHANGED vars => IInv'
BY DEF vars, IInv, TypeOK, SlotOwnership, HoldersInv, StartInv, DataInv, First

\* IInv is inductive.
THEOREM InductiveInvariant == Spec => []IInv
<1>1. Init => IInv
  BY InitIInv
<1>2. IInv /\ [Next]_vars => IInv'
  BY ReceiverKeepsIInv, WorkerKeepsIInv, MainKeepsIInv, EnvironmentKeepsIInv,
     StutteringKeepsIInv DEF Next
<1> QED
  BY <1>1, <1>2, PTL DEF Spec

\* Every variable keeps its type, whatever the threads and the environment do.
THEOREM TypeCorrect == Spec => []TypeOK
<1>1. IInv => TypeOK
  BY DEF IInv
<1> QED
  BY <1>1, InductiveInvariant, PTL

\* The flags are an ownership protocol: no two threads ever work on one slot,
\* and no slot is left claimed without an owner.
THEOREM SlotsHaveOneOwner == Spec => []SlotOwnership
<1>1. IInv => SlotOwnership
  BY DEF IInv
<1> QED
  BY <1>1, InductiveInvariant, PTL

-----------------------------------------------------------------------------
(***************************************************************************)
(* Delivery: nothing is processed twice, nothing is lost.                  *)
(***************************************************************************)
StopPhase == {"joinRecv", "joinWorks", "freed"}

\* What is in the socket, in a slot or processed has been sent; the stop
\* datagram is sent once, by the last thing Stop does before it joins.
ProvenanceInv ==
  /\ inbox \subseteq sent \cup {StopByte}
  /\ processed \subseteq sent
  /\ \A s \in Pending : buf[s] \in sent \cup {StopByte}
  /\ StopByte \in inbox => main \in StopPhase
  /\ \A s \in Pending : buf[s] = StopByte => main \in StopPhase

DeliveryInv == IInv /\ AtMostOnce /\ NoLoss /\ ProvenanceInv

LEMMA InitDelivery == Init => AtMostOnce /\ NoLoss /\ ProvenanceInv
BY Constants, FlagsDiffer
   DEF Init, AtMostOnce, NoLoss, ProvenanceInv, Pending

LEMMA ReceiverKeepsDelivery ==
  ASSUME DeliveryInv, IInv', ReceiverStep \/ ReceiverFault
  PROVE  (AtMostOnce /\ NoLoss /\ ProvenanceInv)'
<1> USE Constants, FlagsDiffer, FlagBits, FirstHasFlag, DatagramAssumption
    DEF DeliveryInv, AtMostOnce, NoLoss, ProvenanceInv, Pending, StopPhase,
        IInv, TypeOK, SlotOwnership, HoldersInv, DataInv, OwnerFlag,
        mainVars, networkVars,
        Goto, Waiting, SignalCond, SignalStart, RecvExit
<1>1. CASE RecvOpen
  BY <1>1 DEF RecvOpen
<1>2. CASE RecvAbort
  BY <1>2 DEF RecvAbort
<1>3. CASE RecvNotify
  BY <1>3 DEF RecvNotify
<1>4. CASE RecvEnqueue
  BY <1>4 DEF RecvEnqueue, ScanForFree
<1>5. CASE RecvWoken
  BY <1>5 DEF RecvWoken, ScanForFree
<1>6. CASE RecvWokenStopped
  BY <1>6 DEF RecvWokenStopped
<1>7. CASE RecvCheck
  BY <1>7 DEF RecvCheck
<1>8. CASE RecvFrom
  BY <1>8 DEF RecvFrom
<1>9. CASE RecvUndo
  BY <1>9 DEF RecvUndo
<1>10. CASE RecvStore
  BY <1>10 DEF RecvStore
<1>11. CASE RecvStopped
  BY <1>11 DEF RecvStopped
<1>12. CASE RecvOpenFails
  BY <1>12 DEF RecvOpenFails
<1>13. CASE RecvFromFails
  BY <1>13 DEF RecvFromFails
<1> QED
  BY <1>1, <1>2, <1>3, <1>4, <1>5, <1>6, <1>7, <1>8, <1>9, <1>10, <1>11,
     <1>12, <1>13 DEF ReceiverStep, ReceiverFault

LEMMA WorkerKeepsDelivery ==
  ASSUME DeliveryInv, IInv', NEW w \in Worker, WorkerStep(w)
  PROVE  (AtMostOnce /\ NoLoss /\ ProvenanceInv)'
<1> USE Constants, FlagsDiffer, FlagBits, FirstHasFlag, DatagramAssumption
    DEF DeliveryInv, AtMostOnce, NoLoss, ProvenanceInv, Pending, StopPhase,
        IInv, TypeOK, SlotOwnership, HoldersInv, DataInv, OwnerFlag,
        mainVars, networkVars,
        Goto, Waiting, SignalCond, SignalStart
<1>1. CASE WorkerNotify(w)
  BY <1>1 DEF WorkerNotify
<1>2. CASE WorkerDequeue(w)
  BY <1>2 DEF WorkerDequeue, ScanForReceived
<1>3. CASE WorkerWoken(w)
  BY <1>3 DEF WorkerWoken, ScanForReceived
<1>4. CASE WorkerProcess(w)
  BY <1>4 DEF WorkerProcess
<1>5. CASE WorkerFinish(w)
  BY <1>5 DEF WorkerFinish
<1> QED
  BY <1>1, <1>2, <1>3, <1>4, <1>5 DEF WorkerStep

LEMMA MainKeepsDelivery ==
  ASSUME DeliveryInv, IInv',
         MainStep \/ MainEscape \/ MainPokeFails \/ MainSpuriousWakeup
  PROVE  (AtMostOnce /\ NoLoss /\ ProvenanceInv)'
<1> USE Constants, FlagsDiffer, FlagBits, FirstHasFlag, DatagramAssumption
    DEF DeliveryInv, AtMostOnce, NoLoss, ProvenanceInv, Pending, StopPhase,
        IInv, TypeOK, SlotOwnership, HoldersInv, DataInv, OwnerFlag,
        mainVars, networkVars,
        Goto, Waiting, SignalCond, SignalStart
<1>1. CASE MainCreateWorker
  BY <1>1 DEF MainCreateWorker
<1>2. CASE MainCreateRecv
  BY <1>2 DEF MainCreateRecv
<1>3. CASE MainAwait
  BY <1>3 DEF MainAwait
<1>4. CASE MainWorkerStarted
  BY <1>4 DEF MainWorkerStarted
<1>5. CASE MainRecvStarted
  BY <1>5 DEF MainRecvStarted
<1>6. CASE MainStop
  BY <1>6 DEF MainStop, BroadcastCond
<1>7. CASE MainPoke
  BY <1>7 DEF MainPoke
<1>8. CASE MainJoinRecv
  BY <1>8 DEF MainJoinRecv
<1>9. CASE MainJoinWorks
  BY <1>9 DEF MainJoinWorks
<1>10. CASE MainEscape
  BY <1>10 DEF MainEscape
<1>11. CASE MainPokeFails
  BY <1>11 DEF MainPokeFails
<1>12. CASE MainSpuriousWakeup
  BY <1>12 DEF MainSpuriousWakeup
<1> QED
  BY <1>1, <1>2, <1>3, <1>4, <1>5, <1>6, <1>7, <1>8, <1>9, <1>10, <1>11,
     <1>12 DEF MainStep

LEMMA EnvironmentKeepsDelivery ==
  ASSUME DeliveryInv, IInv',
         \/ \E t \in Thread : SpuriousWakeup(t)
         \/ \E d \in Datagram : Arrive(d) \/ Resend(d)
  PROVE  (AtMostOnce /\ NoLoss /\ ProvenanceInv)'
<1> USE Constants, FlagsDiffer, FlagBits, FirstHasFlag, DatagramAssumption
    DEF DeliveryInv, AtMostOnce, NoLoss, ProvenanceInv, Pending, StopPhase,
        IInv, TypeOK, SlotOwnership, HoldersInv, DataInv, OwnerFlag,
        mainVars, networkVars,
        Goto, Waiting, SignalCond, SignalStart
<1>1. ASSUME NEW t \in Thread, SpuriousWakeup(t)
      PROVE  (AtMostOnce /\ NoLoss /\ ProvenanceInv)'
  BY <1>1 DEF SpuriousWakeup
<1>2. ASSUME NEW d \in Datagram, Arrive(d)
      PROVE  (AtMostOnce /\ NoLoss /\ ProvenanceInv)'
  BY <1>2 DEF Arrive
<1>3. ASSUME NEW d \in Datagram, Resend(d)
      PROVE  (AtMostOnce /\ NoLoss /\ ProvenanceInv)'
  BY <1>3 DEF Resend
<1> QED
  BY <1>1, <1>2, <1>3

LEMMA StutteringKeepsDelivery ==
  DeliveryInv /\ UNCHANGED vars => (AtMostOnce /\ NoLoss /\ ProvenanceInv)'
BY DEF vars, DeliveryInv, AtMostOnce, NoLoss, ProvenanceInv, Pending

THEOREM DeliveryInvariant == Spec => []DeliveryInv
<1>1. Init => DeliveryInv
  BY InitIInv, InitDelivery DEF DeliveryInv
<1>2. DeliveryInv /\ IInv' /\ [Next]_vars => DeliveryInv'
  BY ReceiverKeepsDelivery, WorkerKeepsDelivery, MainKeepsDelivery,
     EnvironmentKeepsDelivery, StutteringKeepsDelivery DEF Next, DeliveryInv
<1> QED
  BY <1>1, <1>2, InductiveInvariant, PTL DEF Spec

\* No datagram is handed to a plugin twice.
THEOREM ProcessedAtMostOnce == Spec => []AtMostOnce
<1>1. DeliveryInv => AtMostOnce
  BY DEF DeliveryInv
<1> QED
  BY <1>1, DeliveryInvariant, PTL

\* A running server loses nothing it has taken from the network.
THEOREM NothingIsLost == Spec => []NoLoss
<1>1. DeliveryInv => NoLoss
  BY DEF DeliveryInv
<1> QED
  BY <1>1, DeliveryInvariant, PTL

\* A received datagram is not overwritten before its worker is done with it.
THEOREM ReceivedDataIsStable == Spec => ReceivedDataStable
<1>1. IInv /\ [Next]_vars =>
        [\A s \in Slot :
           flag[s] \in {RECV_COMPLETE, COMPLETE} => buf'[s] = buf[s]]_vars
  <2> SUFFICES ASSUME IInv, Next, NEW s \in Slot,
                      flag[s] \in {RECV_COMPLETE, COMPLETE}
               PROVE  buf'[s] = buf[s]
    OBVIOUS
  <2>1. pc[Recv] = "recvfrom" => item[Recv] # s /\ item[Recv] \in Slot
    BY Constants, FlagsDiffer
       DEF IInv, TypeOK, SlotOwnership, HoldersInv, OwnerFlag
  <2>2. CASE RecvFrom
    BY <2>1, <2>2 DEF RecvFrom, IInv, TypeOK
  <2>3. CASE RecvFromFails
    BY <2>1, <2>3 DEF RecvFromFails, IInv, TypeOK
  <2>4. CASE UNCHANGED buf
    BY <2>4
  <2> QED
    BY <2>2, <2>3, <2>4
       DEF Next, MainStep, MainEscape, MainPokeFails, MainSpuriousWakeup,
           MainCreateWorker, MainCreateRecv, MainAwait, MainWorkerStarted,
           MainRecvStarted, MainStop, MainPoke, MainJoinRecv, MainJoinWorks,
           ReceiverStep, ReceiverFault, RecvOpen, RecvOpenFails, RecvAbort,
           RecvNotify, RecvEnqueue, RecvWoken, RecvWokenStopped, RecvCheck,
           RecvUndo, RecvStore, RecvStopped, WorkerStep, WorkerNotify,
           WorkerDequeue, WorkerWoken, WorkerProcess, WorkerFinish,
           SpuriousWakeup, Arrive, Resend
<1> QED
  BY <1>1, InductiveInvariant, PTL DEF Spec, ReceivedDataStable

-----------------------------------------------------------------------------
\* What main has joined stays ended.
JoinedInv ==
  /\ main \in {"joinWorks", "freed"} => pc[Recv] \in {"none", "done"}
  /\ main = "freed" => \A w \in Worker : pc[w] \in {"none", "done"}

LEMMA EndedThreadsStayEnded ==
  ASSUME IInv, [Next]_vars, main \notin {"launch"},
         NEW t \in Thread, pc[t] \in {"none", "done"}
  PROVE  pc'[t] = pc[t]
<1> USE Constants DEF IInv, TypeOK, mainVars, networkVars, Goto, Waiting,
                      SignalCond, SignalStart, RecvExit
<1>1. CASE ReceiverStep \/ ReceiverFault
  BY <1>1
     DEF ReceiverStep, ReceiverFault, RecvOpen, RecvOpenFails, RecvAbort,
         RecvNotify, RecvEnqueue, RecvWoken, ScanForFree, RecvWokenStopped,
         RecvCheck, RecvFrom, RecvFromFails, RecvUndo, RecvStore, RecvStopped
<1>2. ASSUME NEW w \in Worker, WorkerStep(w)
      PROVE  pc'[t] = pc[t]
  BY <1>2 DEF WorkerStep, WorkerNotify, WorkerDequeue, WorkerWoken,
              ScanForReceived, WorkerProcess, WorkerFinish
<1>3. CASE MainStep \/ MainEscape \/ MainPokeFails \/ MainSpuriousWakeup
  BY <1>3
     DEF MainStep, MainEscape, MainPokeFails, MainSpuriousWakeup,
         MainCreateWorker, MainCreateRecv, MainAwait, MainWorkerStarted,
         MainRecvStarted, MainStop, BroadcastCond, MainPoke, MainJoinRecv,
         MainJoinWorks
<1>4. ASSUME NEW u \in Thread, SpuriousWakeup(u)
      PROVE  pc'[t] = pc[t]
  BY <1>4 DEF SpuriousWakeup
<1>5. ASSUME NEW d \in Datagram, Arrive(d) \/ Resend(d)
      PROVE  pc'[t] = pc[t]
  BY <1>5 DEF Arrive, Resend
<1>6. CASE UNCHANGED vars
  BY <1>6 DEF vars
<1> QED
  BY <1>1, <1>2, <1>3, <1>4, <1>5, <1>6 DEF Next

\* Only main's own steps change where main is, once it has left the waits.
LEMMA MainMovesItself ==
  ASSUME [Next]_vars, main # "blocked"
  PROVE  \/ UNCHANGED main
         \/ MainStep \/ MainEscape \/ MainPokeFails
BY DEF Next, vars, mainVars, MainSpuriousWakeup, SignalStart,
       ReceiverStep, ReceiverFault, RecvOpen, RecvOpenFails, RecvAbort,
       RecvNotify, RecvEnqueue, RecvWoken, RecvWokenStopped, RecvCheck,
       RecvFrom, RecvFromFails, RecvUndo, RecvStore, RecvStopped,
       WorkerStep, WorkerNotify, WorkerDequeue, WorkerWoken, WorkerProcess,
       WorkerFinish, SpuriousWakeup, Arrive, Resend

\* When the slots, the mutex and the condition variables are freed, no thread
\* is left to use them.
THEOREM FreedWhenUnused == Spec => []NoUseAfterFree
<1>1. Init => JoinedInv
  BY DEF Init, JoinedInv
<1>2. ASSUME IInv, JoinedInv, [Next]_vars
      PROVE  JoinedInv'
  <2>1. main # "launch" =>
          \A t \in Thread : pc[t] \in {"none", "done"} => pc'[t] = pc[t]
    BY <1>2, EndedThreadsStayEnded
  <2>2. CASE main' \notin {"joinWorks", "freed"}
    BY <2>2 DEF JoinedInv
  <2>3. CASE main' \in {"joinWorks", "freed"} /\ main' = main
    BY <1>2, <2>1, <2>3, Constants DEF JoinedInv
  <2>4. CASE main' \in {"joinWorks", "freed"} /\ main' # main
    <3>1. main # "blocked"
      BY <1>2, <2>4
         DEF Next, vars, MainStep, MainEscape, MainPokeFails, MainSpuriousWakeup,
             MainCreateWorker, MainCreateRecv, MainAwait, MainWorkerStarted,
             MainRecvStarted, MainStop, MainPoke, MainJoinRecv, MainJoinWorks,
             mainVars, SignalStart, ReceiverStep, ReceiverFault, RecvOpen,
             RecvOpenFails, RecvAbort, RecvNotify, RecvEnqueue, RecvWoken,
             RecvWokenStopped, RecvCheck, RecvFrom, RecvFromFails, RecvUndo,
             RecvStore, RecvStopped, WorkerStep, WorkerNotify, WorkerDequeue,
             WorkerWoken, WorkerProcess, WorkerFinish, SpuriousWakeup, Arrive,
             Resend
    <3>2. MainJoinRecv \/ MainJoinWorks
      BY <1>2, <2>4, <3>1, MainMovesItself
         DEF MainStep, MainEscape, MainPokeFails, MainCreateWorker,
             MainCreateRecv, MainAwait, MainWorkerStarted, MainRecvStarted,
             MainStop, MainPoke
    <3> QED
      BY <1>2, <2>1, <3>2, Constants DEF MainJoinRecv, MainJoinWorks, JoinedInv
  <2> QED
    BY <2>2, <2>3, <2>4
<1>3. JoinedInv => NoUseAfterFree
  BY Constants DEF JoinedInv, NoUseAfterFree
<1> QED
  BY <1>1, <1>2, <1>3, InductiveInvariant, PTL DEF Spec
-----------------------------------------------------------------------------
(***************************************************************************)
(* Starting, when no wait ends without a signal.                           *)
(***************************************************************************)
\* Main creates the next thread only when the last one has signalled, so the
\* signal that wakes it is that of the thread it has created last.
OpeningInv ==
  /\ main \in {"launch", "awake"} \/ pc[Recv] # "none" =>
       \A w \in Worker : pc[w] # "init"
  /\ main \in {"await", "blocked"} =>
       \A w \in Worker : pc[w] = "init" => w = threadRunCount + 1
  /\ main \in {"awake", "running"} => pc[Recv] \notin {"init", "notify", "abort"}
  /\ main = "running" => pc[Recv] # "none"
  /\ pc[Recv] = "done" => ~isRuning

\* A step of the receiver keeps OpeningInv.
LEMMA ReceiverKeepsOpening ==
  ASSUME IInv, OpeningInv, ReceiverStep \/ ReceiverFault
  PROVE  OpeningInv'
<1> USE Constants DEF IInv, TypeOK, OpeningInv, mainVars, Goto, Waiting,
                      SignalCond, SignalStart, RecvExit
<1>1. CASE RecvOpen
  BY <1>1 DEF RecvOpen
<1>2. CASE RecvAbort
  <2>1. /\ pc[Recv] = "abort" /\ pc' = [pc EXCEPT ![Recv] = "done"]
        /\ main' = IF main = "blocked" THEN "awake" ELSE main
        /\ threadRunCount' = threadRunCount
    BY ONLY <1>2 DEF RecvAbort, SignalStart, RecvExit, Goto, mainVars
  <2>2. ~isRuning'
    BY ONLY <1>2 DEF RecvAbort
  <2>3. pc'[Recv] = "done" /\ \A w \in Worker : pc'[w] = pc[w]
    BY <2>1
  <2> QED BY <2>1, <2>2, <2>3
<1>3. CASE RecvNotify
  BY <1>3 DEF RecvNotify
<1>4. CASE RecvEnqueue \/ RecvWoken
  BY <1>4 DEF RecvEnqueue, RecvWoken, ScanForFree
<1>5. CASE RecvWokenStopped \/ RecvCheck \/ RecvStopped
  BY <1>5 DEF RecvWokenStopped, RecvCheck, RecvStopped
<1>6. CASE RecvFrom \/ RecvUndo \/ RecvFromFails
  BY <1>6 DEF RecvFrom, RecvUndo, RecvFromFails
<1>7. CASE RecvStore
  BY <1>7 DEF RecvStore
<1>8. CASE RecvOpenFails
  BY <1>8 DEF RecvOpenFails
<1> QED
  BY <1>1, <1>2, <1>3, <1>4, <1>5, <1>6, <1>7, <1>8 DEF ReceiverStep, ReceiverFault

\* A step of a worker keeps OpeningInv.
LEMMA WorkerKeepsOpening ==
  ASSUME IInv, OpeningInv, NEW w \in Worker, WorkerStep(w)
  PROVE  OpeningInv'
<1> USE Constants DEF IInv, TypeOK, OpeningInv, mainVars, Goto, Waiting,
                      SignalCond, SignalStart
<1>1. CASE WorkerNotify(w)
  BY <1>1 DEF WorkerNotify
<1>2. CASE WorkerDequeue(w) \/ WorkerWoken(w)
  BY <1>2 DEF WorkerDequeue, WorkerWoken, ScanForReceived
<1>3. CASE WorkerProcess(w)
  BY <1>3 DEF WorkerProcess
<1>4. CASE WorkerFinish(w)
  BY <1>4 DEF WorkerFinish
<1> QED
  BY <1>1, <1>2, <1>3, <1>4 DEF WorkerStep

\* A step of main keeps OpeningInv, if no wait ends without a signal.
LEMMA MainKeepsOpening ==
  ASSUME "spurious" \notin Faults, IInv, OpeningInv,
         MainStep \/ MainEscape \/ MainPokeFails \/ MainSpuriousWakeup
  PROVE  OpeningInv'
<1> USE Constants DEF IInv, TypeOK, StartInv, OpeningInv, mainVars, networkVars
<1>1. CASE MainCreateWorker
  <2> DEFINE next == threadRunCount + 1
  <2>1. next \in Worker /\ next \in Thread /\ next # Recv
    BY <1>1 DEF MainCreateWorker, Worker
  <2>2. /\ main = "launch" /\ main' = "await" /\ pc' = [pc EXCEPT ![next] = "init"]
        /\ threadRunCount' = threadRunCount /\ isRuning' = isRuning
    BY <1>1 DEF MainCreateWorker
  <2>3. pc'[Recv] = "none" /\ \A w \in Worker : pc'[w] = "init" => w = threadRunCount' + 1
    BY <2>1, <2>2
  <2> QED BY <2>2, <2>3
<1>2. CASE MainCreateRecv
  BY <1>2 DEF MainCreateRecv
<1>3. CASE MainAwait
  BY <1>3 DEF MainAwait
<1>4. CASE MainWorkerStarted \/ MainRecvStarted
  BY <1>4 DEF MainWorkerStarted, MainRecvStarted
<1>5. CASE MainStop
  BY <1>5 DEF MainStop, BroadcastCond, Waiting
<1>6. CASE MainPoke \/ MainPokeFails \/ MainJoinRecv \/ MainJoinWorks \/ MainEscape
  BY <1>6 DEF MainPoke, MainPokeFails, MainJoinRecv, MainJoinWorks, MainEscape
<1>7. CASE MainSpuriousWakeup
  BY <1>7 DEF MainSpuriousWakeup
<1> QED
  BY <1>1, <1>2, <1>3, <1>4, <1>5, <1>6, <1>7 DEF MainStep

\* When Start has returned KC_OK and the server has not failed since, the
\* socket is bound: true as long as pthread_cond_wait returns only when it has
\* been signalled, since the code checks no predicate after it.
THEOREM StartedMeansBound ==
  "spurious" \notin Faults => (Spec => []StartMeansListening)
<1> SUFFICES ASSUME "spurious" \notin Faults
             PROVE  Spec => []StartMeansListening
  OBVIOUS
<1>1. Init => OpeningInv
  BY Constants DEF Init, OpeningInv
<1>2. ASSUME IInv, OpeningInv, [Next]_vars
      PROVE  OpeningInv'
  <2>1. CASE \E t \in Thread : SpuriousWakeup(t)
    BY <2>1 DEF SpuriousWakeup
  <2>2. CASE \E d \in Datagram : Arrive(d) \/ Resend(d)
    BY <1>2, <2>2 DEF Arrive, Resend, mainVars, OpeningInv
  <2>3. CASE UNCHANGED vars
    BY <1>2, <2>3 DEF vars, OpeningInv
  <2> QED
    BY <1>2, <2>1, <2>2, <2>3, ReceiverKeepsOpening, WorkerKeepsOpening,
       MainKeepsOpening DEF Next
<1>3. OpeningInv => StartMeansListening
  BY DEF OpeningInv, StartMeansListening, Listening
<1> QED
  BY <1>1, <1>2, <1>3, InductiveInvariant, PTL DEF Spec

-----------------------------------------------------------------------------
(***************************************************************************)
(* The threads implement the bounded pool of DatagramPool.                 *)
(***************************************************************************)
\* The slots that are being processed, and the workers that do it.
InProcess   == {s \in Slot : flag[s] = COMPLETE}
BusyWorkers == {w \in Worker : pc[w] \in {"process", "finish"}}

LEMMA SlotsAreFinite ==
  ASSUME NEW S \in SUBSET Slot
  PROVE  IsFiniteSet(S) /\ Cardinality(S) \in Nat /\ Cardinality(S) <= QueueMax
<1>1. IsFiniteSet(Slot) /\ Cardinality(Slot) = QueueMax
  BY FS_Interval, QueueMaxAssumption DEF Slot
<1> QED
  BY <1>1, FS_Subset, FS_CardinalityType

\* Distinct datagrams in the pool lie in distinct received slots.
LEMMA PooledDataFits ==
  /\ IsFiniteSet(PooledData)
  /\ Cardinality(PooledData) \in Nat
  /\ Cardinality(PooledData) <= Cardinality(Received)
<1> DEFINE content == [s \in Received |-> buf[s]]
<1>1. content \in Surjection(Received, PooledData)
  BY DEF Surjection, PooledData
<1>2. IsFiniteSet(Received)
  BY SlotsAreFinite DEF Received
<1> QED
  BY <1>1, <1>2, FS_Surjection, FS_CardinalityType

\* Busy workers work on distinct slots.
LEMMA BusyWorkersFit ==
  ASSUME IInv
  PROVE  /\ IsFiniteSet(BusyWorkers)
         /\ Cardinality(BusyWorkers) \in Nat
         /\ Cardinality(BusyWorkers) <= Cardinality(InProcess)
<1> DEFINE slotOf == [w \in BusyWorkers |-> item[w]]
<1>1. \A w \in BusyWorkers : item[w] \in InProcess
  BY Constants DEF BusyWorkers, InProcess, IInv, TypeOK, SlotOwnership,
                   HoldersInv, OwnerFlag
<1>2. \A v, w \in BusyWorkers : item[v] = item[w] => v = w
  BY Constants DEF BusyWorkers, IInv, SlotOwnership, HoldersInv
<1>3. slotOf \in Injection(BusyWorkers, InProcess)
  BY <1>1, <1>2 DEF Injection, IsInjective
<1>4. IsFiniteSet(InProcess)
  BY SlotsAreFinite DEF InProcess
<1> QED
  BY <1>3, <1>4, FS_Injection, FS_CardinalityType

\* While the receiver holds a slot, there is room for its datagram.
LEMMA RoomForOne ==
  ASSUME IInv, pc[Recv] = "store"
  PROVE  Cardinality(PooledData) + Cardinality(BusyWorkers) < QueueMax
<1> DEFINE mine == {item[Recv]}
           both == Received \cup InProcess
<1>1. /\ mine \subseteq Slot /\ both \subseteq Slot
      /\ mine \cap both = {}
      /\ Received \cap InProcess = {}
  BY Constants, FlagsDiffer
     DEF IInv, TypeOK, SlotOwnership, HoldersInv, OwnerFlag, Received,
         InProcess
<1>2. Cardinality(both) = Cardinality(Received) + Cardinality(InProcess)
  <2>1. /\ IsFiniteSet(Received) /\ Cardinality(Received) \in Nat
        /\ IsFiniteSet(InProcess) /\ Cardinality(InProcess) \in Nat
    BY SlotsAreFinite DEF Received, InProcess
  <2>2. Cardinality(both) = Cardinality(Received) + Cardinality(InProcess)
                              - Cardinality(Received \cap InProcess)
    BY ONLY <2>1, FS_Union
  <2>3. Cardinality(Received \cap InProcess) = 0
    BY <1>1, FS_EmptySet
  <2> QED
    BY <2>1, <2>2, <2>3
<1>3. Cardinality(both \cup mine) = Cardinality(both) + 1
  BY <1>1, SlotsAreFinite, FS_AddElement
<1>4. Cardinality(both \cup mine) <= QueueMax
  BY <1>1, SlotsAreFinite
<1>5. Cardinality(Received) \in Nat /\ Cardinality(InProcess) \in Nat
  BY SlotsAreFinite DEF Received, InProcess
<1> QED
  BY <1>2, <1>3, <1>4, <1>5, PooledDataFits, BusyWorkersFit, QueueMaxAssumption

-----------------------------------------------------------------------------
\* What the pool counts as occupied.
LEMMA MappedWorkers ==
  ASSUME IInv
  PROVE  Pool!Working \cup Releasing = BusyWorkers
<1>1. \A w \in Worker : pc[w] = "process" => buf[item[w]] # NoData
  BY Constants, DatagramAssumption
     DEF IInv, TypeOK, SlotOwnership, HoldersInv, DataInv, OwnerFlag
<1>2. \A w \in Worker : InHand[w] # NoData <=> pc[w] = "process"
  BY <1>1 DEF InHand
<1> QED
  BY <1>2 DEF Pool!Working, Releasing, BusyWorkers

LEMMA SameCardinality == \A S : Pool!Cardinality(S) = Cardinality(S)
BY DEF Pool!Cardinality, Cardinality

LEMMA InitRefines == Init => Pool!Init
BY Constants, FlagsDiffer
   DEF Init, Pool!Init, PooledData, Received, InHand, Releasing

\* The mapped variables change only with the variables they are made of.
LEMMA SamePool ==
  ASSUME UNCHANGED <<isRuning, flag, buf, processed>>,
         \A w \in Worker :
           /\ item'[w] = item[w]
           /\ pc[w] = "process" <=> pc'[w] = "process"
           /\ pc[w] = "finish" <=> pc'[w] = "finish"
  PROVE  UNCHANGED Pool!poolVars
<1>1. PooledData' = PooledData
  BY DEF PooledData, Received
<1>2. InHand' = InHand
  BY DEF InHand
<1>3. Releasing' = Releasing
  BY DEF Releasing
<1> QED
  BY <1>1, <1>2, <1>3 DEF Pool!poolVars

LEMMA ReceiverRefines ==
  ASSUME DeliveryInv, ReceiverStep \/ ReceiverFault
  PROVE  Pool!Next \/ UNCHANGED Pool!poolVars
<1> USE Constants, FlagsDiffer, FlagBits, FirstHasFlag, DatagramAssumption
    DEF DeliveryInv, IInv, TypeOK, SlotOwnership, HoldersInv, DataInv,
        OwnerFlag, mainVars, networkVars, Goto, Waiting, SignalCond, RecvExit
<1>1. CASE RecvOpen
  BY <1>1, SamePool DEF RecvOpen
<1>3. CASE RecvNotify
  BY <1>3, SamePool DEF RecvNotify
<1>4. ASSUME ScanForFree, pc[Recv] \in {"enqueue", "woken"},
             UNCHANGED <<isRuning, buf, processed>>
      PROVE  UNCHANGED Pool!poolVars
  <2>1. Received' = Received
    BY <1>4 DEF ScanForFree, Received
  <2>2. PooledData' = PooledData
    BY <1>4, <2>1 DEF PooledData
  <2>3. \A w \in Worker : pc'[w] = pc[w] /\ item'[w] = item[w]
    BY <1>4 DEF ScanForFree
  <2>4. InHand' = InHand /\ Releasing' = Releasing
    BY <1>4, <2>3 DEF InHand, Releasing
  <2> QED
    BY <1>4, <2>2, <2>4 DEF Pool!poolVars
<1>5. CASE RecvEnqueue
  BY <1>4, <1>5 DEF RecvEnqueue
<1>6. CASE RecvWoken
  BY <1>4, <1>6 DEF RecvWoken
<1>7. CASE RecvWokenStopped
  BY <1>7, SamePool DEF RecvWokenStopped
<1>8. CASE RecvCheck
  BY <1>8, SamePool DEF RecvCheck
<1>9. ASSUME NEW x, pc[Recv] = "recvfrom",
             buf' = [buf EXCEPT ![item[Recv]] = x],
             \A w \in Worker : pc'[w] = pc[w],
             UNCHANGED <<isRuning, flag, item, processed>>
      PROVE  UNCHANGED Pool!poolVars
  <2>1. Received' = Received
    BY <1>9 DEF Received
  <2>2. \A s \in Received : buf'[s] = buf[s]
    BY <1>9 DEF Received
  <2>3. PooledData' = PooledData
    BY <2>1, <2>2 DEF PooledData
  <2>4. \A w \in Worker : pc[w] = "process" => buf'[item[w]] = buf[item[w]]
    BY <1>9
  <2>5. InHand' = InHand /\ Releasing' = Releasing
    BY <1>9, <2>4 DEF InHand, Releasing
  <2> QED
    BY <1>9, <2>3, <2>5 DEF Pool!poolVars
<1>10. CASE RecvFrom
  <2>1. PICK x \in inbox : buf' = [buf EXCEPT ![item[Recv]] = x]
    BY ONLY <1>10 DEF RecvFrom
  <2>2. \A w \in Worker : pc'[w] = pc[w]
    BY <1>10 DEF RecvFrom
  <2>3. pc[Recv] = "recvfrom" /\ UNCHANGED <<isRuning, flag, item, processed>>
    BY ONLY <1>10 DEF RecvFrom
  <2> QED
    BY ONLY <1>9, <2>1, <2>2, <2>3
<1>11. CASE RecvFromFails
  <2>1. \A w \in Worker : pc'[w] = pc[w]
    BY <1>11 DEF RecvFromFails
  <2>2. /\ pc[Recv] = "recvfrom"
        /\ buf' = [buf EXCEPT ![item[Recv]] = NoData]
        /\ UNCHANGED <<isRuning, flag, item, processed>>
    BY ONLY <1>11 DEF RecvFromFails
  <2> QED
    BY ONLY <1>9, <2>1, <2>2
<1>12. CASE RecvUndo
  <2>1. Received' = Received
    BY <1>12 DEF RecvUndo, Received
  <2>2. PooledData' = PooledData
    BY <1>12, <2>1 DEF PooledData, RecvUndo
  <2>3. InHand' = InHand /\ Releasing' = Releasing
    BY <1>12 DEF InHand, Releasing, RecvUndo
  <2> QED
    BY <1>12, <2>2, <2>3 DEF Pool!poolVars, RecvUndo
<1>13. CASE RecvStopped
  BY <1>13, SamePool DEF RecvStopped
<1>14. CASE RecvOpenFails
  BY <1>14, SamePool DEF RecvOpenFails
<1>2. CASE RecvAbort
  <2>1. UNCHANGED <<PooledData, InHand, Releasing, processed>>
    BY <1>2 DEF RecvAbort, PooledData, Received, InHand, Releasing
  <2>2. isRuning \in BOOLEAN /\ isRuning' = FALSE
    BY <1>2 DEF RecvAbort
  <2> QED
    BY ONLY <2>1, <2>2 DEF Pool!Next, Pool!Close, Pool!poolVars
<1>15. CASE RecvStore /\ SignalCond(Recv, "enqueue")
  <2> DEFINE s == item[Recv]
             d == buf[s]
  <2>1. s \in Slot /\ flag[s] = RECV_BEGIN /\ d \in Datagram /\ isRuning
    BY <1>15 DEF RecvStore
  <2>2. /\ flag' = [flag EXCEPT ![s] = RECV_COMPLETE]
        /\ UNCHANGED <<isRuning, buf, processed>>
        /\ \A w \in Worker : item'[w] = item[w]
    BY <1>15, <2>1 DEF RecvStore
  <2>3. \A w \in Worker : /\ pc[w] = "process" <=> pc'[w] = "process"
                          /\ pc[w] = "finish" <=> pc'[w] = "finish"
    BY <1>15 DEF RecvStore
  <2>4. InHand' = InHand /\ Releasing' = Releasing
    BY <2>2, <2>3 DEF InHand, Releasing
  <2>5. Received' = Received \cup {s}
    BY <2>1, <2>2 DEF Received
  <2>6. PooledData' = PooledData \cup {d}
    BY <2>2, <2>5 DEF PooledData
  <2>7. /\ d \notin processed
        /\ d \notin PooledData
        /\ d \notin {InHand[w] : w \in Worker}
    <3>1. s \in Pending
      BY <1>15, <2>1 DEF RecvStore, Pending
    <3>2. \A r \in Received : r \in Pending /\ r # s
      BY <2>1 DEF Received, Pending
    <3>3. \A w \in Worker : pc[w] = "process" =>
            item[w] \in Pending /\ item[w] # s
      BY <2>1 DEF Pending
    <3>4. \A w \in Worker : d # InHand[w]
      BY <2>1, <3>1, <3>3 DEF AtMostOnce, InHand
    <3> QED
      BY <3>1, <3>2, <3>4 DEF AtMostOnce, PooledData
  <2>8. Pool!Occupied < QueueMax
    <3>1. IInv /\ pc[Recv] = "store"
      BY <1>15 DEF RecvStore
    <3> QED
      BY ONLY <3>1, RoomForOne, MappedWorkers, SameCardinality
         DEF Pool!Occupied
  <2>9. Pool!Accept(d)
    BY ONLY <2>1, <2>2, <2>4, <2>6, <2>7, <2>8 DEF Pool!Accept
  <2> QED
    BY ONLY <2>1, <2>9 DEF Pool!Next
<1> QED
  BY <1>1, <1>2, <1>3, <1>5, <1>6, <1>7, <1>8, <1>10, <1>11, <1>12, <1>13,
     <1>14, <1>15 DEF ReceiverStep, ReceiverFault, RecvStore

LEMMA WorkerRefines ==
  ASSUME DeliveryInv, NEW w \in Worker, WorkerStep(w)
  PROVE  Pool!Next \/ UNCHANGED Pool!poolVars
<1> USE Constants, FlagsDiffer, FlagBits, FirstHasFlag, DatagramAssumption
    DEF DeliveryInv, IInv, TypeOK, SlotOwnership, HoldersInv, DataInv,
        OwnerFlag, mainVars, networkVars, Goto, Waiting, SignalCond
<1>1. CASE WorkerNotify(w)
  BY <1>1, SamePool DEF WorkerNotify
<1>2. ASSUME ScanForReceived(w), pc[w] \in {"dequeue", "woken"},
             UNCHANGED <<isRuning, buf, processed>>
      PROVE  Pool!Next \/ UNCHANGED Pool!poolVars
  <2>1. ASSUME NEW s \in First(RECV_COMPLETE), isRuning,
               flag' = [flag EXCEPT ![s] = SetBit(@, PROCESS)],
               item' = [item EXCEPT ![w] = s],
               pc' = [pc EXCEPT ![w] = "process"]
        PROVE  Pool!Next
    <3> DEFINE d == buf[s]
    <3>1. s \in Slot /\ flag[s] = RECV_COMPLETE /\ d \in Datagram
      OBVIOUS
    <3>2. s \in Received /\ \A r \in Received : buf[r] = d => r = s
      BY <3>1 DEF AtMostOnce, Pending, Received
    <3>3. Received' = Received \ {s}
      BY <2>1, <3>1 DEF Received
    <3>4. PooledData' = PooledData \ {d}
      BY <1>2, <3>2, <3>3 DEF PooledData
    <3>5. d \in PooledData
      BY <3>2 DEF PooledData
    <3>6. w \notin Pool!Working \cup Releasing
      BY <1>2, MappedWorkers DEF BusyWorkers
    <3>7. InHand' = [InHand EXCEPT ![w] = d]
      BY <1>2, <2>1, ZenonT(40) DEF InHand
    <3>8. Releasing' = Releasing
      BY <1>2, <2>1 DEF Releasing
    <3>9. Pool!Take(w, d)
      BY ONLY <1>2, <2>1, <3>4, <3>5, <3>6, <3>7, <3>8 DEF Pool!Take
    <3> HIDE DEF d
    <3> QED
      BY ONLY <3>1, <3>9, w \in Worker DEF Pool!Next
  <2>2. CASE /\ UNCHANGED <<flag, item>>
             /\ \/ pc' = [pc EXCEPT ![w] = "done"]
                \/ pc' = [pc EXCEPT ![w] = "wait"]
    BY <1>2, <2>2, SamePool
  <2> QED
    BY <1>2, <2>1, <2>2 DEF ScanForReceived
<1>3. CASE WorkerDequeue(w)
  BY <1>2, <1>3 DEF WorkerDequeue
<1>4. CASE WorkerWoken(w)
  <2>1. CASE isRuning
    BY <1>2, <1>4, <2>1 DEF WorkerWoken
  <2>2. CASE ~isRuning
    BY <1>4, <2>2, SamePool DEF WorkerWoken
  <2> QED
    BY <2>1, <2>2
<1>5. CASE WorkerProcess(w)
  <2>1. buf[item[w]] \in Datagram /\ buf[item[w]] # NoData
    BY <1>5 DEF WorkerProcess
  <2>2. InHand[w] = buf[item[w]]
    BY <1>5 DEF WorkerProcess, InHand
  <2>3. InHand' = [InHand EXCEPT ![w] = NoData]
    BY <1>5, ZenonT(40) DEF WorkerProcess, InHand
  <2>4. Releasing' = Releasing \cup {w}
    BY <1>5 DEF WorkerProcess, Releasing
  <2>5. PooledData' = PooledData
    BY <1>5 DEF WorkerProcess, PooledData, Received
  <2>6. UNCHANGED isRuning /\ processed' = processed \cup {InHand[w]}
    BY <1>5, <2>2 DEF WorkerProcess
  <2>7. Pool!Handle(w)
    BY ONLY <2>1, <2>2, <2>3, <2>4, <2>5, <2>6, w \in Worker
       DEF Pool!Handle, Pool!Working
  <2> QED
    BY ONLY <2>7, w \in Worker DEF Pool!Next
<1>6. CASE WorkerFinish(w)
  <2>1. flag[item[w]] = COMPLETE /\ item[w] \in Slot
    BY <1>6 DEF WorkerFinish
  <2>2. \A v \in Worker \ {w} :
          /\ item'[v] = item[v]
          /\ pc[v] = "process" <=> pc'[v] = "process"
          /\ pc[v] = "finish" <=> pc'[v] = "finish"
    BY <1>6 DEF WorkerFinish
  <2>3. pc'[w] \in {"dequeue", "done"} /\ pc[w] = "finish"
    BY <1>6 DEF WorkerFinish
  <2>4. Received' = Received
    BY <1>6, <2>1 DEF WorkerFinish, Received
  <2>5. UNCHANGED <<isRuning, buf, processed>>
    BY <1>6 DEF WorkerFinish
  <2>6. PooledData' = PooledData
    BY <2>4, <2>5 DEF PooledData
  <2>7. InHand' = InHand
    BY <2>2, <2>3, <2>5 DEF InHand
  <2>8. w \in Releasing /\ Releasing' = Releasing \ {w}
    BY <2>2, <2>3 DEF Releasing
  <2>9. Pool!Release(w)
    BY ONLY <2>5, <2>6, <2>7, <2>8 DEF Pool!Release
  <2> QED
    BY ONLY <2>9, w \in Worker DEF Pool!Next
<1> QED
  BY <1>1, <1>3, <1>4, <1>5, <1>6 DEF WorkerStep

LEMMA OthersRefine ==
  ASSUME DeliveryInv,
         \/ MainStep \/ MainEscape \/ MainPokeFails \/ MainSpuriousWakeup
         \/ \E t \in Thread : SpuriousWakeup(t)
         \/ \E d \in Datagram : Arrive(d) \/ Resend(d)
         \/ UNCHANGED vars
  PROVE  Pool!Next \/ UNCHANGED Pool!poolVars
<1> USE Constants DEF DeliveryInv, IInv, TypeOK, StartInv, mainVars, networkVars
<1>1. CASE MainCreateWorker
  BY <1>1, SamePool DEF MainCreateWorker
<1>2. CASE MainCreateRecv
  BY <1>2, SamePool DEF MainCreateRecv
<1>3. CASE \/ MainAwait \/ MainWorkerStarted \/ MainRecvStarted \/ MainPoke
           \/ MainJoinRecv \/ MainJoinWorks \/ MainEscape \/ MainPokeFails
           \/ MainSpuriousWakeup \/ \E d \in Datagram : Arrive(d)
           \/ UNCHANGED vars
  <2>1. UNCHANGED <<isRuning, flag, buf, item, pc, processed>>
    BY ONLY <1>3
       DEF MainAwait, MainWorkerStarted, MainRecvStarted, MainPoke,
           MainJoinRecv, MainJoinWorks, MainEscape, MainPokeFails,
           MainSpuriousWakeup, Arrive, vars
  <2> QED
    BY <2>1, SamePool
<1>4. CASE MainStop
  <2>1. /\ UNCHANGED <<flag, buf, item, processed>>
        /\ \A w \in Worker : /\ pc[w] = "process" <=> pc'[w] = "process"
                             /\ pc[w] = "finish" <=> pc'[w] = "finish"
    BY <1>4 DEF MainStop, BroadcastCond, Waiting
  <2>2. UNCHANGED <<PooledData, InHand, Releasing, processed>>
    BY <2>1 DEF PooledData, Received, InHand, Releasing
  <2>3. isRuning \in BOOLEAN /\ isRuning' = FALSE
    BY <1>4 DEF MainStop
  <2> QED
    BY ONLY <2>2, <2>3 DEF Pool!Next, Pool!Close, Pool!poolVars
<1>5. ASSUME NEW t \in Thread, SpuriousWakeup(t)
      PROVE  Pool!Next \/ UNCHANGED Pool!poolVars
  BY <1>5, SamePool DEF SpuriousWakeup, Goto
<1>6. ASSUME NEW d \in Datagram, Resend(d)
      PROVE  Pool!Next \/ UNCHANGED Pool!poolVars
  <2>1. UNCHANGED <<isRuning, flag, buf, item, pc>>
    BY ONLY <1>6 DEF Resend
  <2>2. UNCHANGED <<PooledData, InHand, Releasing>>
    BY ONLY <2>1 DEF PooledData, Received, InHand, Releasing
  <2>3. d \in processed /\ processed' = processed \ {d}
    BY ONLY <1>6 DEF Resend
  <2>4. Pool!Renew(d)
    BY ONLY <2>1, <2>2, <2>3 DEF Pool!Renew
  <2> QED
    BY ONLY <2>4, d \in Datagram DEF Pool!Next
<1> QED
  BY <1>1, <1>2, <1>3, <1>4, <1>5, <1>6 DEF MainStep

\* The server implements the pool: whatever the threads do, in whatever order
\* they get the mutex, seen through the slots that are received, the workers
\* between claiming and releasing a slot, and isRuning, it is a behaviour of
\* DatagramPool.
THEOREM ServerImplementsPool == Spec => ImplementsPool
<1>1. Init => Pool!Init
  BY InitRefines
<1>2. DeliveryInv /\ [Next]_vars => [Pool!Next]_(Pool!poolVars)
  BY ReceiverRefines, WorkerRefines, OthersRefine DEF Next
<1>3. Spec => []DeliveryInv
  BY DeliveryInvariant
<1> QED
  BY <1>1, <1>2, <1>3, PTL DEF Spec, ImplementsPool, Pool!Spec

-----------------------------------------------------------------------------
(***************************************************************************)
(* With at most as many workers as slots, the single signals on the shared *)
(* condition variable suffice: NoLostWakeup holds for any such numbers.    *)
(***************************************************************************)
\* A scan of the array finds a slot when there is one to find: among the
\* slots flagged f, one has the least set of slots before it.
LEMMA FirstExists ==
  ASSUME NEW f, NEW s \in Slot, flag[s] = f
  PROVE  First(f) # {}
<1> DEFINE T == {r \in Slot : flag[r] = f}
           Before(r) == {q \in Slot : q < r}
           U == {Before(r) : r \in T}
           ord == StrictSubsetOrdering(Slot)
<1>1. U \subseteq SUBSET Slot /\ U # {}
  OBVIOUS
<1>2. IsWellFoundedOn(ord, SUBSET Slot)
  <2>1. IsFiniteSet(Slot)
    BY SlotsAreFinite
  <2> QED
    BY <2>1, FS_StrictSubsetOrderingWellFounded, FS_FiniteSubsetsOfFinite
<1>3. \E u \in U : \A v \in U : ~(<<v, u>> \in ord)
  <2> HIDE DEF U, ord
  <2> QED
    BY ONLY <1>1, <1>2, WFMin
<1>4. PICK r \in T : \A q \in T : ~(<<Before(q), Before(r)>> \in ord)
  BY <1>3
<1>5. \A q \in T : ~(q < r)
  <2> SUFFICES ASSUME NEW q \in T, q < r
               PROVE  <<Before(q), Before(r)>> \in ord
    BY <1>4
  <2>1. Before(q) \subseteq Before(r)
    BY Constants DEF Slot
  <2>2. q \in Before(r) /\ q \notin Before(q)
    BY Constants DEF Slot
  <2> QED
    BY <2>1, <2>2 DEF StrictSubsetOrdering
<1>6. r \in First(f)
  BY <1>5, Constants, QueueMaxAssumption DEF First, Slot
<1> QED
  BY <1>6

-----------------------------------------------------------------------------
\* The workers that sleep, and those that will look for a received slot before
\* they sleep again.
Sleepers == {w \in Worker : pc[w] = "wait"}
Scanners == {w \in Worker : pc[w] \in {"none", "init", "dequeue", "woken"}}
NoneFree == \A s \in Slot : flag[s] # NORMAL

\* A worker sleeps only if others are awake for every received slot; the
\* receiver sleeps only if no slot is free, and never while a worker does.
WakeupInv ==
  isRuning =>
    /\ Sleepers # {} => Cardinality(Received) <= Cardinality(Scanners)
    /\ pc[Recv] = "wait" => NoneFree /\ Sleepers = {}

LEMMA WorkersAreFinite ==
  ASSUME NEW S \in SUBSET Worker
  PROVE  IsFiniteSet(S) /\ Cardinality(S) \in Nat /\ Cardinality(S) <= PoolSize
<1>1. IsFiniteSet(Worker) /\ Cardinality(Worker) = PoolSize
  <2>1. PoolSize \in Int /\ ~(1 > PoolSize) /\ PoolSize - 1 + 1 = PoolSize
    BY PoolSizeAssumption
  <2> QED
    BY ONLY <2>1, FS_Interval DEF Worker
<1> QED
  BY <1>1, FS_Subset, FS_CardinalityType

\* When no slot is free and the receiver holds none, every slot is received or
\* keeps a worker busy.
LEMMA FullPool ==
  ASSUME IInv, NoneFree, item[Recv] = NoSlot
  PROVE  QueueMax <= Cardinality(Received) + Cardinality(BusyWorkers)
<1> DEFINE slotOf == [w \in BusyWorkers |-> item[w]]
<1>1. \A w \in BusyWorkers : item[w] \in InProcess
  BY Constants DEF BusyWorkers, InProcess, IInv, TypeOK, SlotOwnership,
                   HoldersInv, OwnerFlag
<1>2. \A s \in InProcess : \E w \in BusyWorkers : item[w] = s
  BY Constants, FlagsDiffer
     DEF BusyWorkers, InProcess, IInv, TypeOK, SlotOwnership, HoldersInv,
         OwnerFlag
<1>3. slotOf \in Surjection(BusyWorkers, InProcess)
  BY <1>1, <1>2 DEF Surjection
<1>4. IsFiniteSet(BusyWorkers) /\ Cardinality(BusyWorkers) \in Nat
  BY WorkersAreFinite DEF BusyWorkers
<1>5. Cardinality(InProcess) <= Cardinality(BusyWorkers)
  BY <1>3, <1>4, FS_Surjection
<1>6. Slot = Received \cup InProcess /\ Received \cap InProcess = {}
  <2>1. \A s \in Slot : flag[s] # RECV_BEGIN
    BY Constants, FlagsDiffer DEF IInv, TypeOK, SlotOwnership, HoldersInv,
                                  OwnerFlag
  <2> QED
    BY <2>1, FlagsDiffer DEF IInv, TypeOK, NoneFree, FlagValue, Received,
                             InProcess
<1>7. /\ IsFiniteSet(Received) /\ Cardinality(Received) \in Nat
      /\ IsFiniteSet(InProcess) /\ Cardinality(InProcess) \in Nat
  BY SlotsAreFinite DEF Received, InProcess
<1>8. Cardinality(Slot) = Cardinality(Received) + Cardinality(InProcess)
  <2>1. Cardinality(Received \cap InProcess) = 0
    BY <1>6, FS_EmptySet
  <2>2. Cardinality(Received \cup InProcess)
          = Cardinality(Received) + Cardinality(InProcess)
              - Cardinality(Received \cap InProcess)
    BY ONLY <1>7, FS_Union
  <2> QED
    BY <1>6, <1>7, <2>1, <2>2
<1>9. Cardinality(Slot) = QueueMax
  BY FS_Interval, QueueMaxAssumption DEF Slot
<1> QED
  BY <1>4, <1>5, <1>7, <1>8, <1>9, QueueMaxAssumption

\* A worker that is not busy leaves at most PoolSize - 1 for the others.
LEMMA OneWorkerLess ==
  ASSUME NEW S \in SUBSET Worker, NEW w \in Worker, w \notin S
  PROVE  Cardinality(S) <= PoolSize - 1
<1>1. /\ IsFiniteSet(S) /\ Cardinality(S) \in Nat
      /\ Cardinality(S \cup {w}) <= PoolSize
  BY WorkersAreFinite
<1>2. Cardinality(S \cup {w}) = Cardinality(S) + 1
  BY <1>1, FS_AddElement
<1> QED
  BY <1>1, <1>2, PoolSizeAssumption

\* No worker sleeps when the receiver is about to.
LEMMA NobodySleeps ==
  ASSUME PoolSize <= QueueMax, IInv, WakeupInv, isRuning, NoneFree,
         item[Recv] = NoSlot
  PROVE  Sleepers = {}
<1> SUFFICES ASSUME NEW w \in Sleepers
             PROVE  FALSE
  OBVIOUS
<1>1. Cardinality(Received) <= Cardinality(Scanners)
  BY DEF WakeupInv
<1>2. Cardinality(Scanners \cup BusyWorkers) <= PoolSize - 1
  BY OneWorkerLess DEF Sleepers, Scanners, BusyWorkers
<1>3. /\ IsFiniteSet(Scanners) /\ Cardinality(Scanners) \in Nat
      /\ IsFiniteSet(BusyWorkers) /\ Cardinality(BusyWorkers) \in Nat
  BY WorkersAreFinite DEF Scanners, BusyWorkers
<1>4. Cardinality(Scanners \cap BusyWorkers) = 0
  <2>1. Scanners \cap BusyWorkers = {}
    BY DEF Scanners, BusyWorkers
  <2> QED
    BY <2>1, FS_EmptySet
<1>5. Cardinality(Scanners \cup BusyWorkers)
        = Cardinality(Scanners) + Cardinality(BusyWorkers)
            - Cardinality(Scanners \cap BusyWorkers)
  BY ONLY <1>3, FS_Union
<1>6. Cardinality(Received) \in Nat
  BY SlotsAreFinite DEF Received
<1> QED
  BY <1>1, <1>2, <1>3, <1>4, <1>5, <1>6, FullPool, QueueMaxAssumption,
     PoolSizeAssumption

\* No worker is without work when no slot is free and none is received.
LEMMA NobodyIdles ==
  ASSUME PoolSize <= QueueMax, IInv, NoneFree, Received = {},
         item[Recv] = NoSlot, NEW w \in Worker, w \notin BusyWorkers
  PROVE  FALSE
<1>1. Cardinality(Received) = 0
  BY FS_EmptySet
<1>2. Cardinality(BusyWorkers) <= PoolSize - 1
  BY OneWorkerLess DEF BusyWorkers
<1>3. Cardinality(BusyWorkers) \in Nat
  BY WorkersAreFinite DEF BusyWorkers
<1> QED
  BY <1>1, <1>2, <1>3, FullPool, QueueMaxAssumption, PoolSizeAssumption

-----------------------------------------------------------------------------
\* A step that adds no received slot, puts no worker to sleep and takes none
\* away from those who look, keeps the first part.
LEMMA FewerReceived ==
  ASSUME WakeupInv, isRuning' => isRuning,
         Received' \subseteq Received, Sleepers' \subseteq Sleepers,
         Scanners \subseteq Scanners'
  PROVE  isRuning' /\ Sleepers' # {} =>
           Cardinality(Received') <= Cardinality(Scanners')
<1> SUFFICES ASSUME isRuning', Sleepers' # {}
             PROVE  Cardinality(Received') <= Cardinality(Scanners')
  OBVIOUS
<1>1. Cardinality(Received) <= Cardinality(Scanners)
  BY DEF WakeupInv
<1>2. /\ IsFiniteSet(Received) /\ Cardinality(Received) \in Nat
      /\ Cardinality(Received') \in Nat
      /\ Cardinality(Received') <= Cardinality(Received)
  BY SlotsAreFinite, FS_Subset DEF Received
<1>3. Scanners' \subseteq Worker
  BY DEF Scanners
<1>4. IsFiniteSet(Scanners')
  BY ONLY <1>3, WorkersAreFinite
<1>5. /\ Cardinality(Scanners) \in Nat /\ Cardinality(Scanners') \in Nat
      /\ Cardinality(Scanners) <= Cardinality(Scanners')
  BY ONLY <1>4, FS_Subset, FS_CardinalityType, Scanners \subseteq Scanners'
<1> QED
  BY ONLY <1>1, <1>2, <1>5

\* One more received slot, one more worker that looks.
LEMMA OneMoreReceived ==
  ASSUME Sleepers # {}, isRuning, WakeupInv,
         NEW s \in Slot, Received' = Received \cup {s},
         NEW u \in Sleepers, Scanners' = Scanners \cup {u}
  PROVE  Cardinality(Received') <= Cardinality(Scanners')
<1>1. Cardinality(Received) <= Cardinality(Scanners)
  BY DEF WakeupInv
<1>2. IsFiniteSet(Received) /\ Cardinality(Received) \in Nat
  BY SlotsAreFinite DEF Received
<1>3. IsFiniteSet(Scanners) /\ Cardinality(Scanners) \in Nat /\ u \notin Scanners
  BY WorkersAreFinite DEF Scanners, Sleepers
<1>4. Cardinality(Scanners') = Cardinality(Scanners) + 1
  BY ONLY <1>3, FS_AddElement, Scanners' = Scanners \cup {u}
<1>5. /\ Cardinality(Received') \in Nat
      /\ Cardinality(Received') <= Cardinality(Received) + 1
  <2>1. /\ IsFiniteSet(Received \cup {s})
        /\ \/ Cardinality(Received \cup {s}) = Cardinality(Received)
           \/ Cardinality(Received \cup {s}) = Cardinality(Received) + 1
    BY ONLY <1>2, FS_AddElement
  <2> QED
    BY ONLY <1>2, <2>1, Received' = Received \cup {s}
<1> QED
  BY ONLY <1>1, <1>2, <1>3, <1>4, <1>5

\* One received slot less, one worker less that looks.
LEMMA OneLessReceived ==
  ASSUME Sleepers # {}, isRuning, WakeupInv,
         NEW s \in Received, Received' = Received \ {s},
         NEW w \in Scanners, Scanners' = Scanners \ {w}
  PROVE  Cardinality(Received') <= Cardinality(Scanners')
<1>1. Cardinality(Received) <= Cardinality(Scanners)
  BY DEF WakeupInv
<1>2. IsFiniteSet(Received) /\ Cardinality(Received) \in Nat
  BY SlotsAreFinite DEF Received
<1>3. IsFiniteSet(Scanners) /\ Cardinality(Scanners) \in Nat
  BY WorkersAreFinite DEF Scanners
<1>4. Cardinality(Scanners') = Cardinality(Scanners) - 1
  BY ONLY <1>3, FS_RemoveElement, w \in Scanners, Scanners' = Scanners \ {w}
<1>5. Cardinality(Received') = Cardinality(Received) - 1
  BY ONLY <1>2, FS_RemoveElement, s \in Received, Received' = Received \ {s}
<1> QED
  BY ONLY <1>1, <1>2, <1>3, <1>4, <1>5

-----------------------------------------------------------------------------
LEMMA ReceiverKeepsWakeup ==
  ASSUME PoolSize <= QueueMax, IInv, WakeupInv, ReceiverStep \/ ReceiverFault
  PROVE  WakeupInv'
<1> USE Constants, FlagsDiffer, FlagBits, FirstHasFlag
    DEF IInv, TypeOK, SlotOwnership, HoldersInv, OwnerFlag, mainVars,
        networkVars, Goto, Waiting, SignalCond, RecvExit
<1>1. ASSUME UNCHANGED <<flag, isRuning>>, \A w \in Worker : pc'[w] = pc[w],
             pc'[Recv] # "wait"
      PROVE  WakeupInv'
  <2>1. UNCHANGED <<Received, Sleepers, Scanners, isRuning>>
    BY <1>1 DEF Received, Sleepers, Scanners
  <2> QED
    BY ONLY <1>1, <2>1, WakeupInv DEF WakeupInv
<1>2. CASE RecvOpen
  BY <1>1, <1>2 DEF RecvOpen
<1>3. CASE RecvOpenFails
  BY <1>1, <1>3 DEF RecvOpenFails
<1>4. CASE RecvAbort
  BY <1>4 DEF RecvAbort, WakeupInv
<1>5. CASE RecvNotify
  BY <1>1, <1>5 DEF RecvNotify
<1>6. ASSUME ScanForFree, pc[Recv] \in {"enqueue", "woken"}, UNCHANGED isRuning
      PROVE  WakeupInv'
  <2>1. /\ \A w \in Worker : pc'[w] = pc[w]
        /\ Received' = Received /\ Sleepers' = Sleepers /\ Scanners' = Scanners
    BY <1>6 DEF ScanForFree, Received, Sleepers, Scanners
  <2>2. CASE First(NORMAL) # {}
    <3>1. pc'[Recv] = "check"
      BY <1>6, <2>2 DEF ScanForFree
    <3> QED
      BY ONLY <1>6, <2>1, <3>1, WakeupInv DEF WakeupInv
  <2>3. CASE First(NORMAL) = {}
    <3>1. NoneFree /\ UNCHANGED flag
      BY <1>6, <2>3, FirstExists DEF ScanForFree, NoneFree
    <3>2. item[Recv] = NoSlot
      BY <1>6
    <3>3. NoneFree'
      BY ONLY <3>1 DEF NoneFree
    <3>4. isRuning => Sleepers = {}
      BY <3>1, <3>2, NobodySleeps
    <3> QED
      BY ONLY <1>6, <2>1, <3>3, <3>4, WakeupInv DEF WakeupInv
  <2> QED
    BY <2>2, <2>3
<1>7. CASE RecvEnqueue
  BY <1>6, <1>7 DEF RecvEnqueue
<1>8. CASE RecvWoken
  BY <1>6, <1>8 DEF RecvWoken
<1>9. CASE RecvWokenStopped
  BY <1>1, <1>9 DEF RecvWokenStopped
<1>10. CASE RecvCheck
  BY <1>1, <1>10 DEF RecvCheck
<1>11. CASE RecvFrom
  BY <1>1, <1>11 DEF RecvFrom
<1>12. CASE RecvFromFails
  BY <1>1, <1>12 DEF RecvFromFails
<1>13. CASE RecvUndo
  <2>1. UNCHANGED <<Received, Sleepers, Scanners, isRuning>>
    BY <1>13 DEF RecvUndo, Received, Sleepers, Scanners
  <2>2. pc'[Recv] = "enqueue"
    BY <1>13 DEF RecvUndo
  <2> QED
    BY ONLY <2>1, <2>2, WakeupInv DEF WakeupInv
<1>14. CASE RecvStopped
  BY <1>1, <1>14 DEF RecvStopped
<1>15. CASE RecvStore
  <2> DEFINE s == item[Recv]
  <2>1. s \in Slot /\ flag[s] = RECV_BEGIN /\ pc[Recv] = "store"
    BY <1>15 DEF RecvStore
  <2>2. Received' = Received \cup {s} /\ isRuning /\ isRuning' = isRuning
    BY <1>15, <2>1 DEF RecvStore, Received
  <2>3. ASSUME NEW u \in Waiting,
               pc' = [pc EXCEPT ![Recv] = "enqueue", ![u] = "woken"]
        PROVE  WakeupInv'
    <3>1. u \in Sleepers
      BY <2>1 DEF Sleepers
    <3>2. Scanners' = Scanners \cup {u} /\ pc'[Recv] = "enqueue"
      BY <2>3, <3>1 DEF Scanners, Sleepers
    <3>3. Cardinality(Received') <= Cardinality(Scanners')
      BY ONLY <2>1, <2>2, <3>1, <3>2, WakeupInv, OneMoreReceived
    <3> QED
      BY ONLY <3>2, <3>3 DEF WakeupInv
  <2>4. ASSUME Waiting = {}, Goto(Recv, "enqueue")
        PROVE  WakeupInv'
    <3>1. Sleepers' = {} /\ pc'[Recv] = "enqueue"
      BY <2>4 DEF Sleepers
    <3> QED
      BY ONLY <3>1 DEF WakeupInv
  <2> QED
    BY <1>15, <2>3, <2>4 DEF RecvStore
<1> QED
  BY <1>2, <1>3, <1>4, <1>5, <1>7, <1>8, <1>9, <1>10, <1>11, <1>12, <1>13,
     <1>14, <1>15 DEF ReceiverStep, ReceiverFault

LEMMA WorkerKeepsWakeup ==
  ASSUME PoolSize <= QueueMax, IInv, WakeupInv, NEW w \in Worker, WorkerStep(w)
  PROVE  WakeupInv'
<1> USE Constants, FlagsDiffer, FlagBits, FirstHasFlag
    DEF IInv, TypeOK, SlotOwnership, HoldersInv, OwnerFlag, mainVars,
        networkVars, Goto, Waiting, SignalCond
<1>1. CASE WorkerNotify(w)
  <2>1. UNCHANGED <<Received, Sleepers, Scanners, NoneFree, isRuning>>
    BY <1>1 DEF WorkerNotify, Received, Sleepers, Scanners, NoneFree
  <2>2. pc'[Recv] = pc[Recv]
    BY <1>1 DEF WorkerNotify
  <2> QED
    BY ONLY <2>1, <2>2, WakeupInv DEF WakeupInv
<1>2. ASSUME ScanForReceived(w), pc[w] \in {"dequeue", "woken"},
             UNCHANGED isRuning
      PROVE  WakeupInv'
  <2>1. ASSUME NEW s \in First(RECV_COMPLETE), isRuning,
               flag' = [flag EXCEPT ![s] = SetBit(@, PROCESS)],
               pc' = [pc EXCEPT ![w] = "process"]
        PROVE  WakeupInv'
    <3>1. s \in Received /\ Received' = Received \ {s}
      BY <2>1 DEF Received
    <3>2. w \in Scanners /\ Scanners' = Scanners \ {w} /\ Sleepers' = Sleepers
      BY <1>2, <2>1 DEF Scanners, Sleepers
    <3>3. Sleepers # {} => Cardinality(Received') <= Cardinality(Scanners')
      BY ONLY <2>1, <3>1, <3>2, WakeupInv, OneLessReceived
    <3>4. NoneFree => NoneFree'
      BY <2>1 DEF NoneFree
    <3>5. pc'[Recv] = pc[Recv]
      BY <2>1
    <3> QED
      BY ONLY <1>2, <3>2, <3>3, <3>4, <3>5, WakeupInv DEF WakeupInv
  <2>2. ASSUME First(RECV_COMPLETE) = {}, pc' = [pc EXCEPT ![w] = "wait"],
               UNCHANGED flag
        PROVE  WakeupInv'
    <3>1. Received = {} /\ Received' = {}
      BY <2>2, FirstExists DEF Received
    <3>2. Cardinality(Received') = 0
      BY ONLY <3>1, FS_EmptySet
    <3>3. Scanners' \subseteq Worker
      BY DEF Scanners
    <3>4. Cardinality(Scanners') \in Nat
      BY ONLY <3>3, WorkersAreFinite
    <3>5. pc'[Recv] = pc[Recv]
      BY <2>2
    <3>6. isRuning => pc[Recv] # "wait"
      <4> SUFFICES ASSUME isRuning, pc[Recv] = "wait"
                   PROVE  FALSE
        OBVIOUS
      <4>1. NoneFree
        BY DEF WakeupInv
      <4>2. item[Recv] = NoSlot /\ w \notin BusyWorkers
        BY <1>2 DEF BusyWorkers
      <4> QED
        BY <3>1, <4>1, <4>2, NobodyIdles
    <3> QED
      BY ONLY <1>2, <3>2, <3>4, <3>5, <3>6 DEF WakeupInv
  <2>3. CASE ~isRuning
    BY ONLY <1>2, <2>3 DEF WakeupInv
  <2> QED
    BY <1>2, <2>1, <2>2, <2>3 DEF ScanForReceived
<1>3. CASE WorkerDequeue(w)
  BY <1>2, <1>3 DEF WorkerDequeue
<1>4. CASE WorkerWoken(w)
  <2>1. CASE isRuning
    BY <1>2, <1>4, <2>1 DEF WorkerWoken
  <2>2. CASE ~isRuning
    BY <1>4, <2>2 DEF WorkerWoken, WakeupInv
  <2> QED
    BY <2>1, <2>2
<1>5. CASE WorkerProcess(w)
  <2>1. UNCHANGED <<Received, Sleepers, Scanners, NoneFree, isRuning>>
    BY <1>5 DEF WorkerProcess, Received, Sleepers, Scanners, NoneFree
  <2>2. pc'[Recv] = pc[Recv]
    BY <1>5 DEF WorkerProcess
  <2> QED
    BY ONLY <2>1, <2>2, WakeupInv DEF WakeupInv
<1>6. CASE WorkerFinish(w)
  <2>1. CASE ~isRuning
    BY <1>6, <2>1 DEF WorkerFinish, WakeupInv
  <2>2. CASE isRuning
    <3>1. pc[w] = "finish" /\ isRuning' = isRuning /\ SignalCond(w, "dequeue")
      BY <1>6, <2>2 DEF WorkerFinish
    <3>2. Received' = Received
      BY <1>6 DEF WorkerFinish, Received
    <3>3. Sleepers' \subseteq Sleepers /\ Scanners \subseteq Scanners'
      BY <3>1 DEF Sleepers, Scanners
    <3>4. pc'[Recv] # "wait"
      <4>1. CASE pc[Recv] = "wait"
        <5>1. Waiting = {Recv}
          BY <2>2, <4>1 DEF WakeupInv, Sleepers
        <5> QED
          BY <3>1, <5>1
      <4>2. CASE pc[Recv] # "wait"
        BY <3>1, <4>2
      <4> QED
        BY <4>1, <4>2
    <3>5. isRuning' /\ Sleepers' # {} =>
            Cardinality(Received') <= Cardinality(Scanners')
      BY ONLY <3>1, <3>2, <3>3, WakeupInv, FewerReceived
    <3> QED
      BY ONLY <3>4, <3>5 DEF WakeupInv
  <2> QED
    BY <2>1, <2>2
<1> QED
  BY <1>1, <1>3, <1>4, <1>5, <1>6 DEF WorkerStep

LEMMA OthersKeepWakeup ==
  ASSUME IInv, WakeupInv,
         \/ MainStep \/ MainEscape \/ MainPokeFails \/ MainSpuriousWakeup
         \/ \E t \in Thread : SpuriousWakeup(t)
         \/ \E d \in Datagram : Arrive(d) \/ Resend(d)
         \/ UNCHANGED vars
  PROVE  WakeupInv'
<1> USE Constants DEF IInv, TypeOK, StartInv, mainVars, networkVars
<1>1. ASSUME UNCHANGED <<flag, isRuning>>, Sleepers' \subseteq Sleepers,
             Scanners \subseteq Scanners',
             pc'[Recv] = "wait" => pc[Recv] = "wait"
      PROVE  WakeupInv'
  <2>1. UNCHANGED <<Received, NoneFree>>
    BY ONLY <1>1 DEF Received, NoneFree
  <2>2. isRuning' /\ Sleepers' # {} =>
          Cardinality(Received') <= Cardinality(Scanners')
    BY ONLY <1>1, <2>1, WakeupInv, FewerReceived
  <2>3. isRuning' /\ pc'[Recv] = "wait" => NoneFree' /\ Sleepers' = {}
    BY ONLY <1>1, <2>1, WakeupInv DEF WakeupInv
  <2> QED
    BY ONLY <2>2, <2>3 DEF WakeupInv
<1>2. CASE MainCreateWorker
  BY <1>1, <1>2 DEF MainCreateWorker, Sleepers, Scanners
<1>3. CASE MainCreateRecv
  BY <1>1, <1>3 DEF MainCreateRecv, Sleepers, Scanners
<1>4. CASE \/ MainAwait \/ MainWorkerStarted \/ MainRecvStarted \/ MainPoke
           \/ MainJoinRecv \/ MainJoinWorks \/ MainEscape \/ MainPokeFails
           \/ MainSpuriousWakeup \/ \E d \in Datagram : Arrive(d) \/ Resend(d)
           \/ UNCHANGED vars
  <2>1. UNCHANGED <<isRuning, flag, pc>>
    BY ONLY <1>4
       DEF MainAwait, MainWorkerStarted, MainRecvStarted, MainPoke,
           MainJoinRecv, MainJoinWorks, MainEscape, MainPokeFails,
           MainSpuriousWakeup, Arrive, Resend, vars
  <2>2. UNCHANGED <<Sleepers, Scanners>>
    BY ONLY <2>1 DEF Sleepers, Scanners
  <2> QED
    BY ONLY <1>1, <2>1, <2>2
<1>5. CASE MainStop
  BY <1>5 DEF MainStop, WakeupInv
<1>6. ASSUME NEW t \in Thread, SpuriousWakeup(t)
      PROVE  WakeupInv'
  BY <1>1, <1>6 DEF SpuriousWakeup, Goto, Sleepers, Scanners
<1> QED
  BY <1>2, <1>3, <1>4, <1>5, <1>6 DEF MainStep

\* With no more workers than there are slots, a signal never goes to a thread
\* that cannot use it while one that could sleeps on: neither a free slot nor
\* a received one is left to sleepers only.
THEOREM NoWakeupIsLost ==
  ASSUME PoolSize <= QueueMax
  PROVE  Spec => []NoLostWakeup
<1>1. Init => WakeupInv
  <2> SUFFICES ASSUME Init
               PROVE  Sleepers = {} /\ pc[Recv] # "wait"
    BY DEF WakeupInv
  <2> QED
    BY Constants DEF Init, Sleepers
<1>2. IInv /\ WakeupInv /\ [Next]_vars => WakeupInv'
  BY ReceiverKeepsWakeup, WorkerKeepsWakeup, OthersKeepWakeup DEF Next
<1>3. IInv /\ WakeupInv => NoLostWakeup
  <2> SUFFICES ASSUME IInv, WakeupInv, isRuning, First(RECV_COMPLETE) # {},
                      \A w \in Worker : pc[w] = "wait"
               PROVE  FALSE
    BY FirstHasFlag DEF NoLostWakeup, WakeupInv, NoneFree
  <2>1. 1 \in Worker
    BY PoolSizeAssumption DEF Worker
  <2>2. Sleepers # {} /\ Scanners = {}
    BY <2>1 DEF Sleepers, Scanners
  <2>3. Cardinality(Received) <= 0
    BY <2>2, FS_EmptySet DEF WakeupInv
  <2>4. IsFiniteSet(Received) /\ Received # {}
    BY SlotsAreFinite, FirstHasFlag DEF Received
  <2> QED
    BY ONLY <2>3, <2>4, FS_EmptySet, FS_CardinalityType
<1> QED
  BY <1>1, <1>2, <1>3, InductiveInvariant, PTL DEF Spec
=============================================================================
