------------------------ MODULE ServerLifecycleProofs ------------------------
(***************************************************************************)
(* Proofs about ServerLifecycle, for every size of the queue, every pool   *)
(* the loop counter can count, and every set of acquisitions that fail.    *)
(***************************************************************************)
EXTENDS ServerLifecycle, TLAPS

\* The uint8_t counter of kcThreadWorksCreate reaches the size of the pool.
PoolIsCounted == PoolSize < CounterMod

\* Where no thread and no handle exists yet.
Making == DOMAIN Following
Early  == Making \cup {"item", "queueFree"}
Late   == {"stop", "joinRecv", "joinWorks", "release", "stopAgain", "ended", "crashed", "hung"}

\* What Start holds when it makes r.
Before ==
  [shared |-> {}, mutex |-> {"shared"}, cond |-> {"shared", "mutex"},
   condStart |-> {"shared", "mutex", "cond"},
   rwlock |-> {"shared", "mutex", "cond", "condStart"},
   plugins |-> {"shared", "mutex", "cond", "condStart", "rwlock"},
   items |-> {"shared", "mutex", "cond", "condStart", "rwlock", "plugins"}]

\* A thread that lives can be joined through the handle at its own place.
AliveInv ==
  \A t \in alive : IF t = Receiver THEN handle[RecvIdx] = Receiver
                   ELSE t - 1 \in Index /\ handle[t - 1] = t

\* kcThreadWorksFree stops at the first NULL: no handle lies behind it.
NoGap ==
  \A k \in Index, j \in Index : j < k /\ handle[k] # NoHandle => handle[j] # NoHandle

\* Which handles there are.
HandlesInv ==
  /\ pc \in Early \cup {"release", "stopAgain", "ended"} \/ "shared" \notin held =>
       \A k \in DOMAIN handle : handle[k] = NoHandle
  /\ pc \in {"work", "worksStop", "worksJoin", "joinWorks"} => handle[RecvIdx] = NoHandle
  /\ pc \in Early => created = 0 /\ isRuning
  /\ pc = "work" =>
       /\ isRuning
       /\ i = created /\ i <= PoolSize
       /\ alive = 1..created
       /\ \A k \in Index : handle[k] # NoHandle <=> k < i
  /\ pc = "running" => isRuning /\ alive = 0..PoolSize

\* Which resources there are.
HeldInv ==
  /\ pc \in Making => held = Before[pc] /\ raw = {} /\ (\A s \in Item : item[s] = "empty")
  /\ pc \in Making => i = 0
  /\ pc \notin Making \cup Late => Making \subseteq held
  /\ pc = "item" => i <= QueueMax /\ \A s \in Item : s <= i => item[s] = "open"
  /\ pc = "queueFree" => i < QueueMax
  /\ pc \notin Early /\ "items" \in held => \A s \in Item : item[s] = "open"
  /\ "items" \notin held => \A s \in Item : item[s] \in {"empty", "freed"}
  /\ "shared" \notin held => held = {} /\ raw = {}
  /\ pc = "crashed" => ~(Signalled \subseteq held) \/ \E k \in DOMAIN handle : handle[k] = Garbage
  /\ pc \in {"stopAgain", "ended"} => "shared" \notin held
  /\ stdin \/ (pc \in Late /\ i < QueueMax /\ created = 0)

IInv == TypeOK /\ ThreadsHaveResources /\ AliveInv /\ NoGap /\ HandlesInv /\ HeldInv

\* The sizes are positive numbers.
LEMMA ConstantTypes ==
  /\ QueueMax \in Nat /\ QueueMax > 0
  /\ PoolSize \in Nat /\ PoolSize > 0
  /\ CounterMod \in Nat /\ CounterMod > 0
  /\ MaxThreads \in Nat
BY SizeAssumption

\* What Start makes before the slots, as a set.
LEMMA MakingIs ==
  Making = {"shared", "mutex", "cond", "condStart", "rwlock", "plugins", "items"}
BY DEF Making, Following

\* kcThreadWorksFree and kcSharedFree wait for every thread that has a handle:
\* when there is no handle, no thread lives.
LEMMA NoHandlesNoThreads ==
  ASSUME AliveInv, TypeOK, \A k \in DOMAIN handle : handle[k] = NoHandle
  PROVE  alive = {}
BY ConstantTypes DEF AliveInv, TypeOK, Index, Receiver, RecvIdx, NoHandle

\* The loop counter of kcThreadWorksCreate does not wrap before PoolSize.
LEMMA Counted == ASSUME PoolIsCounted, NEW n \in Nat, n < PoolSize PROVE (n + 1) % CounterMod = n + 1
BY ConstantTypes DEF PoolIsCounted

-----------------------------------------------------------------------------
\* The sizes, and the places and values that have names, are used throughout.
USE ConstantTypes, MakingIs
  DEF Item, Index, Receiver, RecvIdx, NoHandle, Garbage, Early, Late

\* The invariant holds before Start.
LEMMA InitIInv == Init => IInv
<1> SUFFICES ASSUME Init PROVE IInv  OBVIOUS
<1> USE DEF IInv, Init
<1>1. TypeOK
  BY DEF TypeOK, Object, Making
<1>2. ThreadsHaveResources
  BY DEF ThreadsHaveResources
<1>3. AliveInv
  BY DEF AliveInv
<1>4. NoGap
  BY DEF NoGap
<1>5. HandlesInv
  BY DEF HandlesInv
<1>6. HeldInv
  BY DEF HeldInv, Before
<1>7. QED  BY <1>1, <1>2, <1>3, <1>4, <1>5, <1>6

\* Acquiring the next resource of Start adds it to those before it.
LEMMA AcquireKeeps == ASSUME PoolIsCounted, IInv, NEW r \in Making, Acquire(r) PROVE IInv'
<1> USE DEF IInv, Acquire
<1>0. alive = {}
  BY NoHandlesNoThreads DEF HandlesInv
<1>a. pc' \in Making \cup {"item"} /\ r \in Making
  BY DEF Following
<1>b. held = Before[r] /\ held' = Before[r] \cup {r}
  BY DEF HeldInv
<1>c. pc' \in Making => held' = Before[pc']
  BY <1>b DEF Before, Following
<1>d. pc' = "item" => r = "items" /\ Making \subseteq held'
  BY <1>b DEF Before, Following
<1>e. "shared" \in held'
  BY <1>b DEF Before
<1>1. TypeOK'
  BY <1>a DEF TypeOK, Object, Making
<1>2. ThreadsHaveResources'
  BY <1>0 DEF ThreadsHaveResources
<1>3. AliveInv'
  BY <1>0 DEF AliveInv
<1>4. NoGap'
  BY DEF NoGap
<1>5. HandlesInv'
  BY <1>a, <1>e DEF HandlesInv
<1>6. HeldInv'
  BY <1>a, <1>b, <1>c, <1>d, <1>e DEF HeldInv
<1>7. QED  BY <1>1, <1>2, <1>3, <1>4, <1>5, <1>6

\* The first failure leaves exactly what was made before it.
LEMMA AcquireFailsKeeps == ASSUME PoolIsCounted, IInv, NEW r \in Making, AcquireFails(r) PROVE IInv'
<1> USE DEF IInv, AcquireFails, StartFails
<1>0. alive = {}
  BY NoHandlesNoThreads DEF HandlesInv
<1>a. held = Before[r] /\ r \in Making
  BY DEF HeldInv
<1>b. "items" \notin held /\ held \subseteq Making
  BY <1>a DEF Before
<1>c. raw = {} /\ raw' \subseteq Object /\ ("shared" \notin held => raw' = {})
  BY <1>a DEF HeldInv, Before, Object
<1>1. TypeOK'
  BY <1>c DEF TypeOK
<1>2. ThreadsHaveResources'
  BY <1>0 DEF ThreadsHaveResources
<1>3. AliveInv'
  BY <1>0 DEF AliveInv
<1>4. NoGap'
  BY DEF NoGap
<1>5. HandlesInv'
  BY DEF HandlesInv
<1>6. HeldInv'
  BY <1>a, <1>b, <1>c DEF HeldInv
<1>7. QED  BY <1>1, <1>2, <1>3, <1>4, <1>5, <1>6

\* A turn of kcQueueCreate's loop opens the next slot.
LEMMA MakeItemKeeps == ASSUME PoolIsCounted, IInv, MakeItem PROVE IInv'
<1> USE DEF IInv, MakeItem
<1>1. TypeOK'
  BY DEF TypeOK
<1>2. ThreadsHaveResources'
  BY DEF ThreadsHaveResources
<1>3. AliveInv'
  BY DEF AliveInv
<1>4. NoGap'
  BY DEF NoGap
<1>5. HandlesInv'
  BY DEF HandlesInv
<1>6. HeldInv'
  BY DEF HeldInv, TypeOK
<1>7. QED  BY <1>1, <1>2, <1>3, <1>4, <1>5, <1>6

\* A slot that cannot be made leads to kcQueueFree.
LEMMA MakeItemFailsKeeps == ASSUME PoolIsCounted, IInv, MakeItemFails PROVE IInv'
<1> USE DEF IInv, MakeItemFails
<1>0. alive = {}
  BY NoHandlesNoThreads DEF HandlesInv, HeldInv, TypeOK
<1>1. TypeOK'
  BY DEF TypeOK
<1>2. ThreadsHaveResources'
  BY <1>0 DEF ThreadsHaveResources
<1>3. AliveInv'
  BY <1>0 DEF AliveInv
<1>4. NoGap'
  BY DEF NoGap
<1>5. HandlesInv'
  BY DEF HandlesInv
<1>6. HeldInv'
  BY DEF HeldInv
<1>7. QED  BY <1>1, <1>2, <1>3, <1>4, <1>5, <1>6

\* kcQueueCreate's error path releases all slots, before any thread exists.
LEMMA QueueFailsKeeps == ASSUME PoolIsCounted, IInv, QueueFails PROVE IInv'
<1> USE DEF IInv, QueueFails, QueueFree, StartFails
<1>0. alive = {}
  BY NoHandlesNoThreads DEF HandlesInv, HeldInv, TypeOK
<1>1. TypeOK'
  BY DEF TypeOK
<1>2. ThreadsHaveResources'
  BY <1>0 DEF ThreadsHaveResources
<1>3. AliveInv'
  BY <1>0 DEF AliveInv
<1>4. NoGap'
  BY DEF NoGap
<1>5. HandlesInv'
  BY DEF HandlesInv
<1>6. HeldInv'
  BY DEF HeldInv, TypeOK, HandlesInv, AliveInv, ThreadsHaveResources
<1>7. QED  BY <1>1, <1>2, <1>3, <1>4, <1>5, <1>6

\* The array of handles is made, or the pool is given up, before any worker.
LEMMA MakeWorksKeeps == ASSUME PoolIsCounted, IInv, MakeWorks PROVE IInv'
<1> USE DEF IInv, MakeWorks
<1>0. alive = {}
  BY NoHandlesNoThreads DEF HandlesInv, HeldInv, TypeOK
<1>a. created' = 0 /\ alive' = 1..created'
  BY <1>0 DEF HandlesInv, TypeOK
<1>b. \A k \in DOMAIN handle : handle'[k] = NoHandle
  BY DEF HandlesInv
<1>1. TypeOK'
  BY DEF TypeOK
<1>2. ThreadsHaveResources'
  BY <1>a DEF ThreadsHaveResources
<1>3. AliveInv'
  BY <1>a DEF AliveInv
<1>4. NoGap'
  BY <1>b DEF NoGap
<1>5. HandlesInv'
  BY <1>a, <1>b DEF HandlesInv, TypeOK
<1>6. HeldInv'
  BY DEF HeldInv
<1>7. QED  BY <1>1, <1>2, <1>3, <1>4, <1>5, <1>6

\* Worker number i + 1 gets the handle at place i, the first without one.
LEMMA MakeWorkKeeps == ASSUME PoolIsCounted, IInv, MakeWork PROVE IInv'
<1> USE DEF IInv, MakeWork
<1>0. i' = i + 1 /\ i' <= PoolSize /\ i' = created'
  BY Counted DEF HandlesInv, TypeOK
<1>1. TypeOK'
  BY <1>0 DEF TypeOK
<1>2. ThreadsHaveResources'
  BY DEF ThreadsHaveResources, HeldInv, HandlesInv, AliveInv, TypeOK, Making
<1>3. AliveInv'
  BY <1>0 DEF AliveInv, TypeOK
<1>4. NoGap'
  BY <1>0 DEF NoGap, TypeOK, HandlesInv
<1>5. HandlesInv'
  BY <1>0 DEF HandlesInv, HeldInv, TypeOK, NoGap, AliveInv
<1>6. HeldInv'
  BY DEF HeldInv
<1>7. QED  BY <1>1, <1>2, <1>3, <1>4, <1>5, <1>6

\* A worker that cannot be made leaves no gap before its place.
LEMMA MakeWorkFailsKeeps == ASSUME PoolIsCounted, IInv, MakeWorkFails PROVE IInv'
<1> USE DEF IInv, MakeWorkFails
<1>1. TypeOK'
  BY DEF TypeOK
<1>2. ThreadsHaveResources'
  BY DEF ThreadsHaveResources
<1>3. AliveInv'
  BY DEF AliveInv, TypeOK, HandlesInv, NoGap
<1>4. NoGap'
  BY SMTT(30) DEF NoGap, TypeOK, HandlesInv
<1>5. HandlesInv'
  BY DEF HandlesInv, HeldInv, TypeOK, NoGap, AliveInv
<1>6. HeldInv'
  BY DEF HeldInv
<1>7. QED  BY <1>1, <1>2, <1>3, <1>4, <1>5, <1>6

\* kcThreadWorksCreate's error path tells the workers to stop.
LEMMA WorksStopKeeps == ASSUME PoolIsCounted, IInv, WorksStop PROVE IInv'
<1> USE DEF IInv, WorksStop
<1>1. TypeOK'
  BY DEF TypeOK
<1>2. ThreadsHaveResources'
  BY DEF ThreadsHaveResources
<1>3. AliveInv'
  BY DEF AliveInv
<1>4. NoGap'
  BY DEF NoGap
<1>5. HandlesInv'
  BY DEF HandlesInv
<1>6. HeldInv'
  BY DEF HeldInv
<1>7. QED  BY <1>1, <1>2, <1>3, <1>4, <1>5, <1>6

\* The receiver is made when the pool is complete.
LEMMA MakeReceiverKeeps == ASSUME PoolIsCounted, IInv, MakeReceiver PROVE IInv'
<1> USE DEF IInv, MakeReceiver
<1>1. TypeOK'
  BY DEF TypeOK
<1>2. ThreadsHaveResources'
  BY DEF ThreadsHaveResources, HeldInv, HandlesInv, AliveInv, TypeOK, Making
<1>3. AliveInv'
  BY DEF AliveInv, TypeOK
<1>4. NoGap'
  BY DEF NoGap
<1>5. HandlesInv'
  BY DEF HandlesInv, TypeOK
<1>6. HeldInv'
  BY DEF HeldInv
<1>7. QED  BY <1>1, <1>2, <1>3, <1>4, <1>5, <1>6

\* A receiver that fails keeps all handles of the pool.
LEMMA MakeReceiverFailsKeeps == ASSUME PoolIsCounted, IInv, MakeReceiverFails PROVE IInv'
<1> USE DEF IInv, MakeReceiverFails, StartFails
<1>a. handle' \in [Index \cup {RecvIdx} -> 0..created \cup {NoHandle, Garbage}]
  BY DEF TypeOK
<1>b. \A k \in Index : handle'[k] = handle[k]
  BY DEF TypeOK
<1>c. Receiver \notin alive
  BY DEF HandlesInv, TypeOK
<1>d. pc' \in {"stop", "hung"} /\ "shared" \in held /\ held' = held
  BY DEF HeldInv
<1>1. TypeOK'
  BY <1>a DEF TypeOK
<1>2. ThreadsHaveResources'
  BY DEF ThreadsHaveResources
<1>3. AliveInv'
  BY <1>b, <1>c DEF AliveInv
<1>4. NoGap'
  BY <1>b DEF NoGap
<1>5. HandlesInv'
  BY <1>a, <1>d DEF HandlesInv, TypeOK
<1>6. HeldInv'
  BY <1>d DEF HeldInv
<1>7. QED  BY <1>1, <1>2, <1>3, <1>4, <1>5, <1>6

\* Stop releases nothing itself.
LEMMA StopKeeps == ASSUME PoolIsCounted, IInv, Stop PROVE IInv'
<1> USE DEF IInv, Stop, Return
<1>1. TypeOK'
  BY DEF TypeOK
<1>2. ThreadsHaveResources'
  BY DEF ThreadsHaveResources
<1>3. AliveInv'
  BY DEF AliveInv
<1>4. NoGap'
  BY DEF NoGap
<1>5. HandlesInv'
  BY DEF HandlesInv
<1>6. HeldInv'
  BY DEF HeldInv
<1>7. QED  BY <1>1, <1>2, <1>3, <1>4, <1>5, <1>6

\* The second Stop finds nothing.
LEMMA StopAgainKeeps == ASSUME PoolIsCounted, IInv, StopAgain PROVE IInv'
<1> USE DEF IInv, StopAgain
<1>1. TypeOK'
  BY DEF TypeOK
<1>2. ThreadsHaveResources'
  BY DEF ThreadsHaveResources
<1>3. AliveInv'
  BY DEF AliveInv
<1>4. NoGap'
  BY DEF NoGap
<1>5. HandlesInv'
  BY DEF HandlesInv
<1>6. HeldInv'
  BY DEF HeldInv
<1>7. QED  BY <1>1, <1>2, <1>3, <1>4, <1>5, <1>6

\* kcSharedFree waits for the receiver.
LEMMA JoinReceiverKeeps == ASSUME PoolIsCounted, IInv, JoinReceiver PROVE IInv'
<1> USE DEF IInv, JoinReceiver, Join
<1>1. TypeOK'
  BY DEF TypeOK
<1>2. ThreadsHaveResources'
  BY DEF ThreadsHaveResources
<1>3. AliveInv'
  BY DEF AliveInv, TypeOK
<1>4. NoGap'
  BY DEF NoGap, TypeOK
<1>5. HandlesInv'
  BY DEF HandlesInv, TypeOK
<1>6. HeldInv'
  <2>1. pc' = "crashed" => \E k \in DOMAIN handle' : handle'[k] = Garbage
    BY DEF TypeOK
  <2>2. pc' \in Late /\ pc' \notin {"stopAgain", "ended"} /\ pc \in Late
    OBVIOUS
  <2>3. QED  BY <2>1, <2>2 DEF HeldInv
<1>7. QED  BY <1>1, <1>2, <1>3, <1>4, <1>5, <1>6

\* kcThreadWorksFree waits for every worker, because no handle lies behind the
\* first NULL.
LEMMA JoinWorksKeeps == ASSUME PoolIsCounted, IInv, JoinWorks PROVE IInv'
<1> USE DEF IInv, JoinWorks, Join, Joined
<1>0. \A k \in Index : handle[k] # NoHandle => k \in Joined
  BY DEF NoGap, TypeOK
<1>a. pc \in {"joinWorks", "worksJoin"} /\ alive' = alive /\ held' = held \ {"works"}
  OBVIOUS
<1>b. \/ /\ handle' = [k \in DOMAIN handle |-> IF k \in Joined THEN NoHandle ELSE handle[k]]
         /\ \A k \in Joined : handle[k] \notin alive
         /\ pc' = IF pc = "joinWorks" THEN "release" ELSE "stop"
      \/ /\ handle' = handle
         /\ pc' \in {"crashed", "hung"}
         /\ \E k \in Joined : handle[k] = Garbage
  OBVIOUS
<1>1. TypeOK'
  BY DEF TypeOK
<1>2. ThreadsHaveResources'
  <2>1. Making \subseteq held => Making \subseteq held'
    OBVIOUS
  <2>2. QED  BY <2>1 DEF ThreadsHaveResources, Making
<1>3. AliveInv'
  <2>1. CASE handle' = handle
    BY <1>a, <2>1 DEF AliveInv
  <2>2. CASE /\ handle' = [k \in DOMAIN handle |-> IF k \in Joined THEN NoHandle ELSE handle[k]]
             /\ \A k \in Joined : handle[k] \notin alive
    <3>1. ASSUME NEW t \in alive, t # Receiver PROVE t - 1 \in Index /\ handle'[t - 1] = t
      <4>1. t - 1 \in Index /\ handle[t - 1] = t
        BY <3>1 DEF AliveInv
      <4>2. t - 1 \notin Joined
        BY <2>2, <3>1, <4>1
      <4>3. QED  BY <2>2, <4>1, <4>2 DEF TypeOK
    <3>2. handle'[RecvIdx] = handle[RecvIdx]
      BY <2>2 DEF TypeOK
    <3>3. QED  BY <1>a, <3>1, <3>2 DEF AliveInv
  <2>3. QED  BY <1>b, <2>1, <2>2
<1>4. NoGap'
  <2>1. CASE handle' = handle
    BY <2>1 DEF NoGap
  <2>2. CASE handle' = [k \in DOMAIN handle |-> IF k \in Joined THEN NoHandle ELSE handle[k]]
    BY <2>2, SMTT(30) DEF NoGap, TypeOK
  <2>3. QED  BY <1>b, <2>1, <2>2
<1>5. HandlesInv'
  <2>1. CASE handle' = handle /\ pc' \in {"crashed", "hung"}
    <3>1. "shared" \in held
      BY <2>1, <1>b DEF HandlesInv, TypeOK
    <3>2. QED  BY <2>1, <3>1 DEF HandlesInv
  <2>2. CASE /\ handle' = [k \in DOMAIN handle |-> IF k \in Joined THEN NoHandle ELSE handle[k]]
             /\ pc' = IF pc = "joinWorks" THEN "release" ELSE "stop"
    <3>1. handle[RecvIdx] = NoHandle
      BY <1>a DEF HandlesInv
    <3>2. \A k \in DOMAIN handle : handle'[k] = NoHandle
      BY <1>0, <2>2, <3>1 DEF TypeOK
    <3>3. pc' \notin Early /\ pc' \notin {"work", "running"} /\ DOMAIN handle' = DOMAIN handle
      BY <1>a, <2>2
    <3>4. QED  BY <2>2, <3>2, <3>3 DEF HandlesInv
  <2>3. QED  BY <1>b, <2>1, <2>2
<1>6. HeldInv'
  <2>1. pc' = "crashed" => \E k \in DOMAIN handle' : handle'[k] = Garbage
    BY <1>b DEF TypeOK
  <2>2. pc' \in Late /\ pc' \notin {"stopAgain", "ended"} /\ pc \notin Early
    BY <1>a, <1>b
  <2>3. QED  BY <2>1, <2>2 DEF HeldInv
<1>7. QED  BY <1>1, <1>2, <1>3, <1>4, <1>5, <1>6

\* kcSharedFree releases the rest when no thread is left.
LEMMA ReleaseKeeps == ASSUME PoolIsCounted, IInv, Release PROVE IInv'
<1> USE DEF IInv, Release, QueueFree, Return
<1>0. alive = {}
  BY NoHandlesNoThreads DEF HandlesInv, HeldInv, TypeOK
<1>1. TypeOK'
  BY DEF TypeOK
<1>2. ThreadsHaveResources'
  BY <1>0 DEF ThreadsHaveResources
<1>3. AliveInv'
  BY <1>0 DEF AliveInv
<1>4. NoGap'
  BY DEF NoGap
<1>5. HandlesInv'
  BY DEF HandlesInv
<1>6. HeldInv'
  BY DEF HeldInv
<1>7. QED  BY <1>1, <1>2, <1>3, <1>4, <1>5, <1>6

\* The operator's ESC changes nothing but where main is.
LEMMA EscapeKeeps == ASSUME PoolIsCounted, IInv, Escape PROVE IInv'
<1> USE DEF IInv, Escape
<1>1. TypeOK'
  BY DEF TypeOK
<1>2. ThreadsHaveResources'
  BY DEF ThreadsHaveResources
<1>3. AliveInv'
  BY DEF AliveInv
<1>4. NoGap'
  BY DEF NoGap
<1>5. HandlesInv'
  BY DEF HandlesInv
<1>6. HeldInv'
  BY DEF HeldInv
<1>7. QED  BY <1>1, <1>2, <1>3, <1>4, <1>5, <1>6

\* A thread that ends keeps its handle.
LEMMA ThreadEndsKeeps == ASSUME PoolIsCounted, IInv, NEW t \in 0..MaxThreads, ThreadEnds(t) PROVE IInv'
<1> USE DEF IInv, ThreadEnds
<1>1. TypeOK'
  BY DEF TypeOK
<1>2. ThreadsHaveResources'
  BY DEF ThreadsHaveResources
<1>3. AliveInv'
  BY DEF AliveInv
<1>4. NoGap'
  BY DEF NoGap
<1>5. HandlesInv'
  BY DEF HandlesInv
<1>6. HeldInv'
  BY DEF HeldInv
<1>7. QED  BY <1>1, <1>2, <1>3, <1>4, <1>5, <1>6

\* A thread that sleeps for ever keeps its handle, too.
LEMMA ThreadSticksKeeps == ASSUME PoolIsCounted, IInv, NEW t \in 0..MaxThreads, ThreadSticks(t) PROVE IInv'
<1> USE DEF IInv, ThreadSticks
<1>1. TypeOK'
  BY DEF TypeOK
<1>2. ThreadsHaveResources'
  BY DEF ThreadsHaveResources
<1>3. AliveInv'
  BY DEF AliveInv
<1>4. NoGap'
  BY DEF NoGap
<1>5. HandlesInv'
  BY DEF HandlesInv
<1>6. HeldInv'
  BY DEF HeldInv
<1>7. QED  BY <1>1, <1>2, <1>3, <1>4, <1>5, <1>6

\* A step that changes nothing keeps the invariant.
LEMMA StutterKeeps == ASSUME IInv, UNCHANGED vars PROVE IInv'
<1> USE DEF IInv, vars
<1>1. TypeOK'
  BY DEF TypeOK, Object
<1>2. ThreadsHaveResources'
  BY DEF ThreadsHaveResources
<1>3. AliveInv'
  BY DEF AliveInv
<1>4. NoGap'
  BY DEF NoGap
<1>5. HandlesInv'
  BY DEF HandlesInv
<1>6. HeldInv'
  BY DEF HeldInv
<1>7. QED  BY <1>1, <1>2, <1>3, <1>4, <1>5, <1>6

\* Every step of Start, of Stop and of a thread keeps the invariant.
LEMMA NextKeeps == ASSUME PoolIsCounted, IInv, [Next]_vars PROVE IInv'
<1>1. ASSUME NEW r \in Making, Acquire(r) PROVE IInv'
  BY <1>1, AcquireKeeps
<1>2. ASSUME NEW r \in Making, AcquireFails(r) PROVE IInv'
  BY <1>2, AcquireFailsKeeps
<1>3. ASSUME NEW t \in 0..MaxThreads, ThreadEnds(t) PROVE IInv'
  BY <1>3, ThreadEndsKeeps
<1>3a. ASSUME NEW t \in 0..MaxThreads, ThreadSticks(t) PROVE IInv'
  BY <1>3a, ThreadSticksKeeps
<1>4. CASE MakeItem  BY <1>4, MakeItemKeeps
<1>5. CASE MakeItemFails  BY <1>5, MakeItemFailsKeeps
<1>6. CASE QueueFails  BY <1>6, QueueFailsKeeps
<1>7. CASE MakeWorks  BY <1>7, MakeWorksKeeps
<1>8. CASE MakeWork  BY <1>8, MakeWorkKeeps
<1>9. CASE MakeWorkFails  BY <1>9, MakeWorkFailsKeeps
<1>10. CASE WorksStop  BY <1>10, WorksStopKeeps
<1>11. CASE MakeReceiver  BY <1>11, MakeReceiverKeeps
<1>12. CASE MakeReceiverFails  BY <1>12, MakeReceiverFailsKeeps
<1>13. CASE Stop  BY <1>13, StopKeeps
<1>14. CASE StopAgain  BY <1>14, StopAgainKeeps
<1>15. CASE JoinReceiver  BY <1>15, JoinReceiverKeeps
<1>16. CASE JoinWorks  BY <1>16, JoinWorksKeeps
<1>17. CASE Release  BY <1>17, ReleaseKeeps
<1>18. CASE Escape  BY <1>18, EscapeKeeps
<1>19. CASE UNCHANGED vars  BY <1>19, StutterKeeps
<1>20. QED
  BY <1>1, <1>2, <1>3, <1>3a, <1>4, <1>5, <1>6, <1>7, <1>8, <1>9, <1>10, <1>11, <1>12, <1>13, <1>14, <1>15, <1>16, <1>17, <1>18, <1>19 DEF Next, MainStep, Making

-----------------------------------------------------------------------------
\* The inductive invariant holds throughout, whatever fails.
THEOREM Invariance == ASSUME PoolIsCounted PROVE Spec => []IInv
BY InitIInv, NextKeeps, PTL DEF Spec

\* kcUdpBackedThreadStart and kcUdpBackedThreadStop keep every variable's type.
THEOREM LifecycleTypeCorrect == ASSUME PoolIsCounted PROVE Spec => []TypeOK
<1>1. IInv => TypeOK  BY DEF IInv
<1>2. QED  BY <1>1, Invariance, PTL

\* All workers are joinable: the places of the handles have no gap.
LEMMA IInvImpliesRunsWhole == IInv => RunsWhole
<1> SUFFICES ASSUME IInv PROVE RunsWhole  OBVIOUS
<1>1. ThreadsHaveResources
  BY DEF IInv
<1>2. ASSUME pc = "running"
      PROVE  isRuning /\ alive = 0..PoolSize /\ alive \subseteq {handle[k] : k \in Joined \cup {RecvIdx}}
  <2>1. isRuning /\ alive = 0..PoolSize
    BY <1>2 DEF IInv, HandlesInv
  <2>2. ASSUME NEW t \in alive, t # Receiver PROVE t - 1 \in Joined /\ handle[t - 1] = t
    <3>1. t - 1 \in Index /\ handle[t - 1] = t /\ t \in Nat
      BY <2>2, <2>1 DEF IInv, AliveInv
    <3>2. ASSUME NEW j \in 0..(t - 1) PROVE handle[j] # NoHandle
      BY <3>1, ConstantTypes DEF IInv, NoGap, Index, NoHandle
    <3>3. QED  BY <3>1, <3>2 DEF Joined
  <2>3. Receiver \in alive => handle[RecvIdx] = Receiver
    BY DEF IInv, AliveInv
  <2>4. QED  BY <2>1, <2>2, <2>3
<1>3. QED  BY <1>1, <1>2 DEF RunsWhole, SuccessMeansRunning

\* Whatever fails, no thread runs without the resources it uses, and
\* kcUdpBackedThreadStart reports success only with the receiver and the whole
\* pool running, each with a handle that kcSharedFree joins.
THEOREM RunsWholeAlways == ASSUME PoolIsCounted PROVE Spec => []RunsWhole
BY IInvImpliesRunsWhole, Invariance, PTL

\* Without handles there are no threads; without shared there is nothing.
LEMMA IInvImpliesNothingLeft == IInv => NothingLeft
<1> SUFFICES ASSUME IInv PROVE NothingLeft  OBVIOUS
<1>1. ASSUME pc \in {"stopAgain", "ended"}
      PROVE  /\ alive = {} /\ held = {} /\ raw = {}
             /\ \A k \in DOMAIN handle : handle[k] = NoHandle
             /\ \A s \in Item : item[s] \in {"empty", "freed"}
             /\ stdin \/ (i < QueueMax /\ created = 0)
  <2>1. \A k \in DOMAIN handle : handle[k] = NoHandle
    BY <1>1 DEF IInv, HandlesInv
  <2>2. alive = {}
    BY <2>1, NoHandlesNoThreads DEF IInv
  <2>3. held = {} /\ raw = {}
    BY <1>1 DEF IInv, HeldInv
  <2>4. \A s \in Item : item[s] \in {"empty", "freed"}
    BY <2>3 DEF IInv, HeldInv
  <2>5. stdin \/ (i < QueueMax /\ created = 0)
    BY DEF IInv, HeldInv
  <2>6. QED  BY <2>1, <2>2, <2>3, <2>4, <2>5
<1>2. ASSUME pc = "crashed"
      PROVE  ~(Signalled \subseteq held) \/ \E k \in DOMAIN handle : handle[k] = Garbage
  BY <1>2 DEF IInv, HeldInv
<1>3. QED  BY <1>1, <1>2 DEF NothingLeft

\* When kcUdpBackedThreadStop returns it leaves no thread, handle, object,
\* buffer or socket, and has closed descriptor 0 only if a raw socket was
\* missing; it crashes only on a mutex or condition variable that Start could
\* not make, or on the handle of a thread that could not be created.
THEOREM NothingIsLeft == ASSUME PoolIsCounted PROVE Spec => []NothingLeft
BY IInvImpliesNothingLeft, Invariance, PTL
==============================================================================
