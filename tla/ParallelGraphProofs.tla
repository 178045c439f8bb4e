------------------------- MODULE ParallelGraphProofs -------------------------
(***************************************************************************)
(* Proofs about ParallelGraph, for every graph and any number of workers.  *)
(* The second half is about the program without spurious wakeups of        *)
(* pthread_cond_wait, which completes the traversal and implements         *)
(* TraversalSpec.                                                          *)
(***************************************************************************)
EXTENDS ParallelGraph, SetLemmas, TLAPS

(* One more free of a node keeps the counters numbers. *)
LEMMA FreeType ==
    ASSUME NEW n \in Nodes, frees \in [Nodes -> Nat], Free(n)
    PROVE  frees' \in [Nodes -> Nat]
<1> DEFINE f == frees[n]
<1>1. f \in Nat OBVIOUS
<1> HIDE DEF f
<1>2. f + 1 \in Nat BY <1>1
<1> QED BY <1>2 DEF f, Free

LEMMA TypeStep == SafetyInv /\ [Next]_vars => TypeOK'
<1> SUFFICES ASSUME TypeOK, WorkersInv, [Next]_vars PROVE TypeOK'
  BY DEF SafetyInv
<1> USE GraphAssumption, PoolAssumption, TasksAreNodes
        DEF TypeOK, Goto, MainGoto, Mark, Free, Advance, WorkerPcs, BeforeTaskPcs,
            TaskPcs, ActionPcs, MainPcs, Statuses, graphVars
<1>1. ASSUME NEW t \in Threads, PoolStep(t) PROVE TypeOK'
  <2> USE <1>1 DEF PoolStep
  <2>1. CASE CheckAvailable(t) BY <2>1 DEF CheckAvailable
  <2>2. CASE CondWait(t) BY <2>2 DEF CondWait
  <2>3. CASE Reacquire(t) BY <2>3 DEF Reacquire
  <2>4. CASE Unlock(t) BY <2>4 DEF Unlock
  <2>5. CASE DequeueNull(t) BY <2>5 DEF DequeueNull
  <2>6. CASE TakeFirst(t)
    <3>1. Head(queue) \in Nodes BY <2>6 DEF TakeFirst
    <3>2. task' \in [Threads -> Nodes \cup {None}] BY <2>6, <3>1 DEF TakeFirst
    <3> QED BY <2>6, <3>2 DEF TakeFirst
  <2>7. CASE Unlink(t)
    <3>1. queue' \in Seq(Nodes) BY <2>7 DEF Unlink, WorkersInv, WorkerInv
    <3> QED BY <2>7, <3>1 DEF Unlink
  <2> QED BY <2>1, <2>2, <2>3, <2>4, <2>5, <2>6, <2>7
<1>2. ASSUME NEW t \in Threads, ActionStep(t) PROVE TypeOK'
  <2>0. pc[t] \in TaskPcs => task[t] \in Nodes
    BY DEF WorkersInv, WorkerInv
  <2>1. CASE CheckDone(t) BY <2>1 DEF CheckDone
  <2>2. CASE LoadSum(t) BY <2>2 DEF LoadSum
  <2>3. CASE StoreSum(t)
    <3>1. sum' \in Int BY <2>0, <2>3 DEF StoreSum
    <3> QED BY <2>3, <3>1 DEF StoreSum
  <2>4. CASE SetDone(t)
    <3>1. visited' \in [Nodes -> Statuses] BY <2>4 DEF SetDone
    <3>2. index' \in [Threads -> Nat \ {0}] BY <2>4 DEF SetDone
    <3> QED BY <2>4, <3>1, <3>2 DEF SetDone
  <2>5. CASE SkipNeighbour(t)
    <3>1. index' \in [Threads -> Nat \ {0}] BY <2>5 DEF SkipNeighbour
    <3> QED BY <2>5, <3>1 DEF SkipNeighbour, poolVars
  <2>6. CASE SeeNeighbour(t) BY <2>6 DEF SeeNeighbour
  <2>7. CASE ClaimNeighbour(t) BY <2>7 DEF ClaimNeighbour
  <2>8. CASE EnqueueNeighbour(t)
    <3>1. Neighbour(t) \in Nodes BY <2>0, <2>8 DEF EnqueueNeighbour, WorkersInv, WorkerInv, HasNext, Neighbour
    <3>2. queue' \in Seq(Nodes) BY <2>8, <3>1 DEF EnqueueNeighbour, AddTail
    <3>3. index' \in [Threads -> Nat \ {0}] BY <2>8 DEF EnqueueNeighbour
    <3> QED BY <2>8, <3>2, <3>3 DEF EnqueueNeighbour
  <2>9. CASE EndScan(t) BY <2>9 DEF EndScan
  <2>10. CASE DestroyNode(t)
    <3>1. frees' \in [Nodes -> Nat]
      <4>1. task[t] \in Nodes /\ Free(task[t]) BY <2>0, <2>10 DEF DestroyNode, DestroyTask
      <4> QED BY <4>1, FreeType
    <3> QED BY <2>10, <3>1 DEF DestroyNode, DestroyTask
  <2> QED BY <1>2, <2>1, <2>2, <2>3, <2>4, <2>5, <2>6, <2>7, <2>8, <2>9, <2>10 DEF ActionStep
<1>3. ASSUME MainStep PROVE TypeOK'
  <2>1. CASE PoolMainStep
    BY <2>1 DEF PoolMainStep, CreateThread, ThreadpoolCreated, WaitForCompletion
  <2>2. CASE MarkRoot BY <2>2 DEF MarkRoot
  <2>3. CASE EnqueueRoot BY <2>3 DEF EnqueueRoot, AddTail
  <2>4. CASE SetAvailable BY <2>4 DEF SetAvailable
  <2>5. CASE Broadcast BY <2>5 DEF Broadcast
  <2>6. CASE DrainNode
    <3>1. queue' \in Seq(Nodes) BY <2>6 DEF DrainNode, DestroyQueued
    <3>3. frees' \in [Nodes -> Nat]
      <4>1. Head(queue) \in Nodes /\ Free(Head(queue)) BY <2>6 DEF DrainNode, DestroyQueued
      <4> QED BY <4>1, FreeType
    <3> QED BY <2>6, <3>1, <3>3 DEF DrainNode, DestroyQueued
  <2>7. CASE PrintSum BY <2>7 DEF PrintSum
  <2> QED BY <1>3, <2>1, <2>2, <2>3, <2>4, <2>5, <2>6, <2>7 DEF MainStep
<1>4. ASSUME NEW t \in Threads, Wakeup(t) PROVE TypeOK'
  BY <1>4 DEF Wakeup, SpuriousWakeup
<1>5. CASE UNCHANGED vars
  BY <1>5 DEF vars, poolVars
<1> QED BY <1>1, <1>2, <1>3, <1>4, <1>5 DEF Next, WorkerStep

-----------------------------------------------------------------------------
(* The locks: a worker enters a section only when its lock has no owner,   *)
(* and no step of main, of which none takes a lock for longer, disturbs    *)
(* the owners.                                                             *)
LEMMA LocksStep == SafetyInv /\ [Next]_vars => LocksInv'
<1> SUFFICES ASSUME TypeOK, LocksInv, [Next]_vars PROVE LocksInv'
  BY DEF SafetyInv
<1> USE PoolAssumption DEF Goto, MainGoto, LocksInv, graphVars
<1>0. pc \in [Threads -> WorkerPcs]
  BY DEF TypeOK
<1>1. ASSUME NEW t \in Threads, PoolStep(t) PROVE LocksInv'
  BY <1>0, <1>1 DEF PoolStep, CheckAvailable, CondWait, Reacquire, Unlock,
                    DequeueNull, TakeFirst, Unlink
<1>2. ASSUME NEW t \in Threads, ActionStep(t) PROVE LocksInv'
  <2>1. CASE CheckDone(t) \/ EndScan(t) \/ SkipNeighbour(t) \/ DestroyNode(t)
    BY <1>0, <2>1 DEF CheckDone, EndScan, SkipNeighbour, poolVars, DestroyNode, DestroyTask
  <2>2. CASE LoadSum(t) \/ StoreSum(t) \/ SetDone(t)
    BY <1>0, <2>2 DEF LoadSum, StoreSum, SetDone
  <2>3. CASE SeeNeighbour(t) \/ ClaimNeighbour(t) \/ EnqueueNeighbour(t)
    BY <1>0, <2>3 DEF SeeNeighbour, ClaimNeighbour, EnqueueNeighbour
  <2> QED BY <1>2, <2>1, <2>2, <2>3 DEF ActionStep
<1>3. ASSUME MainStep PROVE LocksInv'
  BY <1>0, <1>3 DEF MainStep, PoolMainStep, CreateThread, ThreadpoolCreated,
                    WaitForCompletion, MarkRoot, EnqueueRoot, SetAvailable, Broadcast,
                    DrainNode, DestroyQueued, PrintSum
<1>4. ASSUME NEW t \in Threads, Wakeup(t) PROVE LocksInv'
  BY <1>0, <1>4 DEF Wakeup, SpuriousWakeup
<1>5. CASE UNCHANGED vars
  BY <1>5 DEF vars, poolVars
<1> QED BY <1>1, <1>2, <1>3, <1>4, <1>5 DEF Next, WorkerStep

-----------------------------------------------------------------------------
(* What joining and leaving the queue do to the set of the queued nodes.   *)
NoDuplicates == \A i, j \in 1 .. Len(queue) : queue[i] = queue[j] => i = j

LEMMA AppendQueued ==
    ASSUME queue \in Seq(Nodes), NEW x \in Nodes, queue' = Append(queue, x)
    PROVE  /\ Queued' = Queued \cup {x}
           /\ NoDuplicates /\ x \notin Queued => NoDuplicates'
<1>1. /\ Len(queue') = Len(queue) + 1 /\ Len(queue) \in Nat
      /\ \A i \in 1 .. Len(queue) : queue'[i] = queue[i]
      /\ queue'[Len(queue) + 1] = x
  OBVIOUS
<1> QED BY <1>1 DEF Queued, NoDuplicates

LEMMA TailQueued ==
    ASSUME queue \in Seq(Nodes), queue # <<>>, queue' = Tail(queue)
    PROVE  /\ Queued = Queued' \cup {Head(queue)}
           /\ NoDuplicates => NoDuplicates' /\ Head(queue) \notin Queued'
<1>1. /\ Len(queue) \in Nat /\ Len(queue) >= 1
      /\ Len(queue') = Len(queue) - 1
      /\ \A i \in 1 .. Len(queue) - 1 : queue'[i] = queue[i + 1]
      /\ Head(queue) = queue[1]
  OBVIOUS
<1>2. \A i \in 1 .. Len(queue) : i = 1 \/ queue[i] = queue'[i - 1]
  BY <1>1
<1>3. ASSUME NEW i \in 1 .. Len(queue) PROVE queue[i] \in Queued' \cup {Head(queue)}
  <2>1. CASE i = 1 BY <1>1, <2>1
  <2>2. CASE i # 1
    <3>1. i - 1 \in 1 .. Len(queue') /\ queue[i] = queue'[i - 1]
      BY <1>1, <1>2, <2>2
    <3> QED BY <3>1 DEF Queued
  <2> QED BY <2>1, <2>2
<1>4. Queued' \subseteq Queued /\ Head(queue) \in Queued
  BY <1>1 DEF Queued
<1>5. ASSUME NoDuplicates PROVE NoDuplicates'
  BY <1>1, <1>5 DEF NoDuplicates
<1>6. ASSUME NoDuplicates PROVE Head(queue) \notin Queued'
  BY <1>1, <1>6 DEF NoDuplicates, Queued
<1> QED BY <1>3, <1>4, <1>5, <1>6 DEF Queued

LEMMA HeadQueued ==
    ASSUME queue \in Seq(Nodes), queue # <<>>
    PROVE  Head(queue) \in Nodes /\ Head(queue) \in Queued
  BY DEF Queued

-----------------------------------------------------------------------------
(* A neighbour still to be looked at is an entry of the task's list. *)
LEMMA NeighbourType ==
    ASSUME TypeOK, WorkersInv, NEW t \in Threads, pc[t] \in TaskPcs, HasNext(t)
    PROVE  /\ task[t] \in Nodes
           /\ index[t] \in 1 .. Len(Neighbours[task[t]])
           /\ Neighbour(t) \in Nodes
           /\ Neighbour(t) \in Adjacent(task[t])
<1>1. task[t] \in Nodes
  BY DEF TypeOK, WorkersInv, WorkerInv
<1>2. Neighbours[task[t]] \in Seq(Nodes)
  BY <1>1, GraphAssumption
<1>3. index[t] \in 1 .. Len(Neighbours[task[t]])
  BY <1>2 DEF TypeOK, HasNext
<1> QED BY <1>1, <1>2, <1>3 DEF Neighbour, Adjacent

LEMMA WorkersStep == SafetyInv /\ [Next]_vars => WorkersInv'
<1> SUFFICES ASSUME SafetyInv, [Next]_vars PROVE WorkersInv'
  OBVIOUS
<1> USE PoolAssumption, TasksAreNodes 
    DEF Goto, MainGoto, Mark, Free, Advance, graphVars, TaskPcs, ActionPcs,
        HasNext, Neighbour
<1>0. /\ TypeOK /\ LocksInv /\ WorkersInv /\ QueueInv
      /\ pc \in [Threads -> WorkerPcs]
      /\ task \in [Threads -> Nodes \cup {None}]
      /\ visited \in [Nodes -> Statuses]
      /\ frees \in [Nodes -> Nat]
      /\ index \in [Threads -> Nat \ {0}] /\ loaded \in [Threads -> Int]
  BY DEF SafetyInv, TypeOK
<1>1. ASSUME NEW t \in Threads, PoolStep(t), NEW u \in Threads PROVE WorkerInv(u)'
  <2> USE <1>0, <1>1 DEF WorkersInv, WorkerInv
  <2>1. CASE \/ CheckAvailable(t) \/ CondWait(t) \/ Reacquire(t) \/ Unlock(t)
             \/ DequeueNull(t)
    BY <2>1, SMTT(30) DEF PoolStep, CheckAvailable, CondWait, Reacquire, Unlock, DequeueNull, Queued
  <2>2. CASE TakeFirst(t)
    <3>1. Head(queue) \in Nodes /\ Head(queue) \in Queued
      BY <2>2, HeadQueued DEF TakeFirst, TypeOK
    <3>2. Queued' = Queued
      BY <2>2 DEF TakeFirst, Queued
    <3>3. CASE u = t
      BY <2>2, <3>1, <3>3 DEF PoolStep, TakeFirst, QueueInv
    <3>4. CASE u # t
      BY <2>2, <3>1, <3>2, <3>4 DEF PoolStep, TakeFirst
    <3> QED BY <3>3, <3>4
  <2>3. CASE Unlink(t)
    <3>1. Queued' \subseteq Queued
      BY <2>3, TailQueued DEF Unlink, TypeOK
    <3>2. u # t => pc[u] # "unlink"
      BY <2>3 DEF Unlink, LocksInv
    <3> QED BY <2>3, <3>1, <3>2 DEF PoolStep, Unlink
  <2> QED BY <2>1, <2>2, <2>3 DEF PoolStep
<1>2. ASSUME NEW t \in Threads, ActionStep(t), NEW u \in Threads PROVE WorkerInv(u)'
  <2> USE <1>0, <1>2 DEF WorkersInv, WorkerInv
  <2>1. CASE CheckDone(t) \/ EndScan(t) \/ SkipNeighbour(t)
    BY <2>1, SMTT(30) DEF CheckDone, EndScan, SkipNeighbour, poolVars, Queued, LocksInv
  <2>2. CASE LoadSum(t) \/ StoreSum(t)
    <3>1. Queued' = Queued BY <2>2 DEF LoadSum, StoreSum, Queued
    <3>2. pc[u] = "store" => t = u BY <2>2 DEF LoadSum, StoreSum, LocksInv
    <3>3. CASE u = t BY <2>2, <3>1, <3>3 DEF LoadSum, StoreSum
    <3>4. CASE u # t BY <2>2, <3>1, <3>2, <3>4 DEF LoadSum, StoreSum
    <3> QED BY <3>3, <3>4
  <2>3. CASE SetDone(t)
    <3>1. Queued' = Queued BY <2>3 DEF SetDone, Queued
    <3>2. task[t] \in Nodes BY <2>3 DEF SetDone
    <3>3. CASE u = t BY <2>3, <3>1, <3>2, <3>3 DEF SetDone
    <3>4. CASE u # t
      <4>1. pc[u] \notin {"claim", "enqueue"} BY <2>3 DEF SetDone, LocksInv
      <4>2. task[u] # task[t] BY <3>2, <3>4 DEF SafetyInv, OneOwner
      <4> QED BY <2>3, <3>1, <3>2, <3>4, <4>1, <4>2 DEF SetDone
    <3> QED BY <3>3, <3>4
  <2>4. CASE SeeNeighbour(t)
    BY <2>4 DEF SeeNeighbour, LocksInv, Queued
  <2>5. CASE ClaimNeighbour(t)
    <3> DEFINE n == Neighbour(t)
    <3>1. n \in Nodes /\ visited[n] = "NOT_VISITED"
      BY <2>5, NeighbourType DEF ClaimNeighbour
    <3>2. n \notin Queued /\ \A v \in Threads : task[v] # n
      <4>1. n \notin Queued BY <3>1 DEF QueueInv
      <4>2. ASSUME NEW v \in Threads, task[v] = n PROVE FALSE
        <5>1. pc[v] \in TaskPcs BY <3>1, <4>2
        <5> QED BY <3>1, <4>2, <5>1
      <4> QED BY <4>1, <4>2
    <3>3. frees[n] = 0
      BY <2>5, <3>1 DEF SafetyInv, FreesInv, MainInv, ClaimNeighbour
    <3>4. Queued' = Queued /\ UNCHANGED <<task, index, frees, loaded, sum, queue>>
      BY <2>5 DEF ClaimNeighbour, Queued
    <3>5. visited' = [visited EXCEPT ![n] = "PROCESSING"] /\ pc' = [pc EXCEPT ![t] = "enqueue"]
      BY <2>5 DEF ClaimNeighbour, Mark
    <3>6. pc[t] = "claim" BY <2>5 DEF ClaimNeighbour
    <3>7. u # t => pc[u] \notin {"claim", "enqueue"} BY <2>5 DEF ClaimNeighbour, LocksInv
    <3>8. n' = n BY <3>4
    <3>9. CASE u = t
      BY <3>1, <3>2, <3>3, <3>4, <3>5, <3>6, <3>8, <3>9
    <3>10. CASE u # t
      <4>1. task[u] # n BY <3>2
      <4> QED BY <3>1, <3>2, <3>4, <3>5, <3>7, <3>10, <4>1
    <3> QED BY <3>9, <3>10
  <2>6. CASE EnqueueNeighbour(t)
    <3>1. u # t => pc[u] \notin {"claim", "enqueue", "unlink"}
      BY <2>6 DEF EnqueueNeighbour, AddTail, LocksInv
    <3>2. CASE u = t BY <2>6, <3>2 DEF EnqueueNeighbour
    <3>3. CASE u # t BY <2>6, <3>1, <3>3 DEF EnqueueNeighbour
    <3> QED BY <3>2, <3>3
  <2>7. CASE DestroyNode(t)
    <3>1. Queued' = Queued BY <2>7 DEF DestroyNode, DestroyTask, Queued
    <3>2. CASE u = t BY <2>7, <3>2 DEF DestroyNode, DestroyTask
    <3>3. CASE u # t
      <4>1. UNCHANGED <<Neighbour(u), HasNext(u)>> /\ task'[u] = task[u] /\ pc'[u] = pc[u]
        BY <2>7, <3>3 DEF DestroyNode, DestroyTask
      <4>2. ASSUME pc[u] = "enqueue" PROVE frees'[Neighbour(u)] = 0
        BY <2>7, <4>2, NeighbourType DEF DestroyNode
      <4>3. \A v \in Threads : task'[v] \in {task[v], None}
        BY <2>7 DEF DestroyNode, DestroyTask
      <4>4. pc[u] = "enqueue" => Neighbour(u) # None
        BY NeighbourType
      <4> QED BY <2>7, <3>1, <4>1, <4>2, <4>3, <4>4 DEF DestroyNode, DestroyTask
    <3> QED BY <3>2, <3>3
  <2> QED BY <2>1, <2>2, <2>3, <2>4, <2>5, <2>6, <2>7 DEF ActionStep
<1>3. ASSUME MainStep, NEW u \in Threads PROVE WorkerInv(u)'
  <2> USE <1>0, <1>3 DEF WorkersInv, WorkerInv
  <2>1. CASE PoolMainStep
    BY <2>1, SMTT(30) DEF PoolMainStep, CreateThread, ThreadpoolCreated, WaitForCompletion, Queued
  <2>2. CASE MarkRoot \/ EnqueueRoot
    <3>1. pc[u] \notin TaskPcs BY <2>2 DEF SafetyInv, MainInv, MarkRoot, EnqueueRoot
    <3> QED BY <2>2, <3>1 DEF MarkRoot, EnqueueRoot
  <2>3. CASE SetAvailable \/ Broadcast
    BY <2>3, SMTT(30) DEF SetAvailable, Broadcast, Queued
  <2>4. CASE DrainNode \/ PrintSum
    <3>1. pc[u] = "exited"
      BY <2>4 DEF SafetyInv, MainInv, DrainNode, DestroyQueued, PrintSum
    <3> QED BY <2>4, <3>1 DEF DrainNode, DestroyQueued, PrintSum
  <2> QED BY <2>1, <2>2, <2>3, <2>4 DEF MainStep
<1>4. ASSUME NEW t \in Threads, Wakeup(t), NEW u \in Threads PROVE WorkerInv(u)'
  BY <1>0, <1>4 DEF Wakeup, SpuriousWakeup, Queued, WorkersInv, WorkerInv
<1>5. CASE UNCHANGED vars
  BY <1>0, <1>5 DEF vars, poolVars, WorkersInv, WorkerInv, Queued
<1> QED BY <1>1, <1>2, <1>3, <1>4, <1>5 DEF Next, WorkerStep, WorkersInv

-----------------------------------------------------------------------------
LEMMA MainStepInv == SafetyInv /\ [Next]_vars => MainInv'
<1> SUFFICES ASSUME SafetyInv, [Next]_vars PROVE MainInv'
  OBVIOUS
<1> USE PoolAssumption, TasksAreNodes, GraphAssumption
    DEF Goto, MainGoto, Mark, Free, Advance, graphVars, TaskPcs, ActionPcs, MainInv
<1>0. /\ TypeOK /\ WorkersInv /\ MainInv
      /\ pc \in [Threads -> WorkerPcs]
      /\ visited \in [Nodes -> Statuses]
  BY DEF SafetyInv, TypeOK
<1>1. ASSUME NEW t \in Threads, PoolStep(t) PROVE MainInv'
  BY <1>0, <1>1 DEF PoolStep, CheckAvailable, CondWait, Reacquire, Unlock,
                    DequeueNull, TakeFirst, Unlink
<1>2. ASSUME NEW t \in Threads, ActionStep(t) PROVE MainInv'
  <2>1. pc[t] \in TaskPcs
    BY <1>2 DEF ActionStep, CheckDone, EndScan, SkipNeighbour, DestroyNode, DestroyTask,
                LoadSum, StoreSum, SetDone, SeeNeighbour, ClaimNeighbour, EnqueueNeighbour
  <2>2. mainPc \notin {"create", "submit", "enqueue", "drain", "exit"}
    BY <1>0, <2>1
  <2>3. UNCHANGED mainPc
    BY <1>2 DEF ActionStep, CheckDone, EndScan, SkipNeighbour, DestroyNode, DestroyTask,
                LoadSum, StoreSum, SetDone, SeeNeighbour, ClaimNeighbour, EnqueueNeighbour,
                poolVars
  <2> QED BY <2>2, <2>3
<1>3. ASSUME MainStep PROVE MainInv'
  <2>1. CASE PoolMainStep
    BY <1>0, <2>1 DEF PoolMainStep, CreateThread, ThreadpoolCreated, WaitForCompletion
  <2>2. CASE MarkRoot BY <1>0, <2>2 DEF MarkRoot
  <2>3. CASE EnqueueRoot \/ SetAvailable \/ Broadcast
    BY <1>0, <2>3 DEF EnqueueRoot, SetAvailable, Broadcast
  <2>4. CASE DrainNode \/ PrintSum
    BY <1>0, <2>4 DEF DrainNode, DestroyQueued, PrintSum
  <2> QED BY <1>3, <2>1, <2>2, <2>3, <2>4 DEF MainStep
<1>4. ASSUME NEW t \in Threads, Wakeup(t) PROVE MainInv'
  BY <1>0, <1>4 DEF Wakeup, SpuriousWakeup
<1>5. CASE UNCHANGED vars
  BY <1>0, <1>5 DEF vars, poolVars
<1> QED BY <1>1, <1>2, <1>3, <1>4, <1>5 DEF Next, WorkerStep

-----------------------------------------------------------------------------
(* The steps that move a node, and the rest.                               *)
MovesNode(t) ==
    \/ TakeFirst(t) /\ UNCHANGED graphVars
    \/ Unlink(t) /\ UNCHANGED graphVars
    \/ SetDone(t) \/ ClaimNeighbour(t) \/ EnqueueNeighbour(t) \/ DestroyNode(t)

MainMovesNode == MarkRoot \/ EnqueueRoot \/ DrainNode \/ PrintSum

Quiet ==
    /\ UNCHANGED <<queue, task, visited, frees>>
    /\ \A t \in Threads :
          /\ pc[t] = "unlink" => pc'[t] = "unlink"
          /\ pc[t] = "enqueue" => pc'[t] = "enqueue" /\ index'[t] = index[t]
          /\ pc'[t] \in TaskPcs => pc[t] \in TaskPcs
    /\ mainPc = "enqueue" => mainPc' = "enqueue"
    /\ (mainPc = "exit") <=> (mainPc' = "exit")

LEMMA QuietSteps ==
    ASSUME TypeOK, [Next]_vars
    PROVE  Quiet \/ (\E t \in Threads : MovesNode(t)) \/ MainMovesNode
<1> USE DEF Goto, MainGoto, Advance, graphVars, MovesNode, MainMovesNode, Quiet,
            TaskPcs, ActionPcs
<1>0. pc \in [Threads -> WorkerPcs] /\ index \in [Threads -> Nat \ {0}]
  BY DEF TypeOK
<1>1. ASSUME NEW t \in Threads, PoolStep(t), ~MovesNode(t) PROVE Quiet
  BY <1>0, <1>1 DEF PoolStep, CheckAvailable, CondWait, Reacquire, Unlock, DequeueNull
<1>2. ASSUME NEW t \in Threads, ActionStep(t), ~MovesNode(t) PROVE Quiet
  BY <1>0, <1>2 DEF ActionStep, CheckDone, LoadSum, StoreSum, SkipNeighbour,
                    SeeNeighbour, EndScan, poolVars
<1>3. ASSUME MainStep, ~MainMovesNode PROVE Quiet
  BY <1>0, <1>3 DEF MainStep, PoolMainStep, CreateThread, ThreadpoolCreated,
                    WaitForCompletion, SetAvailable, Broadcast
<1>4. ASSUME NEW t \in Threads, Wakeup(t) PROVE Quiet
  BY <1>0, <1>4 DEF Wakeup, SpuriousWakeup
<1>5. CASE UNCHANGED vars
  BY <1>5 DEF vars, poolVars
<1> QED BY <1>1, <1>2, <1>3, <1>4, <1>5 DEF Next, WorkerStep

(* A node in the queue is one that was claimed and that nobody has run.    *)
LEMMA QueueStep == SafetyInv /\ [Next]_vars => QueueInv'
<1> SUFFICES ASSUME SafetyInv, [Next]_vars PROVE QueueInv'
  OBVIOUS
<1> USE DEF Goto, MainGoto, Mark, Free, graphVars, QueueInv
<1>0. /\ TypeOK /\ WorkersInv /\ QueueInv
      /\ queue \in Seq(Nodes) /\ visited \in [Nodes -> Statuses]
  BY DEF SafetyInv, TypeOK
<1>1. CASE Quiet
  BY <1>0, <1>1 DEF Quiet, Queued
<1>2. ASSUME NEW t \in Threads, Unlink(t), UNCHANGED graphVars PROVE QueueInv'
  <2>1. Queued' \subseteq Queued
    BY <1>0, <1>2, TailQueued DEF Unlink, WorkersInv, WorkerInv
  <2> QED BY <1>0, <1>2, <2>1
<1>3. ASSUME NEW t \in Threads, SetDone(t) PROVE QueueInv'
  <2>1. task[t] \notin Queued
    BY <1>3 DEF SafetyInv, OneOwner, SetDone
  <2>2. Queued' = Queued
    BY <1>3 DEF SetDone, Queued
  <2> QED BY <1>0, <1>3, <2>1, <2>2 DEF SetDone, Queued
<1>4. ASSUME NEW t \in Threads, ClaimNeighbour(t) PROVE QueueInv'
  BY <1>0, <1>4 DEF ClaimNeighbour, Queued
<1>5. ASSUME NEW t \in Threads, EnqueueNeighbour(t) PROVE QueueInv'
  <2>1. /\ Neighbour(t) \in Nodes /\ visited[Neighbour(t)] = "PROCESSING"
        /\ pc[t] = "enqueue"
    BY <1>0, <1>5, NeighbourType
    DEF EnqueueNeighbour, WorkersInv, WorkerInv, TaskPcs, ActionPcs
  <2>2. Queued' = Queued \cup {Neighbour(t)}
    BY <1>0, <1>5, <2>1, AppendQueued DEF EnqueueNeighbour, AddTail
  <2> QED BY <1>0, <1>5, <2>1, <2>2 DEF EnqueueNeighbour
<1>6. CASE MarkRoot
  BY <1>0, <1>6 DEF MarkRoot, SafetyInv, MainInv, Queued
<1>7. CASE EnqueueRoot
  <2>1. Queued' = Queued \cup {Root}
    BY <1>0, <1>7, AppendQueued, GraphAssumption DEF EnqueueRoot, AddTail
  <2>2. visited[Root] = "PROCESSING"
    BY <1>7, GraphAssumption DEF EnqueueRoot, SafetyInv, MainInv
  <2> QED BY <1>0, <1>7, <2>1, <2>2 DEF EnqueueRoot
<1>8. CASE DrainNode
  <2>1. Queued' \subseteq Queued
    BY <1>0, <1>8, TailQueued DEF DrainNode, DestroyQueued
  <2> QED BY <1>0, <1>8, <2>1 DEF DrainNode, DestroyQueued
<1>9. ASSUME NEW t \in Threads, TakeFirst(t), UNCHANGED graphVars PROVE QueueInv'
  BY <1>0, <1>9 DEF TakeFirst, Queued
<1>10. ASSUME NEW t \in Threads, DestroyNode(t) PROVE QueueInv'
  BY <1>0, <1>10 DEF DestroyNode, DestroyTask, Queued
<1>11. CASE PrintSum
  BY <1>0, <1>11 DEF PrintSum, Queued
<1> QED BY QuietSteps, <1>0, <1>1, <1>2, <1>3, <1>4, <1>5, <1>6, <1>7, <1>8, <1>9, <1>10, <1>11
        DEF MovesNode, MainMovesNode

-----------------------------------------------------------------------------
(* No node is in two places: what is appended was in none, and taking the  *)
(* head and unlinking it are not separated by another worker's dequeue.    *)
LEMMA OwnerStep == SafetyInv /\ [Next]_vars => OneOwner'
<1> SUFFICES ASSUME SafetyInv, [Next]_vars PROVE OneOwner'
  OBVIOUS
<1> USE PoolAssumption, TasksAreNodes DEF Goto, MainGoto, graphVars, TaskPcs, ActionPcs
<1> DEFINE TaskOwners == /\ \A t, u \in Threads : task[t] = task[u] /\ task[t] # None => t = u
                         /\ \A t \in Threads : task[t] \in Queued => pc[t] = "unlink"
<1>0. /\ TypeOK /\ LocksInv /\ WorkersInv /\ QueueInv
      /\ NoDuplicates /\ TaskOwners
      /\ queue \in Seq(Nodes) /\ task \in [Threads -> Nodes \cup {None}]
      /\ pc \in [Threads -> WorkerPcs]
  BY DEF SafetyInv, TypeOK, OneOwner, NoDuplicates
<1>s. SUFFICES NoDuplicates' /\ TaskOwners'
  BY DEF OneOwner, NoDuplicates
<1> HIDE <1>s
<1>2. ASSUME NEW t \in Threads, TakeFirst(t) PROVE NoDuplicates' /\ TaskOwners'
  <2>1. Head(queue) \in Nodes /\ Head(queue) \in Queued
    BY <1>0, <1>2, HeadQueued DEF TakeFirst
  <2>2. ASSUME NEW u \in Threads PROVE task[u] # Head(queue)
    BY <1>0, <1>2, <2>1 DEF TakeFirst, LocksInv
  <2>3. Queued' = Queued /\ NoDuplicates'
    BY <1>0, <1>2 DEF TakeFirst, Queued, NoDuplicates
  <2> QED BY <1>0, <1>2, <2>1, <2>2, <2>3 DEF TakeFirst, LocksInv
<1>3. ASSUME NEW t \in Threads, Unlink(t) PROVE NoDuplicates' /\ TaskOwners'
  <2>1. /\ queue # <<>> /\ Head(queue) = task[t]
        /\ \A u \in Threads : pc[u] = "unlink" => u = t
    BY <1>0, <1>3 DEF Unlink, WorkersInv, WorkerInv, LocksInv
  <2>2. NoDuplicates' /\ Queued' \subseteq Queued /\ task[t] \notin Queued'
    BY <1>0, <1>3, <2>1, TailQueued DEF Unlink
  <2> QED BY <1>0, <1>3, <2>1, <2>2 DEF Unlink
<1>4. ASSUME NEW t \in Threads, EnqueueNeighbour(t) PROVE NoDuplicates' /\ TaskOwners'
  <2> DEFINE n == Neighbour(t)
  <2>1. /\ n \in Nodes /\ n \notin Queued
        /\ \A u \in Threads : task[u] # n
    BY <1>0, <1>4, NeighbourType DEF EnqueueNeighbour, WorkersInv, WorkerInv
  <2>2. NoDuplicates' /\ Queued' = Queued \cup {n}
    BY <1>0, <1>4, <2>1, AppendQueued DEF EnqueueNeighbour, AddTail
  <2> QED BY <1>0, <1>4, <2>1, <2>2 DEF EnqueueNeighbour
<1>5. ASSUME NEW t \in Threads, DestroyNode(t) PROVE NoDuplicates' /\ TaskOwners'
  BY <1>0, <1>5 DEF DestroyNode, DestroyTask, Queued, NoDuplicates
<1>6. CASE EnqueueRoot
  <2>1. /\ Queued = {} /\ \A u \in Threads : task[u] = None
    BY <1>0, <1>6 DEF SafetyInv, MainInv, EnqueueRoot, WorkersInv, WorkerInv, Queued
  <2>2. NoDuplicates' /\ Queued' = Queued \cup {Root}
    BY <1>0, <1>6, <2>1, AppendQueued, GraphAssumption DEF EnqueueRoot, AddTail
  <2> QED BY <1>0, <1>6, <2>1, <2>2, GraphAssumption DEF EnqueueRoot
<1>7. CASE DrainNode
  <2>1. NoDuplicates' /\ Queued' \subseteq Queued
    BY <1>0, <1>7, TailQueued DEF DrainNode, DestroyQueued
  <2> QED BY <1>0, <1>7, <2>1 DEF DrainNode, DestroyQueued
<1>8. CASE Quiet \/ PrintSum \/ MarkRoot
  BY <1>0, <1>8 DEF Quiet, PrintSum, MarkRoot, Queued, NoDuplicates
<1>9. ASSUME NEW t \in Threads, SetDone(t) \/ ClaimNeighbour(t)
      PROVE  NoDuplicates' /\ TaskOwners'
  BY <1>0, <1>9 DEF SetDone, ClaimNeighbour, Queued, NoDuplicates
<1> HIDE DEF TaskOwners
<1> QED BY QuietSteps, <1>0, <1>s, <1>2, <1>3, <1>4, <1>5, <1>6, <1>7, <1>8, <1>9
        DEF MovesNode, MainMovesNode

-----------------------------------------------------------------------------
(* Every step keeps the account of who is to free which node.              *)
Account(n) ==
    /\ frees[n] <= 1
    /\ visited[n] = "NOT_VISITED" /\ mainPc # "exit" => frees[n] = 0
    /\ frees[n] = 0 => \/ visited[n] = "NOT_VISITED" /\ mainPc # "exit"
                       \/ Owned(n)
    /\ n \in Queued => frees[n] = 0
    /\ \A t \in Threads : task[t] = n => frees[n] = 0

LEMMA AccountStep == SafetyInv /\ [Next]_vars => \A n \in Nodes : Account(n)'
<1> SUFFICES ASSUME SafetyInv, [Next]_vars, NEW n \in Nodes PROVE Account(n)'
  OBVIOUS
<1> USE PoolAssumption, TasksAreNodes DEF Goto, MainGoto, Mark, graphVars, TaskPcs, ActionPcs
<1>0. /\ TypeOK /\ LocksInv /\ WorkersInv /\ QueueInv /\ Account(n)
      /\ queue \in Seq(Nodes) /\ task \in [Threads -> Nodes \cup {None}]
      /\ visited \in [Nodes -> Statuses] /\ frees \in [Nodes -> Nat]
      /\ pc \in [Threads -> WorkerPcs] /\ index \in [Threads -> Nat \ {0}]
  BY DEF SafetyInv, TypeOK, FreesInv, FreedExactlyOnce, Account
<1>1. CASE Quiet
  <2>1. Queued' = Queued /\ UNCHANGED <<visited, task, frees>>
    BY <1>1 DEF Quiet, Queued
  <2>2. Owned(n) => Owned(n)'
    BY <1>1, <2>1 DEF Quiet, Owned, Neighbour
  <2> QED BY <1>0, <1>1, <2>1, <2>2 DEF Account, Quiet
<1>2. ASSUME NEW t \in Threads, TakeFirst(t), UNCHANGED graphVars
      PROVE  Account(n)'
  <2>1. Head(queue) \in Queued /\ Queued' = Queued /\ UNCHANGED <<visited, frees, mainPc>>
    BY <1>0, <1>2, HeadQueued DEF TakeFirst, Queued
  <2>2. pc[t] = "poll" /\ task[t] = None
    BY <1>0, <1>2 DEF TakeFirst, WorkersInv, WorkerInv
  <2>3. \A u \in Threads : u # t => task'[u] = task[u] /\ pc'[u] = pc[u] /\ index'[u] = index[u]
    BY <1>0, <1>2 DEF TakeFirst
  <2>4. task'[t] = Head(queue) BY <1>0, <1>2 DEF TakeFirst
  <2>5. Owned(n) => Owned(n)'
    BY <2>1, <2>2, <2>3 DEF Owned, Neighbour
  <2> QED BY <1>0, <2>1, <2>3, <2>4, <2>5 DEF Account
<1>3. ASSUME NEW t \in Threads, Unlink(t), UNCHANGED graphVars
      PROVE  Account(n)'
  <2>1. queue # <<>> /\ Head(queue) = task[t] /\ pc[t] = "unlink"
    BY <1>0, <1>3 DEF Unlink, WorkersInv, WorkerInv
  <2>2. Queued = Queued' \cup {task[t]}
    BY <1>0, <1>3, <2>1, TailQueued DEF Unlink
  <2>3. UNCHANGED <<task, visited, frees, index, mainPc>>
    BY <1>3 DEF Unlink
  <2>4. \A u \in Threads : u # t => pc'[u] = pc[u]
    BY <1>0, <1>3 DEF Unlink
  <2>5. Owned(n) => Owned(n)'
    BY <2>1, <2>2, <2>3, <2>4 DEF Owned, Neighbour
  <2> QED BY <1>0, <2>2, <2>3, <2>5 DEF Account
<1>4. ASSUME NEW t \in Threads, SetDone(t) PROVE Account(n)'
  <2>1. Queued' = Queued /\ UNCHANGED <<task, frees, mainPc>>
    BY <1>4 DEF SetDone, Queued
  <2>2. \A u \in Threads : u # t => pc'[u] = pc[u] /\ index'[u] = index[u]
    BY <1>0, <1>4 DEF SetDone
  <2>3. pc[t] = "done" /\ visited' = [visited EXCEPT ![task[t]] = "DONE"]
    BY <1>4 DEF SetDone
  <2>4. Owned(n) => Owned(n)'
    BY <2>1, <2>2, <2>3 DEF Owned, Neighbour
  <2>5. task[t] \in Nodes /\ visited[task[t]] # "NOT_VISITED"
    BY <1>0, <2>3 DEF WorkersInv, WorkerInv
  <2> QED BY <1>0, <2>1, <2>3, <2>4, <2>5 DEF Account
<1>5. ASSUME NEW t \in Threads, ClaimNeighbour(t) PROVE Account(n)'
  <2> DEFINE m == Neighbour(t)
  <2>1. /\ Queued' = Queued /\ UNCHANGED <<task, index, frees, mainPc>>
        /\ visited' = [visited EXCEPT ![m] = "PROCESSING"]
        /\ pc[t] = "claim" /\ pc'[t] = "enqueue"
    BY <1>0, <1>5 DEF ClaimNeighbour, Queued
  <2>2. m \in Nodes /\ visited[m] = "NOT_VISITED"
    BY <1>0, <2>1, NeighbourType DEF WorkersInv, WorkerInv
  <2>3. \A u \in Threads : u # t => pc'[u] = pc[u]
    BY <1>0, <1>5 DEF ClaimNeighbour
  <2>4. m' = m
    BY <2>1 DEF Neighbour
  <2>5. Owned(n) \/ n = m => Owned(n)'
    BY <2>1, <2>3, <2>4 DEF Owned, Neighbour
  <2> QED BY <1>0, <2>1, <2>2, <2>5 DEF Account
<1>6. ASSUME NEW t \in Threads, EnqueueNeighbour(t) PROVE Account(n)'
  <2> DEFINE m == Neighbour(t)
  <2>1. /\ pc[t] = "enqueue" /\ queue' = Append(queue, m)
        /\ UNCHANGED <<task, visited, frees, mainPc>>
    BY <1>6 DEF EnqueueNeighbour, AddTail
  <2>2. m \in Nodes /\ frees[m] = 0
    BY <1>0, <2>1, NeighbourType DEF WorkersInv, WorkerInv
  <2>3. Queued' = Queued \cup {m}
    BY <1>0, <2>1, <2>2, AppendQueued
  <2>4. \A u \in Threads : u # t => pc'[u] = pc[u] /\ index'[u] = index[u]
    BY <1>0, <1>6 DEF EnqueueNeighbour, Advance
  <2>5. Owned(n) => Owned(n)'
    <3>1. CASE n = m BY <2>3, <3>1 DEF Owned
    <3>2. CASE n # m BY <2>1, <2>3, <2>4, <3>2 DEF Owned, Neighbour
    <3> QED BY <3>1, <3>2
  <2> QED BY <1>0, <2>1, <2>2, <2>3, <2>5 DEF Account
<1>7. ASSUME NEW t \in Threads, DestroyNode(t) PROVE Account(n)'
  <2> DEFINE m == task[t]
  <2>1. /\ pc[t] = "destroy" /\ task' = [task EXCEPT ![t] = None]
        /\ frees' = [frees EXCEPT ![m] = @ + 1]
        /\ Queued' = Queued /\ UNCHANGED <<visited, index, mainPc>>
    BY <1>7 DEF DestroyNode, DestroyTask, Free, Queued
  <2>2. /\ m \in Nodes /\ m \notin Queued
        /\ \A u \in Threads : u # t => task[u] # m
    BY <1>0, <2>1 DEF WorkersInv, WorkerInv, SafetyInv, OneOwner
  <2>3. visited[m] # "NOT_VISITED" /\ frees[m] = 0
    BY <1>0, <2>1, <2>2 DEF WorkersInv, WorkerInv, SafetyInv, FreedExactlyOnce
  <2>4. \A u \in Threads : u # t => pc'[u] = pc[u] /\ task'[u] = task[u]
    BY <1>0, <1>7, <2>1 DEF DestroyNode, DestroyTask
  <2>5. CASE n = m
    <3>1. frees'[n] = 1 BY <1>0, <2>1, <2>2, <2>3, <2>5
    <3> QED BY <1>0, <2>1, <2>2, <2>3, <2>4, <2>5, <3>1 DEF Account
  <2>6. CASE n # m
    <3>1. frees'[n] = frees[n] BY <1>0, <2>1, <2>6
    <3>2. Owned(n) => Owned(n)'
      BY <2>1, <2>4, <2>6 DEF Owned, Neighbour
    <3>3. \A u \in Threads : task'[u] = n => task[u] = n
      BY <1>0, <2>1, <2>4
    <3> QED BY <1>0, <2>1, <3>1, <3>2, <3>3 DEF Account
  <2> QED BY <2>5, <2>6
<1>8. CASE MarkRoot
  <2>1. /\ UNCHANGED <<task, index, frees, pc>> /\ Queued' = Queued
        /\ mainPc = "submit" /\ mainPc' = "enqueue"
        /\ visited' = [visited EXCEPT ![Root] = "PROCESSING"]
    BY <1>8 DEF MarkRoot, Queued
  <2>2. Owned(n) \/ n = Root => Owned(n)'
    BY <2>1 DEF Owned, Neighbour
  <2> QED BY <1>0, <2>1, <2>2 DEF Account
<1>9. CASE EnqueueRoot
  <2>1. /\ UNCHANGED <<task, index, frees, pc, visited>>
        /\ mainPc = "enqueue" /\ mainPc' = "announce"
        /\ queue' = Append(queue, Root)
    BY <1>9 DEF EnqueueRoot, AddTail
  <2>2. Queued' = Queued \cup {Root}
    BY <1>0, <2>1, GraphAssumption, AppendQueued
  <2>3. Owned(n) => Owned(n)'
    BY <2>1, <2>2 DEF Owned, Neighbour
  <2>4. frees[Root] = 0
    BY <2>1, GraphAssumption DEF SafetyInv, MainInv
  <2> QED BY <1>0, <2>1, <2>2, <2>3, <2>4 DEF Account
<1>10. CASE DrainNode
  <2> DEFINE m == Head(queue)
  <2>1. /\ UNCHANGED <<task, index, pc, visited, mainPc>> /\ mainPc = "drain"
        /\ queue # <<>> /\ queue' = Tail(queue)
        /\ frees' = [frees EXCEPT ![m] = @ + 1]
    BY <1>10 DEF DrainNode, DestroyQueued, Free
  <2>2. m \in Nodes /\ m \in Queued /\ m \notin Queued' /\ Queued = Queued' \cup {m}
    BY <1>0, <2>1, HeadQueued, TailQueued DEF SafetyInv, OneOwner, NoDuplicates
  <2>3. visited[m] # "NOT_VISITED" /\ frees[m] = 0
    BY <1>0, <2>2 DEF SafetyInv, QueueInv, FreedExactlyOnce
  <2>4. \A u \in Threads : task[u] = None
    BY <1>0, <2>1 DEF SafetyInv, MainInv, WorkersInv, WorkerInv
  <2>5. CASE n = m
    <3>1. frees'[n] = 1 BY <1>0, <2>1, <2>2, <2>3, <2>5
    <3> QED BY <1>0, <2>1, <2>2, <2>3, <2>4, <2>5, <3>1 DEF Account
  <2>6. CASE n # m
    <3>1. frees'[n] = frees[n] BY <1>0, <2>1, <2>6
    <3>2. Owned(n) => Owned(n)'
      BY <2>1, <2>2, <2>6 DEF Owned, Neighbour
    <3> QED BY <1>0, <2>1, <2>2, <2>4, <3>1, <3>2 DEF Account
  <2> QED BY <2>5, <2>6
<1>11. CASE PrintSum
  <2>1. /\ UNCHANGED <<task, index, pc, visited, queue>>
        /\ mainPc = "drain" /\ mainPc' = "exit" /\ queue = <<>>
        /\ frees'[n] = IF visited[n] = "NOT_VISITED" THEN frees[n] + 1 ELSE frees[n]
    BY <1>11 DEF PrintSum
  <2>2. \A u \in Threads : task[u] = None /\ pc[u] = "exited"
    BY <1>0, <2>1 DEF SafetyInv, MainInv, WorkersInv, WorkerInv
  <2>3. Queued = {} /\ Queued' = {}
    BY <2>1 DEF Queued
  <2>4. ~Owned(n)
    BY <2>1, <2>2, <2>3 DEF Owned
  <2> QED BY <1>0, <2>1, <2>2, <2>3, <2>4 DEF Account
<1> QED BY QuietSteps, <1>0, <1>1, <1>2, <1>3, <1>4, <1>5, <1>6, <1>7, <1>8, <1>9, <1>10, <1>11
        DEF MovesNode, MainMovesNode

LEMMA FreesStep == SafetyInv /\ [Next]_vars => FreesInv' /\ FreedExactlyOnce'
<1> SUFFICES ASSUME SafetyInv, [Next]_vars PROVE FreesInv' /\ FreedExactlyOnce'
  OBVIOUS
<1>1. TypeOK' /\ WorkersInv' /\ MainInv' /\ \A n \in Nodes : Account(n)'
  BY TypeStep, WorkersStep, MainStepInv, AccountStep
<1>2. /\ \A i \in 1 .. Len(queue') : queue'[i] \in Nodes
      /\ \A t \in Threads : task'[t] # None => task'[t] \in Nodes
      /\ \A n \in Nodes : frees'[n] \in Nat
  BY <1>1 DEF TypeOK
<1>3. ASSUME mainPc' = "exit", NEW n \in Nodes PROVE frees'[n] = 1
  <2>1. ~Owned(n)'
    BY <1>1, <1>3, PoolAssumption, TasksAreNodes
    DEF MainInv, WorkersInv, WorkerInv, Owned, Queued, TaskPcs, ActionPcs
  <2>2. frees'[n] <= 1 /\ frees'[n] # 0
    BY <1>1, <1>3, <2>1 DEF Account
  <2> QED BY <1>2, <2>2
<1>4. \A n \in Queued' : n \in Nodes
  BY <1>2 DEF Queued
<1>5. FreesInv'
  BY <1>1 DEF FreesInv, Account
<1> QED BY <1>1, <1>2, <1>3, <1>4, <1>5 DEF FreedExactlyOnce, Account

-----------------------------------------------------------------------------
LEMMA SafetyInit == Init => SafetyInv
<1> SUFFICES ASSUME Init PROVE SafetyInv
  OBVIOUS
<1> USE PoolAssumption, TasksAreNodes, GraphAssumption DEF Init, PoolInit, TaskPcs, ActionPcs
<1>1. TypeOK
  <2>1. queue \in Seq(Nodes) OBVIOUS
  <2>2. pc \in [Threads -> WorkerPcs] BY DEF WorkerPcs, BeforeTaskPcs
  <2>3. task \in [Threads -> Nodes \cup {None}] OBVIOUS
  <2>4. visited \in [Nodes -> Statuses] BY DEF Statuses
  <2>5. loaded \in [Threads -> Int] /\ index \in [Threads -> Nat \ {0}]
    OBVIOUS
  <2>6. frees \in [Nodes -> Nat] OBVIOUS
  <2> QED BY <2>1, <2>2, <2>3, <2>4, <2>5, <2>6 DEF TypeOK, MainPcs
<1>2. LocksInv /\ WorkersInv /\ MainInv
  BY DEF LocksInv, WorkersInv, WorkerInv, MainInv
<1>3. Queued = {}
  BY DEF Queued
<1> QED BY <1>1, <1>2, <1>3
    DEF SafetyInv, QueueInv, OneOwner, FreesInv, FreedExactlyOnce

(***************************************************************************)
(* The inductive invariant holds in every state of the program, spurious   *)
(* wakeups or not.                                                         *)
(***************************************************************************)
THEOREM SafetyInvariant == Spec => []SafetyInv
<1>1. SafetyInv /\ [Next]_vars => SafetyInv'
  BY TypeStep, LocksStep, WorkersStep, MainStepInv, QueueStep, OwnerStep, FreesStep
  DEF SafetyInv
<1> QED BY SafetyInit, <1>1, PTL DEF Spec

(***************************************************************************)
(* The variables keep their types; in particular no task is ever NULL      *)
(* where its node is used, and no neighbour index leaves its list.         *)
(***************************************************************************)
THEOREM TypeCorrect == Spec => []TypeOK
<1>1. SafetyInv => TypeOK BY DEF SafetyInv
<1> QED BY SafetyInvariant, <1>1, PTL

(* A node is never in two places: no two workers ever run the same task.   *)
THEOREM SingleOwner == Spec => []OneOwner
<1>1. SafetyInv => OneOwner BY DEF SafetyInv
<1> QED BY SafetyInvariant, <1>1, PTL

(***************************************************************************)
(* No node is freed while it is in use or twice, and none is left when     *)
(* main returns, whether it was run, left in the queue or never claimed.   *)
(***************************************************************************)
THEOREM FreedOnce == Spec => []FreedExactlyOnce
<1>1. SafetyInv => FreedExactlyOnce BY DEF SafetyInv
<1> QED BY SafetyInvariant, <1>1, PTL

(* What a step does to the status of a node.                               *)
Advances ==
    \A n \in Nodes : visited'[n] # visited[n] =>
        <<visited[n], visited'[n]>> \in
            {<<"NOT_VISITED", "PROCESSING">>, <<"PROCESSING", "DONE">>}

LEMMA AdvancesStep == SafetyInv /\ [Next]_vars => Advances
<1> SUFFICES ASSUME SafetyInv, [Next]_vars PROVE Advances
  OBVIOUS
<1> USE DEF Mark, graphVars, Advances
<1>1. TypeOK /\ WorkersInv /\ MainInv
  BY DEF SafetyInv
<1>2. visited \in [Nodes -> Statuses]
  BY <1>1 DEF TypeOK
<1>3. ASSUME NEW t \in Threads, SetDone(t) PROVE Advances
  BY <1>1, <1>2, <1>3 DEF SetDone, Goto, WorkersInv, WorkerInv
<1>4. ASSUME NEW t \in Threads, ClaimNeighbour(t) PROVE Advances
  BY <1>1, <1>2, <1>4 DEF ClaimNeighbour, Goto, WorkersInv, WorkerInv
<1>5. CASE MarkRoot
  BY <1>1, <1>2, <1>5 DEF MarkRoot, MainGoto, MainInv
<1>6. CASE UNCHANGED visited
  BY <1>6
<1>7. ASSUME NEW t \in Threads, MovesNode(t), ~SetDone(t), ~ClaimNeighbour(t)
      PROVE  UNCHANGED visited
  BY <1>7 DEF MovesNode, EnqueueNeighbour, DestroyNode
<1>8. ASSUME MainMovesNode, ~MarkRoot PROVE UNCHANGED visited
  BY <1>8 DEF MainMovesNode, EnqueueRoot, DrainNode, PrintSum
<1> HIDE DEF Advances
<1> QED BY QuietSteps, <1>1, <1>3, <1>4, <1>5, <1>6, <1>7, <1>8 DEF Quiet

(***************************************************************************)
(* A node's status only advances: the claim of a worker is never based on  *)
(* a test that another worker has made stale.                              *)
(***************************************************************************)
THEOREM StatusAdvances == Spec => StatusOnlyAdvances
  BY SafetyInvariant, AdvancesStep, PTL DEF Spec, StatusOnlyAdvances, Advances

-----------------------------------------------------------------------------
(* The component is closed under the edges, and least such.                *)
LEMMA ReachableClosed ==
    /\ Root \in Reachable
    /\ \A n \in Reachable : Adjacent(n) \subseteq Reachable
    /\ \A S \in SUBSET Nodes : Closed(S) => Reachable \subseteq S
<1>1. \A n \in Nodes : Adjacent(n) \subseteq Nodes
  BY GraphAssumption DEF Adjacent
<1> QED BY <1>1, GraphAssumption DEF Reachable, Closed

-----------------------------------------------------------------------------
(* A worker is always left for what is in the queue: one that quits finds  *)
(* it empty, and one that appends to it has not quit.                      *)
LEMMA PollersStep ==
    ASSUME SpuriousWakeups = FALSE, SafetyInv, PollersInv, [Next]_vars
    PROVE  PollersInv'
<1> USE PoolAssumption DEF Goto, MainGoto, PollersInv, graphVars
<1>0. /\ pc \in [Threads -> WorkerPcs] /\ MainInv /\ taskAvailable \in BOOLEAN
  BY DEF SafetyInv, TypeOK
<1>1. ASSUME NEW t \in Threads, PoolStep(t) PROVE PollersInv'
  BY <1>0, <1>1 DEF PoolStep, CheckAvailable, CondWait, Reacquire, Unlock,
                    DequeueNull, TakeFirst, Unlink
<1>2. ASSUME NEW t \in Threads, ActionStep(t) PROVE PollersInv'
  <2>1. CASE CheckDone(t) \/ EndScan(t) \/ SkipNeighbour(t) \/ DestroyNode(t)
    BY <1>0, <2>1 DEF CheckDone, EndScan, SkipNeighbour, poolVars, DestroyNode, DestroyTask
  <2>2. CASE LoadSum(t) \/ StoreSum(t) \/ SetDone(t)
    BY <1>0, <2>2 DEF LoadSum, StoreSum, SetDone
  <2>3. CASE SeeNeighbour(t) \/ ClaimNeighbour(t) \/ EnqueueNeighbour(t)
    BY <1>0, <2>3 DEF SeeNeighbour, ClaimNeighbour, EnqueueNeighbour
  <2> QED BY <1>2, <2>1, <2>2, <2>3 DEF ActionStep
<1>3. ASSUME MainStep PROVE PollersInv'
  <2>1. CASE PoolMainStep
    BY <1>0, <2>1 DEF PoolMainStep, CreateThread, ThreadpoolCreated, WaitForCompletion
  <2>2. CASE MarkRoot \/ EnqueueRoot
    BY <1>0, <2>2 DEF MarkRoot, EnqueueRoot
  <2>3. CASE SetAvailable \/ Broadcast
    BY <1>0, <2>3 DEF SetAvailable, Broadcast
  <2>4. CASE DrainNode \/ PrintSum
    BY <1>0, <2>4 DEF DrainNode, DestroyQueued, PrintSum, MainInv
  <2> QED BY <1>3, <2>1, <2>2, <2>3, <2>4 DEF MainStep
<1>4. ASSUME NEW t \in Threads, Wakeup(t) PROVE PollersInv'
  BY <1>4 DEF Wakeup, SpuriousWakeup
<1>5. CASE UNCHANGED vars
  BY <1>5 DEF vars, poolVars
<1> QED BY <1>1, <1>2, <1>3, <1>4, <1>5 DEF Next, WorkerStep

-----------------------------------------------------------------------------
(* A worker that has a task is moved by nobody else.                       *)
Stays(u) == pc'[u] = pc[u] /\ task'[u] = task[u] /\ index'[u] = index[u]

LEMMA OnlyOwnSteps ==
    ASSUME TypeOK, [Next]_vars, NEW u \in Threads, pc[u] \in TaskPcs
    PROVE  Stays(u) \/ Unlink(u) \/ ActionStep(u)
<1> USE DEF Goto, MainGoto, Advance, graphVars, Stays, TaskPcs, ActionPcs
<1>0. /\ pc \in [Threads -> WorkerPcs] /\ index \in [Threads -> Nat \ {0}]
      /\ task \in [Threads -> Nodes \cup {None}]
  BY DEF TypeOK
<1>1. ASSUME NEW t \in Threads, PoolStep(t) PROVE Stays(u) \/ Unlink(u)
  BY <1>0, <1>1 DEF PoolStep, CheckAvailable, CondWait, Reacquire, Unlock,
                    DequeueNull, TakeFirst, Unlink
<1>2. ASSUME NEW t \in Threads, t # u, ActionStep(t) PROVE Stays(u)
  <2>1. CASE CheckDone(t) \/ EndScan(t) \/ SkipNeighbour(t) \/ DestroyNode(t)
    BY <1>0, <1>2, <2>1
    DEF CheckDone, EndScan, SkipNeighbour, poolVars, DestroyNode, DestroyTask
  <2>2. CASE LoadSum(t) \/ StoreSum(t) \/ SetDone(t)
    BY <1>0, <1>2, <2>2 DEF LoadSum, StoreSum, SetDone
  <2>3. CASE SeeNeighbour(t) \/ ClaimNeighbour(t) \/ EnqueueNeighbour(t)
    BY <1>0, <1>2, <2>3 DEF SeeNeighbour, ClaimNeighbour, EnqueueNeighbour
  <2> QED BY <1>2, <2>1, <2>2, <2>3 DEF ActionStep
<1>3. ASSUME MainStep PROVE Stays(u)
  BY <1>0, <1>3 DEF MainStep, PoolMainStep, CreateThread, ThreadpoolCreated,
                    WaitForCompletion, MarkRoot, EnqueueRoot, SetAvailable, Broadcast,
                    DrainNode, DestroyQueued, PrintSum
<1>4. ASSUME NEW t \in Threads, Wakeup(t) PROVE Stays(u)
  BY <1>0, <1>4 DEF Wakeup, SpuriousWakeup
<1>5. CASE UNCHANGED vars
  BY <1>5 DEF vars, poolVars
<1> QED BY <1>1, <1>2, <1>3, <1>4, <1>5 DEF Next, WorkerStep

LEMMA MainPcStep ==
    ASSUME [Next]_vars, mainPc \in {"create", "submit"}
    PROVE  mainPc' \in {"create", "submit"} \/ MarkRoot
<1> USE DEF MainGoto
<1>1. ASSUME NEW t \in Threads, PoolStep(t) PROVE UNCHANGED mainPc
  BY <1>1 DEF PoolStep, CheckAvailable, CondWait, Reacquire, Unlock,
              DequeueNull, TakeFirst, Unlink
<1>2. ASSUME NEW t \in Threads, ActionStep(t) PROVE UNCHANGED mainPc
  BY <1>2 DEF ActionStep, CheckDone, EndScan, SkipNeighbour, DestroyNode, DestroyTask,
              LoadSum, StoreSum, SetDone, SeeNeighbour, ClaimNeighbour, EnqueueNeighbour,
              poolVars
<1>3. ASSUME MainStep, ~MarkRoot PROVE mainPc' \in {"create", "submit"}
  BY <1>3 DEF MainStep, PoolMainStep, CreateThread, ThreadpoolCreated,
              WaitForCompletion, EnqueueRoot, SetAvailable, Broadcast,
              DrainNode, DestroyQueued, PrintSum
<1>4. ASSUME NEW t \in Threads, Wakeup(t) PROVE UNCHANGED mainPc
  BY <1>4 DEF Wakeup, SpuriousWakeup
<1>5. CASE UNCHANGED vars
  BY <1>5 DEF vars, poolVars
<1> QED BY <1>1, <1>2, <1>3, <1>4, <1>5 DEF Next, WorkerStep

(* A node becomes DONE in one way.                                         *)
LEMMA DoneStep ==
    ASSUME TypeOK, [Next]_vars, NEW n \in Nodes, visited[n] # "DONE", visited'[n] = "DONE"
    PROVE  \E t \in Threads : SetDone(t) /\ task[t] = n
<1> USE DEF Mark, graphVars
<1>0. visited \in [Nodes -> Statuses]
  BY DEF TypeOK
<1>1. ASSUME NEW t \in Threads, MovesNode(t), ~SetDone(t) PROVE FALSE
  BY <1>0, <1>1 DEF MovesNode, ClaimNeighbour, EnqueueNeighbour, DestroyNode
<1>2. ~MainMovesNode
  BY <1>0 DEF MainMovesNode, MarkRoot, EnqueueRoot, DrainNode, PrintSum
<1>3. ~Quiet
  BY DEF Quiet
<1>4. PICK t \in Threads : SetDone(t)
  BY QuietSteps, <1>1, <1>2, <1>3
<1> QED BY <1>0, <1>4 DEF SetDone

-----------------------------------------------------------------------------
(* A node that has been claimed is not freed before it is DONE, and no     *)
(* neighbour of a DONE node is forgotten.                                  *)
LEMMA CoverageStep ==
    ASSUME SafetyInv, PollersInv, CoverageInv, [Next]_vars, SafetyInv'
    PROVE  CoverageInv'
<1> USE PoolAssumption, TasksAreNodes, GraphAssumption
<1>0. /\ TypeOK /\ WorkersInv /\ MainInv /\ FreesInv /\ Advances
      /\ visited \in [Nodes -> Statuses] /\ frees \in [Nodes -> Nat]
      /\ task \in [Threads -> Nodes \cup {None}]
      /\ pc \in [Threads -> WorkerPcs] /\ index \in [Threads -> Nat \ {0}]
  BY AdvancesStep DEF SafetyInv, TypeOK
<1>1. \A n \in Nodes : /\ visited[n] # "NOT_VISITED" => visited'[n] # "NOT_VISITED"
                       /\ visited[n] = "DONE" => visited'[n] = "DONE"
  BY <1>0 DEF Advances
<1>2. mainPc' \notin {"create", "submit"} => visited'[Root] # "NOT_VISITED"
  <2>1. CASE MarkRoot
    BY <1>0, <2>1 DEF MarkRoot, Mark
  <2>2. CASE ~MarkRoot
    <3>1. mainPc \in {"create", "submit"} => mainPc' \in {"create", "submit"}
      BY <2>2, MainPcStep
    <3> QED BY <1>1, <3>1 DEF CoverageInv
  <2> QED BY <2>1, <2>2
<1>3. ASSUME NEW n \in Nodes, visited'[n] = "PROCESSING" PROVE frees'[n] = 0
  <2> USE DEF Goto, MainGoto, Mark, Free, graphVars
  <2>0. visited[n] = "PROCESSING" => frees[n] = 0
    BY DEF CoverageInv
  <2>1. CASE Quiet
    BY <1>3, <2>0, <2>1 DEF Quiet
  <2>2. ASSUME NEW t \in Threads, TakeFirst(t) \/ Unlink(t), UNCHANGED graphVars
        PROVE  frees'[n] = 0
    BY <1>3, <2>0, <2>2
  <2>3. ASSUME NEW t \in Threads, SetDone(t) PROVE frees'[n] = 0
    BY <1>0, <1>3, <2>0, <2>3 DEF SetDone
  <2>4. ASSUME NEW t \in Threads, ClaimNeighbour(t) PROVE frees'[n] = 0
    <3>1. mainPc # "exit"
      BY <1>0, <2>4 DEF ClaimNeighbour, MainInv
    <3>2. CASE visited[n] = "PROCESSING" BY <2>0, <2>4, <3>2 DEF ClaimNeighbour
    <3>3. CASE visited[n] = "NOT_VISITED"
      BY <1>0, <2>4, <3>1, <3>3 DEF ClaimNeighbour, FreesInv
    <3> QED BY <1>0, <1>3, <3>2, <3>3 DEF Advances
  <2>5. ASSUME NEW t \in Threads, EnqueueNeighbour(t) PROVE frees'[n] = 0
    BY <1>3, <2>0, <2>5 DEF EnqueueNeighbour
  <2>6. ASSUME NEW t \in Threads, DestroyNode(t) PROVE frees'[n] = 0
    <3>1. visited[n] = "PROCESSING" BY <1>3, <2>6 DEF DestroyNode
    <3>2. task[t] # n BY <1>0, <2>6, <3>1 DEF DestroyNode, DestroyTask, WorkersInv, WorkerInv
    <3> QED BY <1>0, <2>0, <2>6, <3>1, <3>2 DEF DestroyNode
  <2>7. CASE MarkRoot
    BY <1>0, <2>7 DEF MarkRoot, MainInv
  <2>8. CASE EnqueueRoot
    BY <1>3, <2>0, <2>8 DEF EnqueueRoot
  <2>9. ~DrainNode
    BY <1>0 DEF DrainNode, DestroyQueued, PollersInv, MainInv
  <2>10. CASE PrintSum
    BY <1>3, <2>0, <2>10 DEF PrintSum
  <2> QED BY QuietSteps, <1>0, <2>1, <2>2, <2>3, <2>4, <2>5, <2>6, <2>7, <2>8, <2>9, <2>10
          DEF MovesNode, MainMovesNode
<1>4. ASSUME NEW n \in Nodes, visited'[n] = "DONE", NEW k \in 1 .. Len(Neighbours[n])
      PROVE  \/ visited'[Neighbours[n][k]] # "NOT_VISITED"
             \/ \E t \in Threads : ScansFrom(t, n, k)'
  <2> DEFINE m == Neighbours[n][k]
  <2>0. m \in Nodes /\ Neighbours[n] \in Seq(Nodes) /\ k \in Nat /\ k >= 1
    OBVIOUS
  <2>1. ASSUME visited[n] # "DONE" PROVE \E t \in Threads : ScansFrom(t, n, k)'
    <3>1. PICK t \in Threads : SetDone(t) /\ task[t] = n
      BY <1>0, <1>4, <2>1, DoneStep
    <3>2. /\ pc'[t] = "scan" /\ index'[t] = 1 /\ task'[t] = n
      BY <1>0, <3>1 DEF SetDone, Goto
    <3> QED BY <2>0, <3>2 DEF ScansFrom
  <2>2. ASSUME NEW u \in Threads, ScansFrom(u, n, k)
        PROVE  visited'[m] # "NOT_VISITED" \/ ScansFrom(u, n, k)'
    <3> USE <2>2 DEF ScansFrom, Goto, Advance
    <3>1. CASE Stays(u) BY <3>1 DEF Stays
    <3>2. CASE SkipNeighbour(u)
      <4>1. pc'[u] = pc[u] /\ task'[u] = task[u] /\ index'[u] = index[u] + 1
        BY <1>0, <3>2 DEF SkipNeighbour, poolVars
      <4>2. CASE index[u] = k BY <1>1, <2>0, <3>2, <4>2 DEF SkipNeighbour, Neighbour
      <4>3. CASE index[u] # k BY <1>0, <2>0, <4>1, <4>3
      <4> QED BY <4>2, <4>3
    <3>3. CASE SeeNeighbour(u) \/ ClaimNeighbour(u)
      BY <1>0, <3>3 DEF SeeNeighbour, ClaimNeighbour
    <3>4. CASE EnqueueNeighbour(u)
      <4>1. pc'[u] = "scan" /\ task'[u] = task[u] /\ index'[u] = index[u] + 1
        BY <1>0, <3>4 DEF EnqueueNeighbour
      <4>2. CASE index[u] = k
        BY <1>0, <1>1, <2>0, <3>4, <4>2
        DEF EnqueueNeighbour, Neighbour, WorkersInv, WorkerInv
      <4>3. CASE index[u] # k BY <1>0, <2>0, <4>1, <4>3
      <4> QED BY <4>2, <4>3
    <3>5. ~EndScan(u)
      BY <1>0, <2>0 DEF EndScan, HasNext
    <3>6. ~Unlink(u) /\ ~CheckDone(u) /\ ~LoadSum(u) /\ ~StoreSum(u) /\ ~SetDone(u)
          /\ ~DestroyNode(u)
      BY DEF Unlink, CheckDone, LoadSum, StoreSum, SetDone, DestroyNode, DestroyTask
    <3>7. pc[u] \in TaskPcs BY DEF TaskPcs, ActionPcs
    <3> QED BY OnlyOwnSteps, <1>0, <3>1, <3>2, <3>3, <3>4, <3>5, <3>6, <3>7 DEF ActionStep
  <2>3. CASE visited[n] = "DONE"
    <3>1. visited[m] # "NOT_VISITED" \/ \E t \in Threads : ScansFrom(t, n, k)
      BY <2>3 DEF CoverageInv, Done
    <3> QED BY <1>1, <2>0, <2>2, <3>1
  <2> QED BY <2>1, <2>3
<1> QED BY <1>2, <1>3, <1>4 DEF CoverageInv, Done

-----------------------------------------------------------------------------
(* Claims spread along the edges, from nodes that are DONE.                *)
LEMMA ClaimsStep ==
    ASSUME SafetyInv, ClaimsInv, [Next]_vars
    PROVE  ClaimsInv'
<1> USE DEF Mark, Goto, graphVars
<1>0. /\ TypeOK /\ WorkersInv /\ Advances /\ visited \in [Nodes -> Statuses]
  BY AdvancesStep DEF SafetyInv, TypeOK
<1>1. Done \subseteq Done'
  BY <1>0 DEF Advances, Done
<1>2. ASSUME NEW n \in Nodes, visited'[n] # "NOT_VISITED"
      PROVE  /\ n \in Reachable
             /\ n = Root \/ \E m \in Done' : n \in Adjacent(m)
  <2>1. CASE visited[n] # "NOT_VISITED"
    BY <1>1, <2>1 DEF ClaimsInv
  <2>2. CASE visited[n] = "NOT_VISITED"
    <3>1. ASSUME NEW t \in Threads, ClaimNeighbour(t), Neighbour(t) = n
          PROVE  n \in Reachable /\ \E m \in Done : n \in Adjacent(m)
      <4>1. task[t] \in Nodes /\ n \in Adjacent(task[t]) /\ visited[task[t]] = "DONE"
        BY <1>0, <3>1, NeighbourType
        DEF ClaimNeighbour, WorkersInv, WorkerInv, TaskPcs, ActionPcs
      <4> QED BY <4>1, ReachableClosed DEF ClaimsInv, Done
    <3>2. CASE MarkRoot
      BY <1>0, <1>2, <2>2, <3>2, ReachableClosed DEF MarkRoot
    <3>3. ASSUME NEW t \in Threads, ClaimNeighbour(t), Neighbour(t) # n PROVE FALSE
      BY <1>0, <1>2, <2>2, <3>3 DEF ClaimNeighbour
    <3>4. ASSUME NEW t \in Threads, MovesNode(t), ~ClaimNeighbour(t) PROVE FALSE
      BY <1>0, <1>2, <2>2, <3>4
      DEF MovesNode, SetDone, EnqueueNeighbour, DestroyNode, WorkersInv, WorkerInv
    <3>5. ASSUME MainMovesNode, ~MarkRoot PROVE FALSE
      BY <1>2, <2>2, <3>5 DEF MainMovesNode, EnqueueRoot, DrainNode, PrintSum
    <3>6. ~Quiet
      BY <1>2, <2>2 DEF Quiet
    <3> QED BY QuietSteps, <1>0, <1>1, <3>1, <3>2, <3>3, <3>4, <3>5, <3>6
  <2> QED BY <2>1, <2>2
<1> QED BY <1>2 DEF ClaimsInv

-----------------------------------------------------------------------------
LEMMA CompletenessInit == Init => CompletenessInv
<1> SUFFICES ASSUME Init PROVE CompletenessInv
  OBVIOUS
<1>1. \A n \in Nodes : visited[n] = "NOT_VISITED"
  BY DEF Init
<1>2. CoverageInv /\ ClaimsInv
  BY <1>1 DEF CoverageInv, ClaimsInv, Done, Init, PoolInit
<1>3. PollersInv
  BY DEF PollersInv, Init, PoolInit
<1> QED BY SafetyInit, <1>2, <1>3 DEF CompletenessInv

LEMMA CompletenessStep ==
    ASSUME SpuriousWakeups = FALSE
    PROVE  CompletenessInv /\ [Next]_vars => CompletenessInv'
<1>1. SafetyInv /\ [Next]_vars => SafetyInv'
  BY TypeStep, LocksStep, WorkersStep, MainStepInv, QueueStep, OwnerStep, FreesStep
  DEF SafetyInv
<1> QED BY <1>1, PollersStep, CoverageStep, ClaimsStep DEF CompletenessInv

THEOREM CompletenessInvariant ==
    ASSUME SpuriousWakeups = FALSE
    PROVE  Spec => []CompletenessInv
  BY CompletenessInit, CompletenessStep, PTL DEF Spec

(* With all workers gone, every claimed node is DONE.                      *)
LEMMA JoinedComplete == CompletenessInv => CompleteAfterJoin
<1> SUFFICES ASSUME CompletenessInv, mainPc \in {"drain", "exit"}
             PROVE  queue = <<>> /\ Done = Reachable
  BY DEF CompleteAfterJoin
<1>0. /\ TypeOK /\ WorkersInv /\ MainInv /\ FreesInv /\ FreedExactlyOnce
      /\ PollersInv /\ CoverageInv /\ ClaimsInv
      /\ visited \in [Nodes -> Statuses]
  BY DEF CompletenessInv, SafetyInv, TypeOK
<1>1. \A t \in Threads : pc[t] = "exited" /\ task[t] = None
  BY <1>0 DEF MainInv, WorkersInv, WorkerInv, TaskPcs, ActionPcs
<1>2. queue = <<>>
  BY <1>0, <1>1 DEF PollersInv
<1>3. ASSUME NEW n \in Nodes, visited[n] = "PROCESSING" PROVE FALSE
  <2>1. frees[n] = 0
    BY <1>0, <1>3 DEF CoverageInv
  <2>2. ~Owned(n)
    BY <1>1, <1>2, PoolAssumption, TasksAreNodes DEF Owned, Queued
  <2> QED BY <1>0, <1>3, <2>1, <2>2 DEF FreesInv
<1>4. \A n \in Nodes : visited[n] # "NOT_VISITED" => n \in Done
  BY <1>0, <1>3 DEF Done, Statuses
<1>5. Root \in Done
  BY <1>0, <1>4, GraphAssumption DEF CoverageInv
<1>6. ASSUME NEW n \in Done PROVE Adjacent(n) \subseteq Done
  <2>1. ASSUME NEW k \in 1 .. Len(Neighbours[n]) PROVE Neighbours[n][k] \in Done
    <3>1. visited[Neighbours[n][k]] # "NOT_VISITED"
      BY <1>0, <1>1 DEF CoverageInv, ScansFrom
    <3>2. Neighbours[n][k] \in Nodes
      BY GraphAssumption DEF Done
    <3> QED BY <1>4, <3>1, <3>2
  <2> QED BY <2>1 DEF Adjacent
<1>7. Reachable \subseteq Done
  BY <1>5, <1>6, ReachableClosed DEF Closed, Done
<1>8. Done \subseteq Reachable
  BY <1>0 DEF ClaimsInv, Done
<1> QED BY <1>2, <1>7, <1>8

(***************************************************************************)
(* When the workers are joined, the root's component is done, no other     *)
(* node is, and no task is left, although workers quit as soon as they see *)
(* an empty queue.                                                         *)
(***************************************************************************)
THEOREM CompleteOnJoin ==
    ASSUME SpuriousWakeups = FALSE
    PROVE  Spec => []CompleteAfterJoin
  BY CompletenessInvariant, JoinedComplete, PTL

-----------------------------------------------------------------------------
(* The steps the traversal does not see: all but the store of the sum and  *)
(* the end of main.                                                        *)
Unseen ==
    /\ sum' = sum
    /\ (mainPc' = "exit") <=> (mainPc = "exit")
    /\ Done' = Done
    /\ \A t \in Threads : /\ (pc'[t] = "done") <=> (pc[t] = "done")
                          /\ pc[t] = "done" => task'[t] = task[t]

LEMMA UnseenSteps ==
    ASSUME SafetyInv, [Next]_vars
    PROVE  Unseen \/ PrintSum \/ \E t \in Threads : StoreSum(t) \/ SetDone(t)
<1> USE DEF Goto, MainGoto, Mark, graphVars, Unseen, Done
<1>0. /\ TypeOK /\ WorkersInv /\ MainInv /\ visited \in [Nodes -> Statuses]
      /\ pc \in [Threads -> WorkerPcs] /\ task \in [Threads -> Nodes \cup {None}]
  BY DEF SafetyInv, TypeOK
<1>1. ASSUME NEW t \in Threads, PoolStep(t) PROVE Unseen
  BY <1>0, <1>1 DEF PoolStep, CheckAvailable, CondWait, Reacquire, Unlock,
                    DequeueNull, TakeFirst, Unlink
<1>2. ASSUME NEW t \in Threads, ActionStep(t) PROVE Unseen \/ StoreSum(t) \/ SetDone(t)
  <2>1. CASE CheckDone(t) \/ EndScan(t) \/ SkipNeighbour(t) \/ DestroyNode(t)
    BY <1>0, <2>1
    DEF CheckDone, EndScan, SkipNeighbour, poolVars, DestroyNode, DestroyTask
  <2>2. CASE LoadSum(t) \/ SeeNeighbour(t) \/ EnqueueNeighbour(t)
    BY <1>0, <2>2 DEF LoadSum, SeeNeighbour, EnqueueNeighbour
  <2>3. CASE ClaimNeighbour(t)
    BY <1>0, <2>3 DEF ClaimNeighbour, WorkersInv, WorkerInv
  <2> QED BY <1>2, <2>1, <2>2, <2>3 DEF ActionStep
<1>3. ASSUME MainStep, ~PrintSum PROVE Unseen
  <2>1. CASE MarkRoot
    BY <1>0, <2>1, GraphAssumption DEF MarkRoot, MainInv
  <2>2. CASE PoolMainStep \/ EnqueueRoot \/ SetAvailable \/ Broadcast \/ DrainNode
    BY <1>0, <2>2 DEF PoolMainStep, CreateThread, ThreadpoolCreated, WaitForCompletion,
                      EnqueueRoot, SetAvailable, Broadcast, DrainNode, DestroyQueued
  <2> QED BY <1>3, <2>1, <2>2 DEF MainStep
<1>4. ASSUME NEW t \in Threads, Wakeup(t) PROVE Unseen
  BY <1>0, <1>4 DEF Wakeup, SpuriousWakeup
<1>5. CASE UNCHANGED vars
  BY <1>5 DEF vars, poolVars
<1> QED BY <1>1, <1>2, <1>3, <1>4, <1>5 DEF Next, WorkerStep

LEMMA TraversalInit == Init => Traversal!Init
  BY DEF Init, PoolInit, Traversal!Init, Summed, Done

LEMMA TraversalStep ==
    CompletenessInv /\ [Next]_vars => [Traversal!Next]_Traversal!vars
<1> SUFFICES ASSUME CompletenessInv, [Next]_vars
             PROVE  Traversal!Next \/ UNCHANGED Traversal!vars
  OBVIOUS
<1> USE DEF Summed, graphVars
<1>0. /\ SafetyInv /\ TypeOK /\ WorkersInv /\ MainInv /\ OneOwner /\ ClaimsInv
      /\ visited \in [Nodes -> Statuses]
      /\ pc \in [Threads -> WorkerPcs] /\ task \in [Threads -> Nodes \cup {None}]
  BY DEF CompletenessInv, SafetyInv, TypeOK
<1>1. CASE Unseen
  BY <1>1 DEF Unseen, Traversal!vars
<1>2. ASSUME NEW t \in Threads, SetDone(t) PROVE UNCHANGED Traversal!vars
  <2>1. /\ pc[t] = "done" /\ pc' = [pc EXCEPT ![t] = "scan"]
        /\ visited' = [visited EXCEPT ![task[t]] = "DONE"]
        /\ UNCHANGED <<sum, task, mainPc>>
    BY <1>2 DEF SetDone, Goto, Mark
  <2>2. task[t] \in Nodes
    BY <1>0, <2>1 DEF WorkersInv, WorkerInv, TaskPcs, ActionPcs
  <2>3. Done' = Done \cup {task[t]}
    BY <1>0, <2>1, <2>2 DEF Done
  <2>4. \A u \in Threads : u # t => pc'[u] = pc[u]
    BY <1>0, <2>1
  <2>5. Summed' = Summed
    BY <1>0, <2>1, <2>3, <2>4
  <2> QED BY <2>1, <2>5 DEF Traversal!vars
<1>3. ASSUME NEW t \in Threads, StoreSum(t) PROVE Traversal!Visit(task[t]) /\ task[t] \in Nodes
  <2>1. /\ pc[t] = "store" /\ pc' = [pc EXCEPT ![t] = "done"]
        /\ sum' = loaded[t] + Info[task[t]] /\ loaded[t] = sum
        /\ UNCHANGED <<visited, task, mainPc>>
    BY <1>0, <1>3 DEF StoreSum, Goto, WorkersInv, WorkerInv
  <2>2. task[t] \in Nodes /\ visited[task[t]] = "PROCESSING"
    BY <1>0, <2>1 DEF WorkersInv, WorkerInv, TaskPcs, ActionPcs
  <2>3. mainPc # "exit"
    BY <1>0, <2>1 DEF MainInv
  <2>4. task[t] \notin Summed
    <3>1. \A u \in Threads : pc[u] = "done" => task[u] # task[t]
      BY <1>0, <2>1, <2>2, PoolAssumption, TasksAreNodes DEF OneOwner
    <3> QED BY <2>2, <3>1 DEF Done
  <2>5. \A u \in Threads : u # t => pc'[u] = pc[u]
    BY <1>0, <2>1
  <2>6. Done' = Done
    BY <2>1 DEF Done
  <2>7. Summed' = Summed \cup {task[t]}
    BY <1>0, <2>1, <2>5, <2>6
  <2>8. task[t] = Root \/ \E m \in Summed : task[t] \in Adjacent(m)
    BY <1>0, <2>2 DEF ClaimsInv
  <2> QED BY <2>1, <2>2, <2>3, <2>4, <2>7, <2>8 DEF Traversal!Visit, Traversal!Adjacent, Adjacent
<1>4. CASE PrintSum
  <2>1. /\ mainPc = "drain" /\ mainPc' = "exit"
        /\ UNCHANGED <<visited, sum, pc, task>>
    BY <1>4 DEF PrintSum, MainGoto
  <2>2. Done = Reachable
    BY <2>1, JoinedComplete DEF CompleteAfterJoin
  <2>3. Summed = Done /\ Summed' = Summed
    BY <1>0, <2>1 DEF MainInv, Done
  <2>4. Closed(Summed)
    BY <2>2, <2>3, ReachableClosed DEF Closed
  <2> QED BY <2>1, <2>3, <2>4
      DEF Traversal!Finish, Traversal!Next, Traversal!Closed, Traversal!Adjacent, Closed, Adjacent
<1>5. ASSUME NEW t \in Threads, StoreSum(t) PROVE Traversal!Next
  BY <1>3, <1>5 DEF Traversal!Next, Traversal!Visit
<1> HIDE DEF Summed, graphVars
<1> QED BY UnseenSteps, <1>0, <1>1, <1>2, <1>4, <1>5

(***************************************************************************)
(* The parallel program implements the traversal: it adds each node of the *)
(* root's component to the sum exactly once, an edge at a time, and prints *)
(* the sum when nothing is left to add.                                    *)
(***************************************************************************)
THEOREM ImplementsTraversal ==
    ASSUME SpuriousWakeups = FALSE
    PROVE  Spec => TraversalSpec
  BY CompletenessInvariant, TraversalInit, TraversalStep, PTL
  DEF Spec, TraversalSpec, Traversal!Spec

-----------------------------------------------------------------------------
(* What the traversal means                                                *)

LEMMA TraversalReachable == Traversal!Reachable = Reachable
  BY DEF Traversal!Reachable, Traversal!Closed, Traversal!Adjacent, Reachable, Closed, Adjacent

LEMMA TraversalClosed == \A S : Traversal!Closed(S) <=> Closed(S)
  BY DEF Traversal!Closed, Traversal!Adjacent, Closed, Adjacent

(***************************************************************************)
(* Every traversal visits nodes of the root's component only, and has      *)
(* visited all of them when it finishes: an implementation that follows    *)
(* GraphTraversal's Spec reports the sum of exactly that component.        *)
(***************************************************************************)
THEOREM TraversalVisitsTheComponent == Traversal!Spec => []Traversal!VisitsTheComponent
<1> DEFINE TraversalInv == Summed \subseteq Nodes /\ Traversal!VisitsTheComponent
<1> USE TraversalReachable, TraversalClosed, ReachableClosed DEF Traversal!VisitsTheComponent
<1>1. Traversal!Init => TraversalInv
  BY DEF Traversal!Init
<1>2. TraversalInv /\ [Traversal!Next]_Traversal!vars => TraversalInv'
  <2> SUFFICES ASSUME TraversalInv, [Traversal!Next]_Traversal!vars PROVE TraversalInv'
    OBVIOUS
  <2>0. Reachable' = Reachable /\ Traversal!Reachable' = Traversal!Reachable
    OBVIOUS
  <2>1. ASSUME NEW n \in Nodes, Traversal!Visit(n) PROVE TraversalInv'
    <3>1. n \in Reachable
      BY <2>1 DEF Traversal!Visit, Traversal!Adjacent, Adjacent
    <3> QED BY <2>0, <2>1, <3>1 DEF Traversal!Visit
  <2>2. CASE Traversal!Finish
    BY <2>0, <2>2 DEF Traversal!Finish
  <2>3. CASE UNCHANGED Traversal!vars
    BY <2>0, <2>3 DEF Traversal!vars
  <2> QED BY <2>1, <2>2, <2>3 DEF Traversal!Next
<1> QED BY <1>1, <1>2, PTL DEF Traversal!Spec

(***************************************************************************)
(* So the parallel program adds to its sum nodes of the root's component   *)
(* only, and all of them before it prints, unless a wakeup is spurious.    *)
(***************************************************************************)
THEOREM SumsTheComponent ==
    ASSUME SpuriousWakeups = FALSE
    PROVE  Spec => []Traversal!VisitsTheComponent
  BY ImplementsTraversal, TraversalVisitsTheComponent, PTL DEF TraversalSpec

LEMMA TraversalInfoSum == \A S : Traversal!InfoSum(S) = Total(Info, S)
  BY DEF Traversal!InfoSum, Traversal!MapThenSumSet, Traversal!MapThenFoldSet,
         Total, MapThenSumSet, MapThenFoldSet

LEMMA InfoSumIs == \A S : InfoSum(S) = Total(Info, S)
  BY DEF InfoSum, Total

(***************************************************************************)
(* Every traversal reports the sum of the component's values: a node is    *)
(* added when it joins the finite set of visited nodes, so the sum is      *)
(* always that of the visited ones, in whatever order they came.           *)
(***************************************************************************)
THEOREM TraversalReportsTheSum == Traversal!Spec => []Traversal!ReportsTheSum
<1> DEFINE SumInv == /\ Summed \subseteq Nodes /\ IsFiniteSet(Summed)
                     /\ sum = Total(Info, Summed)
<1>1. Traversal!Init => SumInv
  BY TotalOfNone, FS_EmptySet DEF Traversal!Init
<1>2. SumInv /\ [Traversal!Next]_Traversal!vars => SumInv'
  <2> SUFFICES ASSUME SumInv, [Traversal!Next]_Traversal!vars PROVE SumInv'
    OBVIOUS
  <2>1. ASSUME NEW n \in Nodes, Traversal!Visit(n) PROVE SumInv'
    <3>1. n \notin Summed /\ Summed' = Summed \cup {n} /\ sum' = sum + Info[n]
      BY <2>1 DEF Traversal!Visit
    <3>2. Info[n] \in Int /\ \A m \in Summed : Info[m] \in Int
      BY GraphAssumption
    <3>3. IsFiniteSet(Summed \cup {n}) /\ Total(Info, Summed \cup {n}) = Total(Info, Summed) + Info[n]
      BY <3>1, <3>2, TotalAdds
    <3> QED  BY <3>1, <3>3
  <2>2. CASE Traversal!Finish \/ UNCHANGED Traversal!vars
    BY <2>2 DEF Traversal!Finish, Traversal!vars
  <2> QED BY <2>1, <2>2 DEF Traversal!Next
<1>3. SumInv /\ Traversal!VisitsTheComponent => Traversal!ReportsTheSum
  BY TraversalInfoSum DEF Traversal!ReportsTheSum, Traversal!VisitsTheComponent
<1> QED BY <1>1, <1>2, <1>3, TraversalVisitsTheComponent, PTL DEF Traversal!Spec

(***************************************************************************)
(* So what main prints is the sum of the component's values, although four *)
(* workers add to it in any order, unless a wakeup is spurious.            *)
(***************************************************************************)
THEOREM PrintsTheSum ==
    ASSUME SpuriousWakeups = FALSE
    PROVE  Spec => []PrintedSum
<1>1. Traversal!ReportsTheSum => PrintedSum
  BY TraversalReachable, TraversalInfoSum, InfoSumIs DEF Traversal!ReportsTheSum, PrintedSum
<1> QED BY <1>1, ImplementsTraversal, TraversalReportsTheSum, PTL DEF TraversalSpec
=============================================================================
