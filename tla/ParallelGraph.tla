---------------------------- MODULE ParallelGraph ----------------------------
(***************************************************************************)
(* The program of src/parallel-graph/src/parallel.c: main submits the root *)
(* to the thread pool, and a task adds its node's value to the sum and     *)
(* submits the neighbours nobody has claimed.  A task is its node: each    *)
(* node is submitted with the same action and the same destroy_arg.        *)
(***************************************************************************)
EXTENDS NodeGraph, OsThreadpool

ASSUME TasksAreNodes == Tasks = Nodes

VARIABLES stateMutex,       \* owner of tp->stateMutex, or None
          sumMutex,         \* owner of tp->sumMutex, or None
          visited,          \* graph->visited
          sum,
          loaded,           \* the value of sum a worker has read for its +=
          index,            \* the worker's i in the neighbours loop, from 1
          frees             \* how often each node has been freed

graphVars == <<stateMutex, sumMutex, visited, sum, loaded, index, frees>>
vars == <<poolVars, graphVars>>

Init ==
    /\ PoolInit
    /\ stateMutex = None /\ sumMutex = None
    /\ visited = [n \in Nodes |-> "NOT_VISITED"]
    /\ sum = 0
    /\ loaded = [t \in Threads |-> 0]
    /\ index = [t \in Threads |-> 1]
    /\ frees = [n \in Nodes |-> 0]

Mark(n, status) == visited' = [visited EXCEPT ![n] = status]

Free(n) == frees' = [frees EXCEPT ![n] = @ + 1]     \* destroy_arg

-----------------------------------------------------------------------------
(* action, run by worker t on its task *)

CheckDone(t) ==
    /\ stateMutex = None
    /\ Goto(t, "action", IF visited[task[t]] = "DONE" THEN "destroy" ELSE "add")
    /\ UNCHANGED <<mutex, queueMutex, taskAvailable, queue, task, mainPc, graphVars>>

(* mutant: sumMutex is not taken *)
LoadSumUnlocked(t) ==
    /\ Goto(t, "add", "store")
    /\ loaded' = [loaded EXCEPT ![t] = sum]
    /\ UNCHANGED <<mutex, queueMutex, taskAvailable, queue, task, mainPc,
                   stateMutex, sumMutex, visited, sum, index, frees>>

LoadSum(t) ==
    /\ Goto(t, "add", "store")
    /\ sumMutex = None
    /\ sumMutex' = t
    /\ loaded' = [loaded EXCEPT ![t] = sum]
    /\ UNCHANGED <<mutex, queueMutex, taskAvailable, queue, task, mainPc,
                   stateMutex, visited, sum, index, frees>>

(* mutant: sumMutex is not released *)
StoreSumStillLocked(t) ==
    /\ Goto(t, "store", "done")
    /\ sum' = loaded[t] + Info[task[t]]
    /\ UNCHANGED <<mutex, queueMutex, taskAvailable, queue, task, mainPc,
                   stateMutex, sumMutex, visited, loaded, index, frees>>

StoreSum(t) ==
    /\ Goto(t, "store", "done")
    /\ sum' = loaded[t] + Info[task[t]]
    /\ sumMutex' = None
    /\ UNCHANGED <<mutex, queueMutex, taskAvailable, queue, task, mainPc,
                   stateMutex, visited, loaded, index, frees>>

SetDone(t) ==
    /\ Goto(t, "done", "scan")
    /\ stateMutex = None
    /\ Mark(task[t], "DONE")
    /\ index' = [index EXCEPT ![t] = 1]
    /\ UNCHANGED <<mutex, queueMutex, taskAvailable, queue, task, mainPc,
                   stateMutex, sumMutex, sum, loaded, frees>>

(* mutant: the last neighbour is left out *)
HasNextButOne(t) == index[t] < Len(Neighbours[task[t]])

HasNext(t) == index[t] <= Len(Neighbours[task[t]])
Neighbour(t) == Neighbours[task[t]][index[t]]
Advance(t) == index' = [index EXCEPT ![t] = @ + 1]

(* A neighbour somebody has claimed: lock, test and unlock in one. *)
SkipNeighbour(t) ==
    /\ pc[t] = "scan" /\ HasNext(t)
    /\ stateMutex = None
    /\ visited[Neighbour(t)] # "NOT_VISITED"
    /\ Advance(t)
    /\ UNCHANGED <<poolVars, stateMutex, sumMutex, visited, sum, loaded, frees>>

(* mutant: the test is made before the lock is taken *)
SeeNeighbourUnlocked(t) ==
    /\ Goto(t, "scan", "claim")
    /\ HasNext(t)
    /\ visited[Neighbour(t)] = "NOT_VISITED"
    /\ UNCHANGED <<mutex, queueMutex, taskAvailable, queue, task, mainPc, graphVars>>

(* A neighbour to claim: the lock is kept until it is in the queue. *)
SeeNeighbour(t) ==
    /\ Goto(t, "scan", "claim")
    /\ HasNext(t)
    /\ stateMutex = None
    /\ visited[Neighbour(t)] = "NOT_VISITED"
    /\ stateMutex' = t
    /\ UNCHANGED <<mutex, queueMutex, taskAvailable, queue, task, mainPc,
                   sumMutex, visited, sum, loaded, index, frees>>

ClaimNeighbour(t) ==
    /\ Goto(t, "claim", "enqueue")
    /\ Mark(Neighbour(t), "PROCESSING")
    /\ UNCHANGED <<mutex, queueMutex, taskAvailable, queue, task, mainPc,
                   stateMutex, sumMutex, sum, loaded, index, frees>>

(* mutant: stateMutex is not released when a task was submitted *)
EnqueueNeighbourStillLocked(t) ==
    /\ Goto(t, "enqueue", "scan")
    /\ AddTail(Neighbour(t))
    /\ Advance(t)
    /\ UNCHANGED <<mutex, queueMutex, taskAvailable, task, mainPc,
                   stateMutex, sumMutex, visited, sum, loaded, frees>>

EnqueueNeighbour(t) ==
    /\ Goto(t, "enqueue", "scan")
    /\ AddTail(Neighbour(t))
    /\ stateMutex' = None
    /\ Advance(t)
    /\ UNCHANGED <<mutex, queueMutex, taskAvailable, task, mainPc,
                   sumMutex, visited, sum, loaded, frees>>

EndScan(t) ==
    /\ Goto(t, "scan", "destroy")
    /\ ~HasNext(t)
    /\ UNCHANGED <<mutex, queueMutex, taskAvailable, queue, task, mainPc, graphVars>>

DestroyNode(t) ==
    /\ DestroyTask(t)
    /\ Free(task[t])
    /\ UNCHANGED <<stateMutex, sumMutex, visited, sum, loaded, index>>

-----------------------------------------------------------------------------
(* main: process_node(0), then the end of the program *)

(* mutant: the root is submitted but not marked *)
SkipMarkingRoot ==
    /\ MainGoto("submit", "enqueue")
    /\ UNCHANGED <<mutex, queueMutex, taskAvailable, queue, pc, task, graphVars>>

MarkRoot ==                   \* without stateMutex
    /\ MainGoto("submit", "enqueue")
    /\ Mark(Root, "PROCESSING")
    /\ UNCHANGED <<mutex, queueMutex, taskAvailable, queue, pc, task,
                   stateMutex, sumMutex, sum, loaded, index, frees>>

EnqueueRoot ==
    /\ MainGoto("enqueue", "announce")
    /\ AddTail(Root)
    /\ UNCHANGED <<mutex, queueMutex, taskAvailable, pc, task, graphVars>>

SetAvailable ==               \* without tp->mutex
    /\ MainGoto("announce", "broadcast")
    /\ taskAvailable' = TRUE
    /\ UNCHANGED <<mutex, queueMutex, queue, pc, task, graphVars>>

Broadcast ==                  \* wakes the workers that are asleep now
    /\ MainGoto("broadcast", "join")
    /\ pc' = [t \in Threads |-> IF pc[t] = "waiting" THEN "woken" ELSE pc[t]]
    /\ UNCHANGED <<mutex, queueMutex, taskAvailable, queue, task, graphVars>>

DrainNode ==
    /\ DestroyQueued
    /\ Free(Head(queue))
    /\ UNCHANGED <<stateMutex, sumMutex, visited, sum, loaded, index>>

PrintSum ==                   \* and free the nodes nobody submitted
    /\ MainGoto("drain", "exit")
    /\ queue = <<>>
    /\ frees' = [n \in Nodes |-> IF visited[n] = "NOT_VISITED"
                                 THEN frees[n] + 1 ELSE frees[n]]
    /\ UNCHANGED <<mutex, queueMutex, taskAvailable, queue, pc, task,
                   stateMutex, sumMutex, visited, sum, loaded, index>>

-----------------------------------------------------------------------------
PoolStep(t) ==
    /\ \/ CheckAvailable(t) \/ CondWait(t) \/ Reacquire(t) \/ Unlock(t)
       \/ DequeueNull(t) \/ TakeFirst(t) \/ Unlink(t)
    /\ UNCHANGED graphVars

ActionStep(t) ==
    \/ CheckDone(t) \/ LoadSum(t) \/ StoreSum(t) \/ SetDone(t)
    \/ SkipNeighbour(t) \/ SeeNeighbour(t) \/ ClaimNeighbour(t)
    \/ EnqueueNeighbour(t) \/ EndScan(t) \/ DestroyNode(t)

WorkerStep(t) == PoolStep(t) \/ ActionStep(t)

PoolMainStep ==
    /\ (\E t \in Threads : CreateThread(t)) \/ ThreadpoolCreated \/ WaitForCompletion
    /\ UNCHANGED graphVars

MainStep ==
    \/ PoolMainStep
    \/ MarkRoot \/ EnqueueRoot \/ SetAvailable \/ Broadcast
    \/ DrainNode \/ PrintSum

Wakeup(t) == SpuriousWakeup(t) /\ UNCHANGED graphVars

Next == MainStep \/ \E t \in Threads : WorkerStep(t) \/ Wakeup(t)

Spec == Init /\ [][Next]_vars

(* The kernel runs every thread that can run; no lock is taken forever,    *)
(* the work being finite, so weak fairness is all that is asked.  Nothing  *)
(* makes a spurious wakeup happen.                                         *)
Fairness == WF_vars(MainStep) /\ \A t \in Threads : WF_vars(WorkerStep(t))

FairSpec == Spec /\ Fairness

-----------------------------------------------------------------------------
Statuses == {"NOT_VISITED", "PROCESSING", "DONE"}

(* Where a worker is when it has no task yet, runs one, holds one. *)
ActionPcs == {"action", "add", "store", "done", "scan", "claim", "enqueue"}
TaskPcs == ActionPcs \cup {"unlink", "destroy"}
BeforeTaskPcs == {"unborn", "start", "wait", "waiting", "woken", "unlock"}
WorkerPcs == BeforeTaskPcs \cup TaskPcs \cup {"poll", "exited"}
MainPcs == {"create", "submit", "enqueue", "announce", "broadcast", "join",
            "drain", "exit"}

TypeOK ==
    /\ {mutex, queueMutex, stateMutex, sumMutex} \subseteq Threads \cup {None}
    /\ taskAvailable \in BOOLEAN
    /\ queue \in Seq(Nodes)
    /\ pc \in [Threads -> WorkerPcs]
    /\ mainPc \in MainPcs
    /\ task \in [Threads -> Nodes \cup {None}]
    /\ visited \in [Nodes -> Statuses]
    /\ sum \in Int /\ loaded \in [Threads -> Int]
    /\ index \in [Threads -> Nat \ {0}]
    /\ frees \in [Nodes -> Nat]

Queued == {queue[i] : i \in 1 .. Len(queue)}

Done == {n \in Nodes : visited[n] = "DONE"}

(***************************************************************************)
(* A submitted node is in one place only: nowhere twice in the queue, with *)
(* no two workers, and not with a worker and still in the queue, unless    *)
(* the worker is just unlinking it.  Without stateMutex around the test    *)
(* and the claim, or queueMutex around the two halves of dequeue_task, two *)
(* workers would run and then free the same node.                          *)
(***************************************************************************)
OneOwner ==
    /\ \A i, j \in 1 .. Len(queue) : queue[i] = queue[j] => i = j
    /\ \A t, u \in Threads : task[t] = task[u] /\ task[t] # None => t = u
    /\ \A t \in Threads : task[t] \in Queued => pc[t] = "unlink"

(***************************************************************************)
(* No node is freed while it is queued or being worked on, none is freed   *)
(* twice, and all are freed when main returns: those the workers finished, *)
(* those destroy_threadpool finds in the queue and those main still sees   *)
(* NOT_VISITED partition the nodes, whatever the workers did.              *)
(***************************************************************************)
FreedExactlyOnce ==
    /\ \A n \in Nodes : frees[n] <= 1
    /\ \A n \in Queued : frees[n] = 0
    /\ \A t \in Threads : task[t] # None => frees[task[t]] = 0
    /\ mainPc = "exit" => \A n \in Nodes : frees[n] = 1

(***************************************************************************)
(* A node only goes from NOT_VISITED to PROCESSING to DONE: a claim that   *)
(* rests on a stale test would throw a node back to PROCESSING.            *)
(***************************************************************************)
StatusOnlyAdvances ==
    [][\A n \in Nodes : visited'[n] # visited[n] =>
          <<visited[n], visited'[n]>> \in
              {<<"NOT_VISITED", "PROCESSING">>, <<"PROCESSING", "DONE">>}]_vars

(***************************************************************************)
(* Once all workers are joined the root's component is DONE and no task is *)
(* left, although a worker quits as soon as it finds the queue empty: the  *)
(* one that still has neighbours to submit polls again after its scan.     *)
(* (Only when pthread_cond_wait never returns unsignalled.)                *)
(***************************************************************************)
CompleteAfterJoin ==
    mainPc \in {"drain", "exit"} => queue = <<>> /\ Done = Reachable

(***************************************************************************)
(* The sum main prints counts every node of the root's component, and no   *)
(* other one, exactly once, whatever the workers' += on it interleave.     *)
(***************************************************************************)
PrintedSum == mainPc = "exit" => sum = InfoSum(Reachable)

(***************************************************************************)
(* If a single worker gets past the wait, the whole component is done in   *)
(* the end: the others are not needed, asleep or gone.                     *)
(***************************************************************************)
OneWorkerSuffices ==
    (\E t \in Threads : pc[t] = "poll") ~> Reachable \subseteq Done

(* Main returns if no worker is in, or about to be in, a wait that the     *)
(* broadcast has missed.                                                   *)
ExitsUnlessAsleep ==
    (mainPc = "join" /\ \A t \in Threads : pc[t] \notin {"wait", "waiting"})
        ~> mainPc = "exit"

(***************************************************************************)
(* Seen from outside, the program is a traversal that visits a node when   *)
(* its value reaches the sum and finishes when main prints it.             *)
(***************************************************************************)
Summed == Done \cup {task[t] : t \in {u \in Threads : pc[u] = "done"}}

Traversal == INSTANCE GraphTraversal WITH visited <- Summed,
                                          finished <- mainPc = "exit"

TraversalSpec == Traversal!Spec

-----------------------------------------------------------------------------
(* Why the safety properties hold: the inductive invariant of the proofs. *)

(* Each lock is held exactly between its steps: mutual exclusion. *)
LocksInv ==
    \A t \in Threads :
        /\ (mutex = t) <=> (pc[t] \in {"wait", "unlock"})
        /\ (queueMutex = t) <=> (pc[t] = "unlink")
        /\ (stateMutex = t) <=> (pc[t] \in {"claim", "enqueue"})
        /\ (sumMutex = t) <=> (pc[t] = "store")

(* What a worker's position says of its task and of the neighbour it is    *)
(* about to submit, which nobody else can see.                             *)
WorkerInv(t) ==
    /\ (task[t] = None) <=> (pc[t] \notin TaskPcs)
    /\ pc[t] = "unlink" => queue # <<>> /\ Head(queue) = task[t]
    /\ pc[t] \in {"unlink", "action", "add", "store", "done"} =>
          visited[task[t]] = "PROCESSING"
    /\ pc[t] \in {"scan", "claim", "enqueue", "destroy"} =>
          visited[task[t]] = "DONE"
    /\ pc[t] \in {"claim", "enqueue"} => HasNext(t)
    /\ pc[t] = "claim" => visited[Neighbour(t)] = "NOT_VISITED"
    /\ pc[t] = "enqueue" => /\ visited[Neighbour(t)] = "PROCESSING"
                            /\ Neighbour(t) \notin Queued
                            /\ \A u \in Threads : task[u] # Neighbour(t)
                            /\ frees[Neighbour(t)] = 0
    /\ pc[t] = "store" => loaded[t] = sum

WorkersInv == \A t \in Threads : WorkerInv(t)

(* No task is made before main submits the root, none runs after the join. *)
MainInv ==
    /\ mainPc \in {"create", "submit", "enqueue"} =>
          /\ queue = <<>>
          /\ \A t \in Threads : pc[t] \notin TaskPcs
          /\ \A n \in Nodes :
                /\ frees[n] = 0
                /\ visited[n] = IF mainPc = "enqueue" /\ n = Root
                                THEN "PROCESSING" ELSE "NOT_VISITED"
    /\ mainPc \in {"drain", "exit"} => \A t \in Threads : pc[t] = "exited"
    /\ mainPc = "exit" => queue = <<>>

QueueInv == \A n \in Queued : visited[n] = "PROCESSING"

(* The places a submitted node that is not freed yet can be in. *)
Owned(n) ==
    \/ mainPc = "enqueue" /\ n = Root
    \/ n \in Queued
    \/ \E t \in Threads : task[t] = n
    \/ \E t \in Threads : pc[t] = "enqueue" /\ Neighbour(t) = n

FreesInv ==
    \A n \in Nodes :
        /\ visited[n] = "NOT_VISITED" /\ mainPc # "exit" => frees[n] = 0
        /\ frees[n] = 0 => \/ visited[n] = "NOT_VISITED" /\ mainPc # "exit"
                           \/ Owned(n)

SafetyInv == /\ TypeOK /\ LocksInv /\ WorkersInv /\ MainInv /\ QueueInv
             /\ OneOwner /\ FreesInv /\ FreedExactlyOnce

(* With no spurious wakeup, no worker passes the wait before the root is   *)
(* submitted, and a queued task always has a worker left to poll for it.   *)
PollersInv ==
    /\ mainPc \in {"create", "submit", "enqueue", "announce"} =>
          \A t \in Threads : pc[t] \in {"unborn", "start", "wait", "waiting"}
    /\ taskAvailable => mainPc \in {"broadcast", "join", "drain", "exit"}
    /\ queue # <<>> => \E t \in Threads : pc[t] # "exited"

(* Worker t has the entry k of n's neighbours still ahead. *)
ScansFrom(t, n, k) ==
    task[t] = n /\ pc[t] \in {"scan", "claim", "enqueue"} /\ index[t] <= k

(* No node is lost before it is run, and every neighbour of a DONE node is *)
(* claimed or still ahead of the worker scanning it.                       *)
CoverageInv ==
    /\ mainPc \notin {"create", "submit"} => visited[Root] # "NOT_VISITED"
    /\ \A n \in Nodes : visited[n] = "PROCESSING" => frees[n] = 0
    /\ \A n \in Done : \A k \in 1 .. Len(Neighbours[n]) :
          \/ visited[Neighbours[n][k]] # "NOT_VISITED"
          \/ \E t \in Threads : ScansFrom(t, n, k)

(* Only nodes of the root's component are claimed, one edge at a time. *)
ClaimsInv ==
    \A n \in Nodes : visited[n] # "NOT_VISITED" =>
        /\ n \in Reachable
        /\ n = Root \/ \E m \in Done : n \in Adjacent(m)

CompletenessInv == SafetyInv /\ PollersInv /\ CoverageInv /\ ClaimsInv

-----------------------------------------------------------------------------
(* What the comments and the README say, and the code does not do. *)

(* README: "Wait for all worker threads": wait_for_completion returns. *)
CompletionIsReached == <>(mainPc = "exit")
=============================================================================
