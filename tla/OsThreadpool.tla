---------------------------- MODULE OsThreadpool ----------------------------
(***************************************************************************)
(* The thread pool of src/parallel-graph/src/os_threadpool.c: its workers  *)
(* and the part of the main thread that creates, joins and destroys them.  *)
(* What a task does is the business of the module that extends this one: a *)
(* worker that has a task is at "action" and comes back at "destroy".      *)
(*                                                                         *)
(* Taking a lock is merged with the first access made under it, releasing  *)
(* it with the last one; every access in between that another thread could *)
(* observe, if the lock were missing, is a step of its own.                *)
(***************************************************************************)
EXTENDS Integers, Sequences, FiniteSets

CONSTANTS Threads,          \* the workers (NUM_THREADS of them)
          Tasks,
          None,
          SpuriousWakeups   \* may pthread_cond_wait return unsignalled?

ASSUME PoolAssumption == /\ Threads # {}
                         /\ None \notin Threads
                         /\ None \notin Tasks
                         /\ SpuriousWakeups \in BOOLEAN

VARIABLES mutex,            \* owner of tp->mutex, or None
          queueMutex,       \* owner of tp->queueMutex, or None
          taskAvailable,    \* tp->taskAvailable
          queue,            \* tp->head
          pc,               \* where each worker is
          task,             \* the worker's local t, or None
          mainPc            \* where main is

poolVars == <<mutex, queueMutex, taskAvailable, queue, pc, task, mainPc>>

PoolInit ==
    /\ mutex = None /\ queueMutex = None
    /\ taskAvailable = FALSE
    /\ queue = <<>>
    /\ pc = [t \in Threads |-> "unborn"]
    /\ task = [t \in Threads |-> None]
    /\ mainPc = "create"

Goto(t, from, to) == pc[t] = from /\ pc' = [pc EXCEPT ![t] = to]

MainGoto(from, to) == mainPc = from /\ mainPc' = to

AddTail(x) == queueMutex = None /\ queue' = Append(queue, x)

-----------------------------------------------------------------------------
(* thread_loop_function, up to its loop *)

(* mutant: the worker does not wait for tasks *)
CheckAvailableNoWait(t) ==
    /\ mutex = None
    /\ mutex' = t
    /\ Goto(t, "start", "unlock")
    /\ UNCHANGED <<queueMutex, taskAvailable, queue, task, mainPc>>

CheckAvailable(t) ==
    /\ mutex = None
    /\ mutex' = t
    /\ Goto(t, "start", IF taskAvailable THEN "unlock" ELSE "wait")
    /\ UNCHANGED <<queueMutex, taskAvailable, queue, task, mainPc>>

CondWait(t) ==                \* releases the mutex and sleeps, atomically
    /\ Goto(t, "wait", "waiting")
    /\ mutex' = None
    /\ UNCHANGED <<queueMutex, taskAvailable, queue, task, mainPc>>

SpuriousWakeup(t) ==
    /\ SpuriousWakeups
    /\ Goto(t, "waiting", "woken")
    /\ UNCHANGED <<mutex, queueMutex, taskAvailable, queue, task, mainPc>>

Reacquire(t) ==
    /\ Goto(t, "woken", "unlock")
    /\ mutex = None
    /\ mutex' = t
    /\ UNCHANGED <<queueMutex, taskAvailable, queue, task, mainPc>>

Unlock(t) ==
    /\ Goto(t, "unlock", "poll")
    /\ mutex' = None
    /\ UNCHANGED <<queueMutex, taskAvailable, queue, task, mainPc>>

-----------------------------------------------------------------------------
(* dequeue_task; a NULL result ends the worker's loop *)

DequeueNull(t) ==
    /\ Goto(t, "poll", "exited")
    /\ queueMutex = None
    /\ queue = <<>>
    /\ UNCHANGED <<mutex, queueMutex, taskAvailable, queue, task, mainPc>>

(* mutant: queueMutex is not taken *)
TakeFirstUnlocked(t) ==
    /\ Goto(t, "poll", "unlink")
    /\ queue # <<>>
    /\ task' = [task EXCEPT ![t] = Head(queue)]
    /\ UNCHANGED <<mutex, queueMutex, taskAvailable, queue, mainPc>>

TakeFirst(t) ==
    /\ Goto(t, "poll", "unlink")
    /\ queueMutex = None
    /\ queue # <<>>
    /\ queueMutex' = t
    /\ task' = [task EXCEPT ![t] = Head(queue)]
    /\ UNCHANGED <<mutex, taskAvailable, queue, mainPc>>

Unlink(t) ==
    /\ Goto(t, "unlink", "action")
    /\ queue' = Tail(queue)
    /\ queueMutex' = None
    /\ UNCHANGED <<mutex, taskAvailable, task, mainPc>>

DestroyTask(t) ==
    /\ Goto(t, "destroy", "poll")
    /\ task' = [task EXCEPT ![t] = None]
    /\ UNCHANGED <<mutex, queueMutex, taskAvailable, queue, mainPc>>

-----------------------------------------------------------------------------
(* the main thread: create_threadpool, wait_for_completion,                *)
(* destroy_threadpool                                                      *)

CreateThread(t) ==
    /\ mainPc = "create"
    /\ Goto(t, "unborn", "start")
    /\ UNCHANGED <<mutex, queueMutex, taskAvailable, queue, task, mainPc>>

ThreadpoolCreated ==
    /\ MainGoto("create", "submit")
    /\ \A t \in Threads : pc[t] # "unborn"
    /\ UNCHANGED <<mutex, queueMutex, taskAvailable, queue, pc, task>>

WaitForCompletion ==
    /\ MainGoto("join", "drain")
    /\ \A t \in Threads : pc[t] = "exited"
    /\ UNCHANGED <<mutex, queueMutex, taskAvailable, queue, pc, task>>

DestroyQueued ==              \* one round of list_for_each_safe
    /\ mainPc = "drain"
    /\ queue # <<>>
    /\ queue' = Tail(queue)
    /\ UNCHANGED <<mutex, queueMutex, taskAvailable, pc, task, mainPc>>
=============================================================================
