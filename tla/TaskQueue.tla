----------------------------- MODULE TaskQueue ------------------------------
(***************************************************************************)
(* The task queue of MqMessageService (src/MqMessageService/TaskQueue.h):  *)
(* any number of threads push tasks, one worker thread processes them, and *)
(* both stopQueue() and the destructor stop the worker.                    *)
(*                                                                         *)
(* Everything done under m_taskQueueMutex is one step.  The notification   *)
(* after a critical section is a step of its own: the worker may run, park *)
(* or finish between the two.  The outer loop of the worker reads          *)
(* m_runWorkerThread without the mutex; the race is modelled by letting    *)
(* that read return the value from before a stop.                          *)
(***************************************************************************)
EXTENDS Naturals, Sequences

CONSTANTS
  Pushers,   \* threads that call pushToQueue
  Stoppers,  \* threads that call stopQueue
  Owner,     \* the thread that runs the destructor
  Tasks,     \* the values pushed
  MaxPushes, \* bound: how many pushes are made
  NoTask

Threads == Pushers \cup Stoppers \cup {Owner}

ASSUME TaskQueueAssumption ==
  /\ Pushers \cap Stoppers = {}
  /\ Owner \notin Pushers \cup Stoppers
  /\ NoTask \notin Tasks
  /\ MaxPushes \in Nat

VARIABLES
  m_taskQueue,
  m_taskPushed,
  m_runWorkerThread,
  worker,     \* where the worker thread is
  task,       \* the task it holds
  pc,         \* where every other thread is
  pushed,     \* history: all tasks pushed, in the order of their critical sections
  processed   \* history: the tasks m_processTaskFunc was called with

vars == <<m_taskQueue, m_taskPushed, m_runWorkerThread, worker, task, pc, pushed, processed>>

WorkerStates ==
  {"outer",    \* about to read m_runWorkerThread in the outer loop
   "locking",  \* about to lock and evaluate the wait predicate
   "parked",   \* blocked in wait, not notified
   "woken",    \* notified, about to take the mutex again
   "process",  \* in m_processTaskFunc, mutex released
   "relock",   \* about to lock for the next round of the inner loop
   "exited"}

TypeOK ==
  /\ m_taskQueue \in Seq(Tasks)
  /\ m_taskPushed \in BOOLEAN
  /\ m_runWorkerThread \in BOOLEAN
  /\ worker \in WorkerStates
  /\ task \in Tasks \cup {NoTask}
  /\ pc \in [Threads -> {"idle", "notify", "join", "gone"}]
  /\ pushed \in Seq(Tasks)
  /\ processed \in Seq(Tasks)

\* The constructor.
Init ==
  /\ m_taskQueue = <<>>
  /\ m_taskPushed = FALSE
  /\ m_runWorkerThread = TRUE
  /\ worker = "outer"
  /\ task = NoTask
  /\ pc = [t \in Threads |-> "idle"]
  /\ pushed = <<>>
  /\ processed = <<>>

-----------------------------------------------------------------------------
(* The worker thread.                                                      *)

\* Mutant: the newest task first.
Inner_Lifo ==
  \/ /\ m_runWorkerThread
     /\ m_taskQueue # <<>>
     /\ task' = m_taskQueue[Len(m_taskQueue)]
     /\ m_taskQueue' = SubSeq(m_taskQueue, 1, Len(m_taskQueue) - 1)
     /\ worker' = "process"
  \/ /\ m_runWorkerThread
     /\ m_taskQueue = <<>>
     /\ worker' = "outer"
     /\ UNCHANGED <<m_taskQueue, task>>
  \/ /\ ~m_runWorkerThread
     /\ worker' = "exited"
     /\ UNCHANGED <<m_taskQueue, task>>

\* Mutant: the queue is drained although it was stopped.
Inner_Drain ==
  \/ /\ m_taskQueue # <<>>
     /\ task' = Head(m_taskQueue)
     /\ m_taskQueue' = Tail(m_taskQueue)
     /\ worker' = "process"
  \/ /\ m_taskQueue = <<>>
     /\ worker' = IF m_runWorkerThread THEN "outer" ELSE "exited"
     /\ UNCHANGED <<m_taskQueue, task>>

\* One pass of the inner loop, in the critical section the caller of the
\* operator opened: take a task and release the mutex, go back to the outer
\* loop when there is none, or leave when the queue was stopped.
Inner ==
  \/ /\ m_runWorkerThread
     /\ m_taskQueue # <<>>
     /\ task' = Head(m_taskQueue)
     /\ m_taskQueue' = Tail(m_taskQueue)
     /\ worker' = "process"
  \/ /\ m_runWorkerThread
     /\ m_taskQueue = <<>>
     /\ worker' = "outer"
     /\ UNCHANGED <<m_taskQueue, task>>
  \/ /\ ~m_runWorkerThread
     /\ worker' = "exited"
     /\ UNCHANGED <<m_taskQueue, task>>

\* The unsynchronised read: FALSE only after a stop, TRUE even then.
OuterLoop ==
  /\ worker = "outer"
  /\ \/ worker' = "locking"
     \/ ~m_runWorkerThread /\ worker' = "exited"
  /\ UNCHANGED <<m_taskQueue, m_taskPushed, m_runWorkerThread, task, pc, pushed, processed>>

\* wait(lck, pred): return with the mutex held when the predicate holds, park
\* otherwise.  A woken worker re-evaluates it.
Wait ==
  /\ worker \in {"locking", "woken"}
  /\ IF m_taskPushed
       THEN m_taskPushed' = FALSE /\ Inner
       ELSE worker' = "parked" /\ UNCHANGED <<m_taskQueue, m_taskPushed, task>>
  /\ UNCHANGED <<m_runWorkerThread, pc, pushed, processed>>

\* The standard allows wait() to wake without a notification.
SpuriousWakeup ==
  /\ worker = "parked"
  /\ worker' = "woken"
  /\ UNCHANGED <<m_taskQueue, m_taskPushed, m_runWorkerThread, task, pc, pushed, processed>>

Process ==
  /\ worker = "process"
  /\ processed' = Append(processed, task)
  /\ task' = NoTask
  /\ worker' = "relock"
  /\ UNCHANGED <<m_taskQueue, m_taskPushed, m_runWorkerThread, pc, pushed>>

Relock ==
  /\ worker = "relock"
  /\ Inner
  /\ UNCHANGED <<m_taskPushed, m_runWorkerThread, pc, pushed, processed>>

-----------------------------------------------------------------------------
(* The threads that use the queue.                                         *)

\* Mutant: a default-constructed task is pushed.
pushToQueue_Default(p, t) ==
  /\ pc[p] = "idle"
  /\ Len(pushed) < MaxPushes
  /\ pc[Owner] = "idle"
  /\ m_taskQueue' = Append(m_taskQueue, NoTask)
  /\ m_taskPushed' = TRUE
  /\ pushed' = Append(pushed, t)
  /\ pc' = [pc EXCEPT ![p] = "notify"]
  /\ UNCHANGED <<m_runWorkerThread, worker, task, processed>>

\* The critical section of pushToQueue.
pushToQueue(p, t) ==
  /\ pc[p] = "idle"
  /\ Len(pushed) < MaxPushes
  /\ pc[Owner] = "idle"
  /\ m_taskQueue' = Append(m_taskQueue, t)
  /\ m_taskPushed' = TRUE
  /\ pushed' = Append(pushed, t)
  /\ pc' = [pc EXCEPT ![p] = "notify"]
  /\ UNCHANGED <<m_runWorkerThread, worker, task, processed>>

\* Mutant: a stop does not make the wait predicate true.
RequestStop_NoFlag(t) ==
  /\ pc[t] = "idle"
  /\ pc[Owner] = "idle"
  /\ m_runWorkerThread' = FALSE
  /\ pc' = [pc EXCEPT ![t] = "notify"]
  /\ UNCHANGED <<m_taskQueue, m_taskPushed, worker, task, pushed, processed>>

\* The critical section stopQueue and the destructor have in common.
RequestStop(t) ==
  /\ pc[t] = "idle"
  /\ pc[Owner] = "idle"
  /\ m_runWorkerThread' = FALSE
  /\ m_taskPushed' = TRUE
  /\ pc' = [pc EXCEPT ![t] = "notify"]
  /\ UNCHANGED <<m_taskQueue, worker, task, pushed, processed>>

stopQueue(s) == RequestStop(s)

\* Nobody destroys an object another thread is still calling.
destructor ==
  /\ \A t \in Threads : pc[t] # "notify"
  /\ RequestStop(Owner)

\* Mutant: the notification is left out.
notify_all_Missing(t) ==
  /\ pc[t] = "notify"
  /\ pc' = [pc EXCEPT ![t] = IF t = Owner THEN "join"
                             ELSE IF t \in Stoppers THEN "gone" ELSE "idle"]
  /\ UNCHANGED <<m_taskQueue, m_taskPushed, m_runWorkerThread, worker, task, pushed, processed>>

\* notify_all(), after the mutex was released.  stopQueue is called once by
\* each of its threads, pushers go on, the destructor joins.
notify_all(t) ==
  /\ pc[t] = "notify"
  /\ worker' = IF worker = "parked" THEN "woken" ELSE worker
  /\ pc' = [pc EXCEPT ![t] = IF t = Owner THEN "join"
                             ELSE IF t \in Stoppers THEN "gone" ELSE "idle"]
  /\ UNCHANGED <<m_taskQueue, m_taskPushed, m_runWorkerThread, task, pushed, processed>>

join ==
  /\ pc[Owner] = "join"
  /\ worker = "exited"
  /\ pc' = [pc EXCEPT ![Owner] = "gone"]
  /\ UNCHANGED <<m_taskQueue, m_taskPushed, m_runWorkerThread, worker, task, pushed, processed>>

-----------------------------------------------------------------------------
WorkerStep == OuterLoop \/ Wait \/ Process \/ Relock

Next ==
  \/ WorkerStep
  \/ SpuriousWakeup
  \/ \E p \in Pushers, t \in Tasks : pushToQueue(p, t)
  \/ \E s \in Stoppers : stopQueue(s)
  \/ destructor
  \/ \E t \in Threads : notify_all(t)
  \/ join

Spec == Init /\ [][Next]_vars

\* Threads that can run do run; nobody is obliged to push, stop or destroy,
\* and the worker must not need a spurious wakeup.  m_processTaskFunc returns.
Fairness ==
  /\ WF_vars(WorkerStep)
  /\ \A t \in Threads : WF_vars(notify_all(t))
  /\ WF_vars(join)

FairSpec == Spec /\ Fairness

-----------------------------------------------------------------------------
(* Correctness.                                                            *)

InProgress == IF task = NoTask THEN <<>> ELSE <<task>>

\* What was processed, what is being processed and what waits are together
\* exactly what was pushed, in the order of the pushes: pushToQueue and the
\* worker lose, duplicate and reorder nothing.
FifoNoLoss == processed \o InProgress \o m_taskQueue = pushed

\* The worker never sleeps through work: when it is parked with a task
\* waiting or a stop requested, a thread is about to call notify_all() and the
\* wait predicate will hold.
NoLostWakeup ==
  worker = "parked" /\ (m_taskQueue # <<>> \/ ~m_runWorkerThread) =>
    m_taskPushed /\ \E t \in Threads : pc[t] = "notify"

\* The strengthening that makes NoLostWakeup inductive: whenever there is a
\* reason to wake, the wait predicate holds until the worker has seen it.
WakeupInv ==
  /\ worker = "parked" /\ m_taskPushed => \E t \in Threads : pc[t] = "notify"
  /\ worker \in {"outer", "locking", "parked", "woken"}
       /\ (m_taskQueue # <<>> \/ ~m_runWorkerThread) => m_taskPushed

\* The worker holds a task exactly while it processes one, has left only when
\* told to, and the destructor has told it to before it joins.
ControlInv ==
  /\ worker = "process" <=> task # NoTask
  /\ worker = "exited" => ~m_runWorkerThread
  /\ pc[Owner] # "idle" => ~m_runWorkerThread

\* Every pushed task is processed unless somebody stops the queue.
PushedIsProcessed ==
  \A n \in 1..MaxPushes :
    (Len(pushed) >= n) ~> (Len(processed) >= n \/ ~m_runWorkerThread)

\* The destructor returns: its join() never waits for a worker that sleeps.
DestructorReturns == (pc[Owner] = "notify") ~> (pc[Owner] = "gone")

\* TaskQueue implements the executor of its class comment.
Executor == INSTANCE FifoExecutor WITH
  waiting  <- m_taskQueue,
  current  <- task,
  finished <- processed,
  stopped  <- ~m_runWorkerThread,
  closed   <- pc[Owner] = "gone"

\* The queue refines the abstract executor, which takes tasks in order, one
\* at a time, none after a stop, and is closed only when idle.
ImplementsExecutor == Executor!Spec
=============================================================================
