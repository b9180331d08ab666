--------------------------- MODULE TaskQueueProofs --------------------------
(***************************************************************************)
(* Theorems about TaskQueue, for any number of pushing and stopping        *)
(* threads and any tasks.                                                  *)
(***************************************************************************)
EXTENDS TaskQueue, SequenceTheorems, TLAPS

IInv == TypeOK /\ ControlInv /\ WakeupInv /\ FifoNoLoss

-----------------------------------------------------------------------------
(* Sequences.                                                              *)

\* Taking the first task of a queue and putting it before the rest gives the
\* queue back.
LEMMA HeadTail ==
  ASSUME NEW S, NEW q \in Seq(S), q # <<>>
  PROVE  <<Head(q)>> \o Tail(q) = q /\ Head(q) \in S /\ Tail(q) \in Seq(S)
OBVIOUS

\* A task appended to the last of two concatenated sequences is appended to
\* the concatenation.
LEMMA AppendLast ==
  ASSUME NEW S, NEW p \in Seq(S), NEW q \in Seq(S), NEW e \in S
  PROVE  p \o Append(q, e) = Append(p \o q, e)
OBVIOUS

\* Appending is concatenating a sequence of one.
LEMMA AppendOne ==
  ASSUME NEW S, NEW p \in Seq(S), NEW e \in S
  PROVE  Append(p, e) = p \o <<e>>
OBVIOUS

\* Concatenation is associative.
LEMMA Associative ==
  ASSUME NEW S, NEW p \in Seq(S), NEW q \in Seq(S), NEW r \in Seq(S)
  PROVE  p \o q \o r = p \o (q \o r)
OBVIOUS

-----------------------------------------------------------------------------
(* Typing.                                                                 *)

\* The types of the pass through the inner loop.
LEMMA InnerTyped ==
  ASSUME TypeOK, Inner
  PROVE  /\ m_taskQueue' \in Seq(Tasks)
         /\ task' \in Tasks \cup {NoTask}
         /\ worker' \in WorkerStates
BY HeadTail DEF TypeOK, Inner, WorkerStates

\* A step preserves the types; a task the worker processes is a pushed one.
LEMMA TypeStep == TypeOK /\ ControlInv /\ [Next]_vars => TypeOK'
<1> SUFFICES ASSUME TypeOK, ControlInv, [Next]_vars PROVE TypeOK'
  OBVIOUS
<1> USE TaskQueueAssumption
<1>1. CASE OuterLoop
  BY <1>1 DEF OuterLoop, TypeOK, WorkerStates
<1>2. CASE Wait
  BY <1>2, InnerTyped DEF Wait, TypeOK, WorkerStates
<1>3. CASE Process
  BY <1>3 DEF Process, ControlInv, TypeOK, WorkerStates
<1>4. CASE Relock
  BY <1>4, InnerTyped DEF Relock, TypeOK
<1>5. CASE SpuriousWakeup
  BY <1>5 DEF SpuriousWakeup, TypeOK, WorkerStates
<1>6. ASSUME NEW p \in Pushers, NEW t \in Tasks, pushToQueue(p, t) PROVE TypeOK'
  BY <1>6 DEF pushToQueue, TypeOK, Threads
<1>7. ASSUME NEW s \in Stoppers, stopQueue(s) PROVE TypeOK'
  BY <1>7 DEF stopQueue, RequestStop, TypeOK, Threads
<1>8. CASE destructor
  BY <1>8 DEF destructor, RequestStop, TypeOK, Threads
<1>9. ASSUME NEW t \in Threads, notify_all(t) PROVE TypeOK'
  BY <1>9 DEF notify_all, TypeOK, WorkerStates
<1>10. CASE join
  BY <1>10 DEF join, TypeOK, Threads
<1>11. CASE UNCHANGED vars
  BY <1>11 DEF vars, TypeOK
<1> QED
  BY <1>1, <1>2, <1>3, <1>4, <1>5, <1>6, <1>7, <1>8, <1>9, <1>10, <1>11 DEF Next, WorkerStep

-----------------------------------------------------------------------------
(* Control and wakeups.                                                    *)

\* A step preserves the agreement of the worker's place, its task and the stop.
LEMMA ControlStep == TypeOK /\ ControlInv /\ [Next]_vars => ControlInv'
<1> SUFFICES ASSUME TypeOK, ControlInv, [Next]_vars PROVE ControlInv'
  OBVIOUS
<1> USE TaskQueueAssumption
<1> USE DEF TypeOK, ControlInv, Threads
<1>1. CASE OuterLoop
  BY <1>1 DEF OuterLoop
<1>2. CASE Wait
  BY <1>2, HeadTail DEF Wait, Inner
<1>3. CASE Process
  BY <1>3 DEF Process
<1>4. CASE Relock
  BY <1>4, HeadTail DEF Relock, Inner
<1>5. CASE SpuriousWakeup
  BY <1>5 DEF SpuriousWakeup
<1>6. ASSUME NEW p \in Pushers, NEW t \in Tasks, pushToQueue(p, t) PROVE ControlInv'
  BY <1>6 DEF pushToQueue
<1>7. ASSUME NEW s \in Stoppers, stopQueue(s) PROVE ControlInv'
  BY <1>7 DEF stopQueue, RequestStop
<1>8. CASE destructor
  BY <1>8 DEF destructor, RequestStop
<1>9. ASSUME NEW t \in Threads, notify_all(t) PROVE ControlInv'
  BY <1>9 DEF notify_all
<1>10. CASE join
  BY <1>10 DEF join
<1>11. CASE UNCHANGED vars
  BY <1>11 DEF vars
<1> QED
  BY <1>1, <1>2, <1>3, <1>4, <1>5, <1>6, <1>7, <1>8, <1>9, <1>10, <1>11 DEF Next, WorkerStep

\* A step leaves no reason to wake unannounced.
LEMMA WakeupStep == TypeOK /\ WakeupInv /\ [Next]_vars => WakeupInv'
<1> SUFFICES ASSUME TypeOK, WakeupInv, [Next]_vars PROVE WakeupInv'
  OBVIOUS
<1> USE DEF TypeOK, WakeupInv, Threads
<1>1. CASE OuterLoop
  BY <1>1 DEF OuterLoop
<1>2. CASE Wait
  BY <1>2 DEF Wait, Inner
<1>3. CASE Process
  BY <1>3 DEF Process
<1>4. CASE Relock
  BY <1>4 DEF Relock, Inner
<1>5. CASE SpuriousWakeup
  BY <1>5 DEF SpuriousWakeup
<1>6. ASSUME NEW p \in Pushers, NEW t \in Tasks, pushToQueue(p, t) PROVE WakeupInv'
  BY <1>6 DEF pushToQueue
<1>7. ASSUME NEW s \in Stoppers, stopQueue(s) PROVE WakeupInv'
  BY <1>7 DEF stopQueue, RequestStop
<1>8. CASE destructor
  BY <1>8 DEF destructor, RequestStop
<1>9. ASSUME NEW t \in Threads, notify_all(t) PROVE WakeupInv'
  BY <1>9 DEF notify_all
<1>10. CASE join
  BY <1>10 DEF join
<1>11. CASE UNCHANGED vars
  BY <1>11 DEF vars
<1> QED
  BY <1>1, <1>2, <1>3, <1>4, <1>5, <1>6, <1>7, <1>8, <1>9, <1>10, <1>11 DEF Next, WorkerStep

-----------------------------------------------------------------------------
(* No task is lost, duplicated or reordered.                               *)

\* The pass through the inner loop moves the first task from the queue into
\* the worker's hand.
LEMMA InnerFifo ==
  ASSUME TypeOK, ControlInv, worker # "process", Inner
  PROVE  InProgress' \o m_taskQueue' = InProgress \o m_taskQueue
<1>1. task = NoTask
  BY DEF ControlInv
<1>2. CASE m_taskQueue # <<>> /\ task' = Head(m_taskQueue) /\ m_taskQueue' = Tail(m_taskQueue)
  <2>1. task' \in Tasks /\ task' # NoTask
    BY <1>2, HeadTail, TaskQueueAssumption DEF TypeOK
  <2>2. <<Head(m_taskQueue)>> \o Tail(m_taskQueue) = m_taskQueue
    BY <1>2, HeadTail DEF TypeOK
  <2>3. InProgress = <<>> /\ InProgress' = <<task'>>
    BY <1>1, <2>1 DEF InProgress
  <2>4. <<>> \o m_taskQueue = m_taskQueue
    BY DEF TypeOK
  <2> QED
    BY <1>2, <2>2, <2>3, <2>4
<1>3. CASE UNCHANGED <<m_taskQueue, task>>
  BY <1>3 DEF InProgress
<1> QED
  BY <1>2, <1>3 DEF Inner

\* A step moves tasks along in order.
LEMMA FifoStep == TypeOK /\ ControlInv /\ FifoNoLoss /\ [Next]_vars => FifoNoLoss'
<1> SUFFICES ASSUME TypeOK, ControlInv, FifoNoLoss, [Next]_vars PROVE FifoNoLoss'
  OBVIOUS
<1>0. InProgress \in Seq(Tasks) /\ InProgress' \in Seq(Tasks)
  BY TypeStep DEF InProgress, TypeOK
<1>1. ASSUME InProgress' \o m_taskQueue' = InProgress \o m_taskQueue,
             UNCHANGED <<pushed, processed>>
      PROVE  FifoNoLoss'
  <2>1. TypeOK'
    BY TypeStep
  <2>2. processed \in Seq(Tasks) /\ m_taskQueue \in Seq(Tasks) /\ m_taskQueue' \in Seq(Tasks)
    BY <2>1 DEF TypeOK
  <2>3. processed \o InProgress \o m_taskQueue = processed \o (InProgress \o m_taskQueue)
    BY <1>0, <2>2, Associative
  <2>4. processed \o InProgress' \o m_taskQueue' = processed \o (InProgress' \o m_taskQueue')
    BY <1>0, <2>2, Associative
  <2> QED
    BY <1>1, <2>3, <2>4 DEF FifoNoLoss
<1>2. ASSUME UNCHANGED <<task, m_taskQueue, pushed, processed>> PROVE FifoNoLoss'
  BY <1>2 DEF FifoNoLoss, InProgress
<1>3. CASE OuterLoop
  BY <1>3, <1>2 DEF OuterLoop
<1>4. CASE Wait
  <2>1. CASE m_taskPushed
    BY <1>1, <1>4, <2>1, InnerFifo DEF Wait
  <2>2. CASE ~m_taskPushed
    BY <1>2, <1>4, <2>2 DEF Wait
  <2> QED
    BY <2>1, <2>2
<1>5. CASE Process
  <2>1. task \in Tasks /\ task # NoTask
    BY <1>5 DEF Process, ControlInv, TypeOK
  <2>2. InProgress = <<task>> /\ InProgress' = <<>>
    BY <1>5, <2>1 DEF Process, InProgress
  <2>3. Append(processed, task) \o <<>> = processed \o <<task>>
    BY <2>1, AppendOne DEF TypeOK
  <2> QED
    BY <1>5, <2>2, <2>3 DEF Process, FifoNoLoss
<1>6. CASE Relock
  BY <1>1, <1>6, InnerFifo DEF Relock
<1>7. CASE SpuriousWakeup
  BY <1>7, <1>2 DEF SpuriousWakeup
<1>8. ASSUME NEW p \in Pushers, NEW t \in Tasks, pushToQueue(p, t) PROVE FifoNoLoss'
  <2>1. processed \o InProgress \in Seq(Tasks)
    BY <1>0 DEF TypeOK
  <2>2. processed \o InProgress \o Append(m_taskQueue, t)
          = Append(processed \o InProgress \o m_taskQueue, t)
    BY <2>1, AppendLast DEF TypeOK
  <2>3. InProgress' = InProgress
    BY <1>8 DEF pushToQueue, InProgress
  <2> QED
    BY <1>8, <2>2, <2>3 DEF pushToQueue, FifoNoLoss
<1>9. ASSUME NEW s \in Stoppers, stopQueue(s) PROVE FifoNoLoss'
  BY <1>9, <1>2 DEF stopQueue, RequestStop
<1>10. CASE destructor
  BY <1>10, <1>2 DEF destructor, RequestStop
<1>11. ASSUME NEW t \in Threads, notify_all(t) PROVE FifoNoLoss'
  BY <1>11, <1>2 DEF notify_all
<1>12. CASE join
  BY <1>12, <1>2 DEF join
<1>13. CASE UNCHANGED vars
  BY <1>13, <1>2 DEF vars
<1> QED
  BY <1>3, <1>4, <1>5, <1>6, <1>7, <1>8, <1>9, <1>10, <1>11, <1>12, <1>13 DEF Next, WorkerStep

-----------------------------------------------------------------------------
(* The theorems.                                                           *)

\* The inductive invariant of the queue.
LEMMA Invariant == Spec => []IInv
<1>1. Init => IInv
  <2> SUFFICES ASSUME Init PROVE IInv
    OBVIOUS
  <2>1. TypeOK
    <3>1. <<>> \in Seq(Tasks)
      OBVIOUS
    <3>2. [t \in Threads |-> "idle"] \in [Threads -> {"idle", "notify", "join", "gone"}]
      OBVIOUS
    <3> QED
      BY <3>1, <3>2, Zenon DEF Init, TypeOK, WorkerStates
  <2>2. ControlInv /\ WakeupInv
    BY DEF Init, ControlInv, WakeupInv, Threads
  <2>3. FifoNoLoss
    <3>1. InProgress = <<>> /\ processed = <<>> /\ m_taskQueue = <<>> /\ pushed = <<>>
      BY DEF Init, InProgress
    <3>2. <<>> \o <<>> \o <<>> = <<>>
      OBVIOUS
    <3> QED
      BY <3>1, <3>2 DEF FifoNoLoss
  <2> QED
    BY <2>1, <2>2, <2>3 DEF IInv
<1>2. IInv /\ [Next]_vars => IInv'
  BY TypeStep, ControlStep, WakeupStep, FifoStep DEF IInv
<1> QED
  BY <1>1, <1>2, PTL DEF Spec

\* The queue's data keep their types: the worker holds a task or none, and
\* only tasks are queued and processed.
THEOREM TypeCorrect == Spec => []TypeOK
<1>1. IInv => TypeOK
  BY DEF IInv
<1> QED
  BY <1>1, Invariant, PTL

\* pushToQueue and the worker process exactly what was pushed, in order.
THEOREM FifoHolds == Spec => []FifoNoLoss
<1>1. IInv => FifoNoLoss
  BY DEF IInv
<1> QED
  BY <1>1, Invariant, PTL

\* The worker never sleeps through a task or a stop.
THEOREM NoLostWakeupHolds == Spec => []NoLostWakeup
<1>1. IInv => NoLostWakeup
  BY DEF IInv, WakeupInv, NoLostWakeup
<1> QED
  BY <1>1, Invariant, PTL

\* The pass through the inner loop takes a task for the executor or leaves it
\* alone.
LEMMA InnerTakes ==
  ASSUME TypeOK, ControlInv, worker # "process", Inner,
         UNCHANGED <<m_runWorkerThread, pc, processed>>
  PROVE  Executor!Take \/ UNCHANGED Executor!vars
BY DEF ControlInv, Inner, Executor!Take, Executor!vars

\* Every step of the queue is a step of the abstract executor or leaves it
\* unchanged.
LEMMA ExecutorStep == IInv /\ [Next]_vars => [Executor!Next]_(Executor!vars)
<1> SUFFICES ASSUME IInv, [Next]_vars
             PROVE  Executor!Next \/ UNCHANGED Executor!vars
  OBVIOUS
<1> USE TaskQueueAssumption
<1> USE DEF IInv, TypeOK, Threads
<1>1. CASE OuterLoop
  BY <1>1 DEF OuterLoop, Executor!vars
<1>2. CASE Wait
  <2>1. CASE m_taskPushed
    BY <1>2, <2>1, InnerTakes DEF Wait, Executor!Next
  <2>2. CASE ~m_taskPushed
    BY <1>2, <2>2 DEF Wait, Executor!vars
  <2> QED
    BY <2>1, <2>2
<1>3. CASE Process
  <2>1. Executor!Finish
    BY <1>3 DEF Process, ControlInv, Executor!Finish
  <2> QED
    BY <2>1 DEF Executor!Next
<1>4. CASE Relock
  BY <1>4, InnerTakes DEF Relock, Executor!Next
<1>5. CASE SpuriousWakeup
  BY <1>5 DEF SpuriousWakeup, Executor!vars
<1>6. ASSUME NEW p \in Pushers, NEW t \in Tasks, pushToQueue(p, t) PROVE Executor!Next
  <2>1. Executor!Push(t)
    BY <1>6 DEF pushToQueue, Executor!Push
  <2> QED
    BY <2>1 DEF Executor!Next
<1>7. ASSUME NEW s \in Stoppers, stopQueue(s) PROVE Executor!Next \/ UNCHANGED Executor!vars
  BY <1>7 DEF stopQueue, RequestStop, Executor!Next, Executor!Stop, Executor!vars
<1>8. CASE destructor
  BY <1>8 DEF destructor, RequestStop, Executor!Next, Executor!Stop, Executor!vars
<1>9. ASSUME NEW t \in Threads, notify_all(t) PROVE UNCHANGED Executor!vars
  BY <1>9 DEF notify_all, Executor!vars
<1>10. CASE join
  <2>1. Executor!Close
    BY <1>10 DEF join, ControlInv, Executor!Close
  <2> QED
    BY <2>1 DEF Executor!Next
<1>11. CASE UNCHANGED vars
  BY <1>11 DEF vars, Executor!vars
<1> QED
  BY <1>1, <1>2, <1>3, <1>4, <1>5, <1>6, <1>7, <1>8, <1>9, <1>10, <1>11 DEF Next, WorkerStep

\* TaskQueue implements the sequential first-in first-out executor its class
\* comment describes.
THEOREM Implementation == Spec => ImplementsExecutor
<1>1. Init => Executor!Init
  BY DEF Init, Executor!Init, Threads
<1> QED
  BY <1>1, ExecutorStep, Invariant, PTL DEF Spec, ImplementsExecutor, Executor!Spec
=============================================================================
