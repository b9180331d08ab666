---------------------------- MODULE FifoExecutor ----------------------------
(***************************************************************************)
(* What TaskQueue promises its users (src/MqMessageService/TaskQueue.h,    *)
(* the class comment): tasks are processed one at a time in the order they *)
(* were pushed, each exactly once, until the queue is stopped; when it is  *)
(* destroyed no task is being processed and none will be.                  *)
(***************************************************************************)
EXTENDS Sequences

CONSTANTS Tasks, NoTask

VARIABLES
  waiting,   \* pushed and not taken yet
  current,   \* the task being processed
  finished,  \* the tasks processed, in order
  stopped,   \* no task is taken any more
  closed     \* the destructor has returned

vars == <<waiting, current, finished, stopped, closed>>

Init ==
  /\ waiting = <<>>
  /\ current = NoTask
  /\ finished = <<>>
  /\ stopped = FALSE
  /\ closed = FALSE

Push(t) ==
  /\ ~closed
  /\ waiting' = Append(waiting, t)
  /\ UNCHANGED <<current, finished, stopped, closed>>

Take ==
  /\ ~stopped
  /\ current = NoTask
  /\ waiting # <<>>
  /\ current' = Head(waiting)
  /\ waiting' = Tail(waiting)
  /\ UNCHANGED <<finished, stopped, closed>>

Finish ==
  /\ current # NoTask
  /\ finished' = Append(finished, current)
  /\ current' = NoTask
  /\ UNCHANGED <<waiting, stopped, closed>>

Stop ==
  /\ ~stopped
  /\ stopped' = TRUE
  /\ UNCHANGED <<waiting, current, finished, closed>>

Close ==
  /\ stopped
  /\ current = NoTask
  /\ ~closed
  /\ closed' = TRUE
  /\ UNCHANGED <<waiting, current, finished, stopped>>

Next ==
  \/ \E t \in Tasks : Push(t)
  \/ Take
  \/ Finish
  \/ Stop
  \/ Close

Spec == Init /\ [][Next]_vars
=============================================================================
