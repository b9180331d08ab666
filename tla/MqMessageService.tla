-------------------------- MODULE MqMessageService --------------------------
(***************************************************************************)
(* src/MqMessageService/MqMessageService.cpp on Linux: sendMessage() puts  *)
(* messages in a TaskQueue whose worker passes each to sendTo(); a listen  *)
(* thread reads the local message queue and, when that fails, calls        *)
(* sendTo() itself before it ends.  sendTo() connects if necessary and     *)
(* writes to m_remoteMqHandle; only the middle of connect() is under       *)
(* m_connectMtx.  deactivate() cancels the listen thread, closes both      *)
(* handles and only then deletes the TaskQueue.                            *)
(*                                                                         *)
(* The TaskQueue is the executor it implements, FifoExecutor.  Message     *)
(* queue descriptors are file descriptors: once closed, the number is free *)
(* for the next open of any component of the process.                      *)
(***************************************************************************)
EXTENDS Naturals, Sequences

CONSTANTS
  Descriptors,  \* file descriptor numbers
  Invalid,      \* INVALID_HANDLE_VALUE
  MaxMessages,  \* bound: calls of sendMessage
  MaxForeign    \* bound: descriptors other components open

ASSUME MqMessageAssumption ==
  /\ Invalid \notin Descriptors
  /\ MaxMessages \in Nat
  /\ MaxForeign \in Nat

VARIABLES
  waiting, current, finished, stopped, closed,  \* m_toMqMessageQueue
  m_connected,
  m_runListenThread,
  m_state,
  m_connectMtx,      \* who holds it
  m_localMqHandle,
  m_remoteMqHandle,
  own,               \* descriptors this service opened that are still open
  replaced,          \* those of them whose queue openMqRead() replaced
  foreign,           \* descriptors other components have open
  opens,             \* how many of those were opened
  pc,                \* where the two threads are
  using,             \* the handle each thread passes to mq_send
  deactivator,       \* where deactivate() is
  pushed,            \* how many messages were pushed; they are numbered
  written,           \* history: pushed messages written to the remote queue
  crossed,           \* history: a pushed message was written to a handle not ours any more
  closedForeign      \* history: a descriptor of another component was closed

Threads == {"worker", "listener"}

Queue == INSTANCE FifoExecutor WITH Tasks <- 1..MaxMessages, NoTask <- 0

queue == <<waiting, current, finished, stopped, closed, pushed>>
listening == <<m_runListenThread, m_state, m_localMqHandle>>
descriptors == <<own, replaced, foreign, opens, closedForeign>>
writing == <<written, crossed>>
vars == <<queue, listening, descriptors, writing, m_connected, m_connectMtx,
          m_remoteMqHandle, pc, using, deactivator>>

Handles == Descriptors \cup {Invalid}

Places ==
  {"idle", "start", "read", "check", "lock", "open", "load", "send", "mark", "exited"}

TypeOK ==
  /\ waiting \in Seq(1..MaxMessages)
  /\ current \in 0..MaxMessages
  /\ finished \in Seq(1..MaxMessages)
  /\ stopped \in BOOLEAN /\ closed \in BOOLEAN /\ m_connected \in BOOLEAN
  /\ m_runListenThread \in BOOLEAN /\ m_state \in BOOLEAN
  /\ crossed \in BOOLEAN /\ closedForeign \in BOOLEAN
  /\ m_connectMtx \in Threads \cup {"free"}
  /\ m_localMqHandle \in Handles
  /\ m_remoteMqHandle \in Handles
  /\ own \in SUBSET Descriptors
  /\ replaced \in SUBSET own
  /\ foreign \in SUBSET Descriptors
  /\ own \cap foreign = {}
  /\ opens \in 0..MaxForeign
  /\ pc \in [Threads -> Places]
  /\ using \in [Threads -> Handles]
  /\ deactivator \in {"idle", "closeRemote", "closeLocal", "join", "delete", "stopped", "done"}
  /\ pushed \in 0..MaxMessages
  /\ written \in Seq(1..MaxMessages)

\* activate() has started the listen thread and created the queue.
Init ==
  /\ Queue!Init
  /\ m_connected = FALSE
  /\ m_runListenThread = TRUE
  /\ m_state = FALSE
  /\ m_connectMtx = "free"
  /\ m_localMqHandle = Invalid
  /\ m_remoteMqHandle = Invalid
  /\ own = {}
  /\ replaced = {}
  /\ foreign = {}
  /\ opens = 0
  /\ pc = [t \in Threads |-> IF t = "listener" THEN "start" ELSE "idle"]
  /\ using = [t \in Threads |-> Invalid]
  /\ deactivator = "idle"
  /\ pushed = 0
  /\ written = <<>>
  /\ crossed = FALSE
  /\ closedForeign = FALSE

-----------------------------------------------------------------------------
(* Descriptors.                                                            *)

Free == Descriptors \ (own \cup foreign)

\* mq_close() closes whatever has that number, nothing if nothing has it.
closeMq(h) ==
  /\ own' = own \ {h}
  /\ replaced' = replaced \ {h}
  /\ foreign' = foreign \ {h}
  /\ closedForeign' = (closedForeign \/ h \in foreign)
  /\ UNCHANGED opens

ForeignOpen ==
  /\ opens < MaxForeign
  /\ \E h \in Free : foreign' = foreign \cup {h}
  /\ opens' = opens + 1
  /\ UNCHANGED <<queue, listening, own, replaced, closedForeign, writing, m_connected, m_connectMtx,
                 m_remoteMqHandle, pc, using, deactivator>>

-----------------------------------------------------------------------------
(* The callers and the worker of the queue.                                *)

sendMessage ==
  /\ deactivator = "idle"
  /\ pushed < MaxMessages
  /\ pushed' = pushed + 1
  /\ Queue!Push(pushed + 1)
  /\ UNCHANGED <<listening, descriptors, writing, m_connected, m_connectMtx,
                 m_remoteMqHandle, pc, using, deactivator>>

\* The worker passes the next message to sendTo.
Take ==
  /\ pc["worker"] = "idle"
  /\ Queue!Take
  /\ pc' = [pc EXCEPT !["worker"] = "check"]
  /\ UNCHANGED <<listening, descriptors, writing, m_connected, m_connectMtx,
                 m_remoteMqHandle, using, deactivator, pushed>>

-----------------------------------------------------------------------------
(* The listen thread.                                                      *)

\* It ends, regularly or by an exception it catches.
Exit ==
  /\ pc' = [pc EXCEPT !["listener"] = "exited"]
  /\ m_state' = FALSE

\* openMqRead(): a queue that exists with other attributes is unlinked and
\* opened again, and the first descriptor stays open.
openMqRead ==
  \/ /\ m_localMqHandle' = Invalid
     /\ UNCHANGED <<own, replaced>>
  \/ \E h \in Free :
       /\ m_localMqHandle' = h
       /\ own' = own \cup {h}
       /\ UNCHANGED replaced
  \/ \E old \in Free, h \in Handles :
       /\ h \in (Free \ {old}) \cup {Invalid}
       /\ m_localMqHandle' = h
       /\ own' = own \cup ({old, h} \ {Invalid})
       /\ replaced' = replaced \cup {old}

ListenOpen ==
  /\ pc["listener"] = "start"
  /\ m_runListenThread
  /\ openMqRead
  /\ IF m_localMqHandle' = Invalid
       THEN Exit /\ m_runListenThread' = FALSE
       ELSE /\ m_state' = TRUE
            /\ pc' = [pc EXCEPT !["listener"] = "read"]
            /\ UNCHANGED m_runListenThread
  /\ UNCHANGED <<queue, foreign, opens, closedForeign, writing,
                 m_connected, m_connectMtx, m_remoteMqHandle, using, deactivator>>

\* deactivate() came before the first open.
ListenNever ==
  /\ pc["listener"] = "start"
  /\ ~m_runListenThread
  /\ Exit
  /\ UNCHANGED <<queue, m_runListenThread, m_localMqHandle, descriptors,
                 writing, m_connected, m_connectMtx, m_remoteMqHandle, using, deactivator>>

\* A message is read and handled, which changes nothing here; the loop ends
\* after it if deactivate() has begun.
ListenRead ==
  /\ pc["listener"] = "read"
  /\ ~m_runListenThread
  /\ Exit
  /\ UNCHANGED <<queue, m_runListenThread, m_localMqHandle, descriptors,
                 writing, m_connected, m_connectMtx, m_remoteMqHandle, using, deactivator>>

\* mq_receive fails: "Remote broken" is sent; m_server is never set.
ListenBroken ==
  /\ pc["listener"] = "read"
  /\ pc' = [pc EXCEPT !["listener"] = "check"]
  /\ UNCHANGED <<queue, m_runListenThread, m_state, m_localMqHandle, descriptors,
                 writing, m_connected, m_connectMtx, m_remoteMqHandle, using, deactivator>>

\* Mutant: a cancelled thread keeps the mutex.
ListenCancelled_KeepMutex ==
  /\ deactivator # "idle"
  /\ pc["listener"] # "exited"
  /\ pc' = [pc EXCEPT !["listener"] = "exited"]
  /\ UNCHANGED <<queue, listening, descriptors, writing, m_connected, m_connectMtx,
                 m_remoteMqHandle, using, deactivator>>

\* pthread_cancel takes effect: the stack is unwound, m_state stays.
ListenCancelled ==
  /\ deactivator # "idle"
  /\ pc["listener"] # "exited"
  /\ pc' = [pc EXCEPT !["listener"] = "exited"]
  /\ m_connectMtx' = IF m_connectMtx = "listener" THEN "free" ELSE m_connectMtx
  /\ UNCHANGED <<queue, listening, descriptors, writing, m_connected, m_remoteMqHandle,
                 using, deactivator>>

-----------------------------------------------------------------------------
(* sendTo(), by either thread.                                             *)

\* connect() tests m_connected before it locks.
Check(t) ==
  /\ pc[t] = "check"
  /\ pc' = [pc EXCEPT ![t] = IF m_connected THEN "load" ELSE "lock"]
  /\ UNCHANGED <<queue, listening, descriptors, writing, m_connected, m_connectMtx,
                 m_remoteMqHandle, using, deactivator>>

\* Mutant: the old channel is not closed.
LockAndClose_Leak(t) ==
  /\ pc[t] = "lock"
  /\ m_connectMtx = "free"
  /\ m_connectMtx' = t
  /\ pc' = [pc EXCEPT ![t] = "open"]
  /\ UNCHANGED <<queue, listening, descriptors, writing, m_connected, m_remoteMqHandle,
                 using, deactivator>>

LockAndClose(t) ==
  /\ pc[t] = "lock"
  /\ m_connectMtx = "free"
  /\ m_connectMtx' = t
  /\ closeMq(m_remoteMqHandle)
  /\ pc' = [pc EXCEPT ![t] = "open"]
  /\ UNCHANGED <<queue, listening, writing, m_connected, m_remoteMqHandle, using, deactivator>>

openMqWrite ==
  \/ m_remoteMqHandle' = Invalid /\ UNCHANGED own
  \/ \E h \in Free : m_remoteMqHandle' = h /\ own' = own \cup {h}

\* Mutant: a failed open leaves the closed handle in place.
OpenAndUnlock_KeepHandle(t) ==
  /\ pc[t] = "open"
  /\ \/ UNCHANGED <<m_remoteMqHandle, own, m_connected>>
     \/ openMqWrite /\ m_remoteMqHandle' # Invalid /\ m_connected' = TRUE
  /\ m_connectMtx' = "free"
  /\ pc' = [pc EXCEPT ![t] = "load"]
  /\ UNCHANGED <<queue, listening, replaced, foreign, opens, closedForeign, writing, using,
                 deactivator>>

OpenAndUnlock(t) ==
  /\ pc[t] = "open"
  /\ openMqWrite
  /\ m_connected' = (m_connected \/ m_remoteMqHandle' # Invalid)
  /\ m_connectMtx' = "free"
  /\ pc' = [pc EXCEPT ![t] = "load"]
  /\ UNCHANGED <<queue, listening, replaced, foreign, opens, closedForeign, writing, using,
                 deactivator>>

\* The handle is read without the mutex.
Load(t) ==
  /\ pc[t] = "load"
  /\ using' = [using EXCEPT ![t] = m_remoteMqHandle]
  /\ pc' = [pc EXCEPT ![t] = "send"]
  /\ UNCHANGED <<queue, listening, descriptors, writing, m_connected, m_connectMtx,
                 m_remoteMqHandle, deactivator>>

\* sendTo() returns: the worker is done with the message, the listen thread
\* throws and ends.
Return(t) ==
  /\ using' = [using EXCEPT ![t] = Invalid]
  /\ IF t = "worker"
       THEN /\ Queue!Finish
            /\ pc' = [pc EXCEPT !["worker"] = "idle"]
            /\ UNCHANGED <<m_runListenThread, m_state>>
       ELSE /\ m_runListenThread' = FALSE
            /\ Exit
            /\ UNCHANGED <<waiting, current, finished, stopped, closed>>

Sent(t) ==
  /\ pc[t] = "send"
  /\ using[t] \in own
  /\ written' = IF t = "worker" THEN Append(written, current) ELSE written
  /\ Return(t)
  /\ UNCHANGED <<pushed, m_localMqHandle, descriptors, crossed,
                 m_connected, m_connectMtx, m_remoteMqHandle, deactivator>>

\* The remote refuses, or the handle is not one of ours any more.
SendFailed(t) ==
  /\ pc[t] = "send"
  /\ crossed' = (crossed \/ (t = "worker" /\ using[t] \notin own \cup {Invalid}))
  /\ pc' = [pc EXCEPT ![t] = "mark"]
  /\ UNCHANGED <<queue, listening, descriptors, written, m_connected, m_connectMtx,
                 m_remoteMqHandle, using, deactivator>>

\* Mutant: a message that could not be written is queued again.
MarkBroken_Requeue(t) ==
  /\ pc[t] = "mark"
  /\ m_connected' = FALSE
  /\ IF t = "worker"
       THEN /\ waiting' = Append(waiting, current)
            /\ current' = 0
            /\ pc' = [pc EXCEPT !["worker"] = "idle"]
            /\ using' = [using EXCEPT ![t] = Invalid]
            /\ UNCHANGED <<finished, stopped, closed, m_runListenThread, m_state>>
       ELSE Return(t)
  /\ UNCHANGED <<pushed, m_localMqHandle, descriptors, writing,
                 m_connectMtx, m_remoteMqHandle, deactivator>>

\* The message is given up, the next one connects again.
MarkBroken(t) ==
  /\ pc[t] = "mark"
  /\ m_connected' = FALSE
  /\ Return(t)
  /\ UNCHANGED <<pushed, m_localMqHandle, descriptors, writing,
                 m_connectMtx, m_remoteMqHandle, deactivator>>

sendTo(t) ==
  \/ Check(t) \/ LockAndClose(t) \/ OpenAndUnlock(t)
  \/ Load(t) \/ Sent(t) \/ SendFailed(t) \/ MarkBroken(t)

-----------------------------------------------------------------------------
(* deactivate().                                                           *)

Deactivate ==
  /\ deactivator = "idle"
  /\ m_runListenThread' = FALSE
  /\ deactivator' = "closeRemote"
  /\ UNCHANGED <<queue, m_state, m_localMqHandle, descriptors, writing,
                 m_connected, m_connectMtx, m_remoteMqHandle, pc, using>>

CloseHandle ==
  /\ \/ /\ deactivator = "closeRemote"
        /\ closeMq(m_remoteMqHandle)
        /\ deactivator' = "closeLocal"
     \/ /\ deactivator = "closeLocal"
        /\ closeMq(m_localMqHandle)
        /\ deactivator' = "join"
  /\ UNCHANGED <<queue, listening, writing, m_connected, m_connectMtx, m_remoteMqHandle, pc,
                 using>>

JoinListener ==
  /\ deactivator = "join"
  /\ pc["listener"] = "exited"
  /\ deactivator' = "delete"
  /\ UNCHANGED <<queue, listening, descriptors, writing, m_connected, m_connectMtx,
                 m_remoteMqHandle, pc, using>>

\* delete m_toMqMessageQueue: stop it and wait for its worker.
DeleteQueue ==
  /\ \/ deactivator = "delete" /\ Queue!Stop /\ deactivator' = "stopped"
     \/ deactivator = "stopped" /\ Queue!Close /\ deactivator' = "done"
  /\ UNCHANGED <<listening, descriptors, writing, m_connected, m_connectMtx,
                 m_remoteMqHandle, pc, using, pushed>>

-----------------------------------------------------------------------------
Listener == ListenOpen \/ ListenNever \/ ListenRead \/ ListenBroken \/ sendTo("listener")

Worker == Take \/ sendTo("worker")

Next ==
  \/ ForeignOpen
  \/ sendMessage
  \/ Worker
  \/ Listener
  \/ ListenCancelled
  \/ Deactivate \/ CloseHandle \/ JoinListener \/ DeleteQueue

Spec == Init /\ [][Next]_vars

\* Threads that can run do run, a cancelled thread ends, mq_send returns
\* (the remote side reads its queue); nobody has to call the service, and
\* nothing has to arrive or fail.
Fairness ==
  /\ WF_vars(Worker)
  /\ WF_vars(sendTo("listener"))
  /\ WF_vars(ListenCancelled)
  /\ WF_vars(CloseHandle)
  /\ WF_vars(JoinListener)
  /\ WF_vars(DeleteQueue)

FairSpec == Spec /\ Fairness

-----------------------------------------------------------------------------
(* Correctness.                                                            *)

\* Messages reach the remote queue in the order sendMessage() was called and
\* none of them twice, whatever reconnects and failures there are.
WrittenInOrder == \A i, j \in 1..Len(written) : i < j => written[i] < written[j]

\* What reaches the remote queue is what sendMessage() pushed, in that order and
\* at most once; a message is lost when its channel is found broken.
Channel == INSTANCE LossyChannel WITH accepted <- pushed, sent <- written
ImplementsChannel == Channel!Spec

\* Until deactivate() begins, the open descriptors of the service are the
\* ones its two handles name, but for a local queue that was replaced, and
\* outside connect() a handle that is not invalid is open: reconnecting leaks
\* no channel and closes none twice, so that no descriptor of another
\* component is ever closed.
HandlesOwned ==
  /\ TypeOK
  /\ deactivator = "idle" =>
       /\ own \subseteq {m_localMqHandle, m_remoteMqHandle} \cup replaced
       /\ m_connectMtx = "free" => m_remoteMqHandle \in own \cup {Invalid}
       /\ ~closedForeign

\* A message is written to a handle that is not the service's any more only
\* after the listen thread has sent too, or once deactivate() has begun.
CrossedCause ==
  crossed =>
    \/ m_localMqHandle # Invalid /\ pc["listener"] # "read"
    \/ deactivator # "idle"

\* Every message pushed is handed to the remote queue or given up, unless the
\* service is deactivated.
PushedIsFinished ==
  \A n \in 1..MaxMessages :
    (pushed >= n) ~> (Len(finished) >= n \/ deactivator # "idle")

\* deactivate() returns, wherever the cancelled listen thread was: it cannot
\* take m_connectMtx with it.
DeactivateReturns == (deactivator = "closeRemote") ~> (deactivator = "done")
=============================================================================
