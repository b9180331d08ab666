------------------------ MODULE MqMessageServiceProofs ------------------------
(***************************************************************************)
(* Theorems about MqMessageService, for any descriptors and any numbers of *)
(* messages and of descriptors that other components open.                 *)
(***************************************************************************)
EXTENDS MqMessageService, SequenceTheorems, TLAPS

\* The worker has a message exactly while it is in sendTo(); the thread that has
\* m_connectMtx is in the middle of connect(); the listen thread begins without
\* a local queue, and ends if it cannot open it.
PlaceInv ==
  /\ pc["worker"] \in {"idle", "check", "lock", "open", "load", "send", "mark"}
  /\ pc["listener"] # "idle"
  /\ pc["worker"] = "idle" <=> current = 0
  /\ \A t \in Threads : pc[t] = "open" <=> m_connectMtx = t
  /\ pc["listener"] = "start" => m_localMqHandle = Invalid
  /\ m_localMqHandle = Invalid /\ deactivator = "idle" => pc["listener"] \in {"start", "exited"}

\* Messages wait in the order of their numbers, behind the one in work, and those
\* written are older than all of these.
OrderInv ==
  /\ \A i, j \in 1..Len(waiting) : i < j => waiting[i] < waiting[j]
  /\ \A i \in 1..Len(waiting) : waiting[i] <= pushed /\ current < waiting[i]
  /\ current <= pushed
  /\ \A i \in 1..Len(written) :
       /\ written[i] <= pushed
       /\ current # 0 => written[i] < current
       /\ \A j \in 1..Len(waiting) : written[i] < waiting[j]
  /\ WrittenInOrder

\* While a thread is between closing and opening the remote handle, all that is open
\* belongs to the local queue.
OwnInv ==
  deactivator = "idle" =>
    /\ own \subseteq {m_localMqHandle, m_remoteMqHandle} \cup replaced
    /\ m_connectMtx = "free" => m_remoteMqHandle \in own \cup {Invalid}
    /\ m_connectMtx # "free" => own \subseteq {m_localMqHandle} \cup replaced
    /\ ~closedForeign

\* Until the listen thread sends, the worker writes to a handle that is open.
CrossedInv ==
  deactivator = "idle" /\ (m_localMqHandle = Invalid \/ pc["listener"] = "read") =>
    /\ ~crossed
    /\ pc["worker"] = "send" => using["worker"] \in own \cup {Invalid}

IInv == TypeOK /\ PlaceInv /\ OrderInv /\ OwnInv /\ CrossedInv

-----------------------------------------------------------------------------

\* Initially nothing was pushed and nothing is open.
LEMMA InitIInv == Init => IInv
<1> SUFFICES ASSUME Init PROVE IInv
  OBVIOUS
<1>1. /\ waiting = <<>> /\ current = 0 /\ finished = <<>>
      /\ stopped = FALSE /\ closed = FALSE
  BY DEF Init, Queue!Init
<1>2. /\ waiting \in Seq(1..MaxMessages) /\ finished \in Seq(1..MaxMessages)
      /\ written \in Seq(1..MaxMessages)
      /\ current \in 0..MaxMessages /\ pushed \in 0..MaxMessages /\ opens \in 0..MaxForeign
  BY <1>1, MqMessageAssumption DEF Init
<1>3. /\ pc \in [Threads -> Places] /\ using \in [Threads -> Handles]
      /\ pc["worker"] = "idle" /\ pc["listener"] = "start"
  BY DEF Init, Threads, Places, Handles
<1>4. TypeOK
  BY <1>1, <1>2, <1>3, Zenon DEF Init, TypeOK, Handles
<1>5. PlaceInv
  BY <1>1, <1>3 DEF Init, PlaceInv, Threads
<1>6. OrderInv
  BY <1>1 DEF Init, OrderInv, WrittenInOrder
<1>7. OwnInv /\ CrossedInv
  BY <1>3 DEF Init, OwnInv, CrossedInv
<1> QED
  BY <1>4, <1>5, <1>6, <1>7 DEF IInv

\* What closing a descriptor does to those that are open.
LEMMA CloseTyped ==
  ASSUME TypeOK, NEW h \in Handles, closeMq(h)
  PROVE  /\ own' \in SUBSET Descriptors /\ replaced' \in SUBSET own'
         /\ foreign' \in SUBSET Descriptors /\ own' \cap foreign' = {}
         /\ opens' \in 0..MaxForeign /\ closedForeign' \in BOOLEAN
BY DEF TypeOK, closeMq

\* What opening the local queue does to them.
LEMMA OpenReadTyped ==
  ASSUME TypeOK, openMqRead, UNCHANGED foreign
  PROVE  /\ own' \in SUBSET Descriptors /\ replaced' \in SUBSET own'
         /\ own' \cap foreign' = {} /\ m_localMqHandle' \in Handles
         /\ own \subseteq own' /\ own' \subseteq own \cup {m_localMqHandle'} \cup replaced'
         /\ replaced \subseteq replaced'
<1> USE MqMessageAssumption DEF TypeOK, Free, Handles
<1>1. CASE m_localMqHandle' = Invalid /\ UNCHANGED <<own, replaced>>
  BY <1>1
<1>2. ASSUME NEW h \in Free, m_localMqHandle' = h, own' = own \cup {h}, UNCHANGED replaced
      PROVE  /\ own' \in SUBSET Descriptors /\ replaced' \in SUBSET own'
             /\ own' \cap foreign' = {} /\ m_localMqHandle' \in Handles
             /\ own \subseteq own' /\ own' \subseteq own \cup {m_localMqHandle'} \cup replaced'
             /\ replaced \subseteq replaced'
  BY <1>2
<1>3. ASSUME NEW old \in Free, NEW h \in Handles, h \in (Free \ {old}) \cup {Invalid},
             m_localMqHandle' = h, own' = own \cup ({old, h} \ {Invalid}),
             replaced' = replaced \cup {old}
      PROVE  /\ own' \in SUBSET Descriptors /\ replaced' \in SUBSET own'
             /\ own' \cap foreign' = {} /\ m_localMqHandle' \in Handles
             /\ own \subseteq own' /\ own' \subseteq own \cup {m_localMqHandle'} \cup replaced'
             /\ replaced \subseteq replaced'
  BY <1>3
<1> QED
  BY <1>1, <1>2, <1>3, Zenon DEF openMqRead

\* The worker takes the first message, and the rest stays in order.
LEMMA TakeTyped ==
  ASSUME TypeOK, Queue!Take
  PROVE  /\ waiting # <<>> /\ current = 0
         /\ waiting' \in Seq(1..MaxMessages) /\ current' \in 1..MaxMessages
         /\ current' = waiting[1] /\ Len(waiting') = Len(waiting) - 1
         /\ \A n \in 1..Len(waiting') : waiting'[n] = waiting[n + 1]
BY MqMessageAssumption DEF TypeOK, Queue!Take

\* The end of sendTo().
LEMMA ReturnTyped ==
  ASSUME TypeOK, NEW t \in Threads, Return(t)
  PROVE  /\ pc' \in [Threads -> Places] /\ using' \in [Threads -> Handles]
         /\ current' \in 0..MaxMessages /\ finished' \in Seq(1..MaxMessages)
         /\ m_runListenThread' \in BOOLEAN /\ m_state' \in BOOLEAN
         /\ UNCHANGED <<waiting, stopped, closed>>
         /\ t = "worker" => /\ current # 0 /\ current' = 0
                            /\ pc'["worker"] = "idle" /\ pc'["listener"] = pc["listener"]
         /\ t = "listener" => /\ current' = current
                              /\ pc'["listener"] = "exited" /\ pc'["worker"] = pc["worker"]
<1>1. CASE t = "worker"
  <2>1. /\ current # 0 /\ current' = 0 /\ finished' = Append(finished, current)
        /\ UNCHANGED <<waiting, stopped, closed, m_runListenThread, m_state>>
        /\ pc' = [pc EXCEPT !["worker"] = "idle"]
        /\ using' = [using EXCEPT !["worker"] = Invalid]
    BY <1>1 DEF Return, Queue!Finish
  <2>2. finished' \in Seq(1..MaxMessages)
    BY <2>1, MqMessageAssumption DEF TypeOK
  <2> QED
    BY <1>1, <2>1, <2>2, MqMessageAssumption DEF TypeOK, Places, Threads, Handles
<1>2. CASE t = "listener"
  <2>1. /\ UNCHANGED <<waiting, current, finished, stopped, closed>>
        /\ m_runListenThread' = FALSE /\ m_state' = FALSE
        /\ pc' = [pc EXCEPT !["listener"] = "exited"]
        /\ using' = [using EXCEPT !["listener"] = Invalid]
    BY <1>2 DEF Return, Exit
  <2> QED
    BY <1>2, <2>1 DEF TypeOK, Places, Threads, Handles
<1> QED
  BY <1>1, <1>2 DEF Threads

-----------------------------------------------------------------------------

\* A step keeps the types.
LEMMA TypeStep == TypeOK /\ PlaceInv /\ [Next]_vars => TypeOK'
<1> SUFFICES ASSUME TypeOK, PlaceInv, [Next]_vars PROVE TypeOK'
  OBVIOUS
<1> USE MqMessageAssumption DEF queue, listening, descriptors, writing
<1>1. CASE ForeignOpen
  BY <1>1 DEF ForeignOpen, Free, TypeOK
<1>2. CASE sendMessage
  <2>1. waiting' = Append(waiting, pushed + 1) /\ pushed' = pushed + 1 /\ pushed + 1 \in 1..MaxMessages
        /\ UNCHANGED <<current, finished, stopped, closed>>
    BY <1>2 DEF sendMessage, Queue!Push, TypeOK
  <2>2. waiting' \in Seq(1..MaxMessages)
    BY <2>1 DEF TypeOK
  <2> QED
    BY <1>2, <2>1, <2>2 DEF sendMessage, TypeOK
<1>3. CASE Take
  <2>1. UNCHANGED <<finished, stopped, closed>> /\ pc' \in [Threads -> Places]
    BY <1>3 DEF Take, Queue!Take, TypeOK, Places
  <2> QED
    BY <1>3, <2>1, TakeTyped DEF Take, TypeOK
<1>4. CASE ListenOpen
  <2>1. /\ pc' \in [Threads -> Places]
        /\ m_runListenThread' \in BOOLEAN /\ m_state' \in BOOLEAN
    BY <1>4 DEF ListenOpen, Exit, TypeOK, Places
  <2> QED
    BY <1>4, <2>1, OpenReadTyped DEF ListenOpen, TypeOK
<1>5. CASE ListenNever \/ ListenRead
  BY <1>5 DEF ListenNever, ListenRead, Exit, TypeOK, Places
<1>6. CASE ListenBroken \/ ListenCancelled
  <2>1. pc' \in [Threads -> Places]
    BY <1>6 DEF ListenBroken, ListenCancelled, TypeOK, Places
  <2>2. m_connectMtx' \in Threads \cup {"free"}
    BY <1>6 DEF ListenBroken, ListenCancelled, TypeOK
  <2> QED
    BY <1>6, <2>1, <2>2 DEF ListenBroken, ListenCancelled, TypeOK
<1>7. ASSUME NEW t \in Threads, Check(t) \/ Load(t) \/ SendFailed(t) PROVE TypeOK'
  <2>1. CASE Check(t)
    <3>1. pc' \in [Threads -> Places]
      BY <2>1 DEF Check, TypeOK, Places
    <3> QED
      BY <2>1, <3>1 DEF Check, TypeOK
  <2>2. CASE Load(t)
    <3>1. pc' \in [Threads -> Places] /\ using' \in [Threads -> Handles]
      BY <2>2 DEF Load, TypeOK, Places
    <3> QED
      BY <2>2, <3>1 DEF Load, TypeOK
  <2>3. CASE SendFailed(t)
    <3>1. pc' \in [Threads -> Places] /\ crossed' \in BOOLEAN
      BY <2>3 DEF SendFailed, TypeOK, Places
    <3> QED
      BY <2>3, <3>1 DEF SendFailed, TypeOK
  <2> QED
    BY <1>7, <2>1, <2>2, <2>3
<1>8. ASSUME NEW t \in Threads, LockAndClose(t) PROVE TypeOK'
  <2>1. pc' \in [Threads -> Places] /\ closeMq(m_remoteMqHandle) /\ m_remoteMqHandle \in Handles
    BY <1>8 DEF LockAndClose, TypeOK, Places
  <2> QED
    BY <1>8, <2>1, CloseTyped DEF LockAndClose, TypeOK
<1>9. ASSUME NEW t \in Threads, OpenAndUnlock(t) PROVE TypeOK'
  <2>1. pc' \in [Threads -> Places] /\ m_connected' \in BOOLEAN
    BY <1>9 DEF OpenAndUnlock, TypeOK, Places
  <2>2. /\ own' \in SUBSET Descriptors /\ own \subseteq own' /\ own' \cap foreign = {}
        /\ m_remoteMqHandle' \in Handles
    BY <1>9 DEF OpenAndUnlock, openMqWrite, Free, Handles, TypeOK
  <2> QED
    BY <1>9, <2>1, <2>2 DEF OpenAndUnlock, TypeOK
<1>10. ASSUME NEW t \in Threads, Sent(t) PROVE TypeOK'
  <2>1. t = "worker" => current # 0
    BY <1>10 DEF Sent, PlaceInv
  <2>2. written' \in Seq(1..MaxMessages)
    <3>1. CASE t = "worker"
      <4>1. written' = Append(written, current) /\ current \in 1..MaxMessages
        BY <1>10, <2>1, <3>1 DEF Sent, TypeOK
      <4> QED
        BY <4>1 DEF TypeOK
    <3>2. CASE t # "worker"
      BY <1>10, <3>2 DEF Sent, TypeOK
    <3> QED
      BY <3>1, <3>2
  <2> QED
    BY <1>10, <2>2, ReturnTyped DEF Sent, TypeOK
<1>11. ASSUME NEW t \in Threads, MarkBroken(t) PROVE TypeOK'
  BY <1>11, ReturnTyped DEF MarkBroken, TypeOK
<1>12. CASE Deactivate \/ JoinListener
  BY <1>12 DEF Deactivate, JoinListener, TypeOK
<1>13. CASE CloseHandle
  <2>1. PICK h \in Handles : closeMq(h)
    BY <1>13 DEF CloseHandle, TypeOK
  <2> QED
    BY <1>13, <2>1, CloseTyped DEF CloseHandle, TypeOK
<1>14. CASE DeleteQueue
  BY <1>14 DEF DeleteQueue, Queue!Stop, Queue!Close, TypeOK
<1>15. CASE UNCHANGED vars
  BY <1>15 DEF vars, TypeOK
<1> QED
  BY <1>1, <1>2, <1>3, <1>4, <1>5, <1>6, <1>7, <1>8, <1>9, <1>10, <1>11, <1>12, <1>13, <1>14, <1>15
     DEF Next, Worker, Listener, sendTo, Threads

\* Each thread stays within its own places, and the mutex goes with connect().
LEMMA PlaceStep == TypeOK /\ PlaceInv /\ [Next]_vars => PlaceInv'
<1> SUFFICES ASSUME TypeOK, PlaceInv, [Next]_vars PROVE PlaceInv'
  OBVIOUS
<1> USE DEF queue, listening, PlaceInv, Threads
<1>0. DOMAIN pc = {"worker", "listener"} /\ pc \in [{"worker", "listener"} -> Places]
  BY DEF TypeOK
<1>1. CASE ForeignOpen \/ sendMessage
  BY <1>1 DEF ForeignOpen, sendMessage, Queue!Push
<1>2. CASE Take
  <2>1. /\ pc' = [pc EXCEPT !["worker"] = "check"] /\ current' # 0 /\ pc["worker"] = "idle"
        /\ UNCHANGED <<m_connectMtx, m_localMqHandle, deactivator>>
    BY <1>2, TakeTyped, MqMessageAssumption DEF Take
  <2> QED
    BY <1>0, <2>1
<1>3. CASE ListenOpen
  <2>1. /\ pc["listener"] = "start" /\ UNCHANGED <<current, m_connectMtx, deactivator>>
        /\ \/ m_localMqHandle' = Invalid /\ pc' = [pc EXCEPT !["listener"] = "exited"]
           \/ m_localMqHandle' # Invalid /\ pc' = [pc EXCEPT !["listener"] = "read"]
    BY <1>3 DEF ListenOpen, Exit
  <2> QED
    BY <1>0, <2>1
<1>4. CASE ListenNever \/ ListenRead \/ ListenBroken
  <2>1. /\ pc["listener"] \in {"start", "read"}
        /\ UNCHANGED <<current, m_connectMtx, deactivator, m_localMqHandle>>
        /\ \/ pc' = [pc EXCEPT !["listener"] = "exited"]
           \/ pc["listener"] = "read" /\ pc' = [pc EXCEPT !["listener"] = "check"]
    BY <1>4 DEF ListenNever, ListenRead, ListenBroken, Exit
  <2> QED
    BY <1>0, <2>1
<1>5. CASE ListenCancelled
  BY <1>0, <1>5 DEF ListenCancelled
<1>6. ASSUME NEW t \in Threads, Check(t) \/ Load(t) \/ SendFailed(t) PROVE PlaceInv'
  <2>1. /\ UNCHANGED <<current, m_connectMtx, deactivator, m_localMqHandle>>
        /\ pc[t] \in {"check", "load", "send"}
        /\ \E place \in {"load", "lock", "send", "mark"} : pc' = [pc EXCEPT ![t] = place]
    BY <1>6 DEF Check, Load, SendFailed
  <2> QED
    BY <1>0, <2>1
<1>7. ASSUME NEW t \in Threads, LockAndClose(t) \/ OpenAndUnlock(t) PROVE PlaceInv'
  <2>1. UNCHANGED <<current, deactivator, m_localMqHandle>>
    BY <1>7 DEF LockAndClose, OpenAndUnlock
  <2>2. \/ /\ pc[t] = "lock" /\ m_connectMtx = "free"
           /\ m_connectMtx' = t /\ pc' = [pc EXCEPT ![t] = "open"]
        \/ /\ pc[t] = "open"
           /\ m_connectMtx' = "free" /\ pc' = [pc EXCEPT ![t] = "load"]
    BY <1>7 DEF LockAndClose, OpenAndUnlock
  <2> QED
    BY <1>0, <2>1, <2>2
<1>8. ASSUME NEW t \in Threads, Sent(t) \/ MarkBroken(t) PROVE PlaceInv'
  <2>1. /\ pc[t] \in {"send", "mark"} /\ Return(t)
        /\ UNCHANGED <<m_localMqHandle, m_connectMtx, deactivator>>
    BY <1>8 DEF Sent, MarkBroken
  <2>2. CASE t = "worker"
    BY <1>0, <2>1, <2>2, ReturnTyped
  <2>3. CASE t = "listener"
    BY <1>0, <2>1, <2>3, ReturnTyped
  <2> QED
    BY <2>2, <2>3
<1>9. CASE Deactivate \/ CloseHandle \/ JoinListener
  <2>1. /\ UNCHANGED <<pc, current, m_connectMtx, m_localMqHandle>> /\ deactivator' # "idle"
    BY <1>9 DEF Deactivate, CloseHandle, JoinListener
  <2> QED
    BY <2>1
<1>10. CASE DeleteQueue
  BY <1>10 DEF DeleteQueue, Queue!Stop, Queue!Close
<1>11. CASE UNCHANGED vars
  BY <1>11 DEF vars
<1> QED
  BY <1>1, <1>2, <1>3, <1>4, <1>5, <1>6, <1>7, <1>8, <1>9, <1>10, <1>11
     DEF Next, Worker, Listener, sendTo

\* A step that leaves the messages alone leaves their order alone.
LEMMA OrderKept ==
  ASSUME OrderInv, UNCHANGED <<waiting, written, pushed>>, current' \in {0, current},
         pushed \in Nat, current \in Nat, \A n \in 1..Len(waiting) : waiting[n] \in Nat
  PROVE  OrderInv'
<1>1. CASE current' = current
  BY <1>1 DEF OrderInv, WrittenInOrder
<1>2. CASE current' = 0
  <2>1. current' <= pushed /\ \A i \in 1..Len(waiting) : current' < waiting[i]
    BY <1>2 DEF OrderInv
  <2> QED
    BY <1>2, <2>1 DEF OrderInv, WrittenInOrder
<1> QED
  BY <1>1, <1>2

\* Messages go from pushed over waiting and current to written, oldest first.
LEMMA OrderStep == TypeOK /\ PlaceInv /\ OrderInv /\ [Next]_vars => OrderInv'
<1> SUFFICES ASSUME TypeOK, PlaceInv, OrderInv, [Next]_vars PROVE OrderInv'
  OBVIOUS
<1> USE DEF queue, listening, writing
<1>0. /\ pushed \in Nat /\ current \in Nat /\ waiting \in Seq(Nat) /\ written \in Seq(Nat)
      /\ Len(waiting) \in Nat /\ Len(written) \in Nat
      /\ \A n \in 1..Len(waiting) : waiting[n] \in Nat
      /\ \A n \in 1..Len(written) : written[n] \in Nat
  BY MqMessageAssumption DEF TypeOK
<1>1. CASE sendMessage
  <2>1. /\ waiting' = Append(waiting, pushed + 1) /\ pushed' = pushed + 1
        /\ UNCHANGED <<current, written>>
    BY <1>1 DEF sendMessage, Queue!Push
  <2>2. /\ Len(waiting') = Len(waiting) + 1 /\ waiting'[Len(waiting) + 1] = pushed + 1
        /\ \A n \in 1..Len(waiting) : waiting'[n] = waiting[n]
    BY <1>0, <2>1
  <2>3. \A i \in 1..Len(waiting') : i \in 1..Len(waiting) \/ i = Len(waiting) + 1
    BY <1>0, <2>2
  <2>4. \A i, j \in 1..Len(waiting') : i < j => waiting'[i] < waiting'[j]
    BY <1>0, <2>1, <2>2, <2>3 DEF OrderInv
  <2>5. \A i \in 1..Len(waiting') : waiting'[i] <= pushed' /\ current' < waiting'[i]
    BY <1>0, <2>1, <2>2, <2>3 DEF OrderInv
  <2>6. \A i \in 1..Len(written) : \A j \in 1..Len(waiting') : written[i] < waiting'[j]
    BY <1>0, <2>1, <2>2, <2>3 DEF OrderInv
  <2> QED
    BY <1>0, <2>1, <2>4, <2>5, <2>6 DEF OrderInv, WrittenInOrder
<1>2. CASE Take
  <2>1. /\ waiting # <<>> /\ current' = waiting[1] /\ Len(waiting') = Len(waiting) - 1
        /\ \A n \in 1..Len(waiting') : waiting'[n] = waiting[n + 1]
        /\ UNCHANGED <<written, pushed>> /\ 1 \in 1..Len(waiting)
    BY <1>0, <1>2, TakeTyped DEF Take
  <2>2. \A n \in 1..Len(waiting') : n + 1 \in 1..Len(waiting) /\ 1 < n + 1
    BY <1>0, <2>1
  <2>3. ASSUME NEW i \in 1..Len(waiting'), NEW j \in 1..Len(waiting'), i < j
        PROVE  waiting'[i] < waiting'[j]
    <3>1. i + 1 \in 1..Len(waiting) /\ j + 1 \in 1..Len(waiting) /\ i + 1 < j + 1
      BY <1>0, <2>1, <2>3
    <3>2. waiting[i + 1] < waiting[j + 1]
      BY <3>1 DEF OrderInv
    <3> QED
      BY <2>1, <3>2
  <2>4. \A i \in 1..Len(waiting') : waiting'[i] <= pushed' /\ current' < waiting'[i]
    BY <1>0, <2>1, <2>2 DEF OrderInv
  <2>5. \A i \in 1..Len(written) :
          written[i] < current' /\ \A j \in 1..Len(waiting') : written[i] < waiting'[j]
    BY <1>0, <2>1, <2>2 DEF OrderInv
  <2> QED
    BY <1>0, <2>1, <2>3, <2>4, <2>5 DEF OrderInv, WrittenInOrder
<1>3. CASE Sent("worker")
  <2>1. /\ written' = Append(written, current) /\ UNCHANGED <<waiting, pushed>>
        /\ current' = 0 /\ current # 0
    BY <1>3, ReturnTyped DEF Sent, Threads
  <2>2. /\ Len(written') = Len(written) + 1 /\ written'[Len(written) + 1] = current
        /\ \A n \in 1..Len(written) : written'[n] = written[n]
    BY <1>0, <2>1
  <2>3. \A i \in 1..Len(written') : i \in 1..Len(written) \/ i = Len(written) + 1
    BY <1>0, <2>2
  <2>4. \A i \in 1..Len(written') :
          written'[i] <= pushed /\ \A j \in 1..Len(waiting) : written'[i] < waiting[j]
    BY <1>0, <2>1, <2>2, <2>3 DEF OrderInv
  <2>5. \A i, j \in 1..Len(written') : i < j => written'[i] < written'[j]
    BY <1>0, <2>1, <2>2, <2>3 DEF OrderInv, WrittenInOrder
  <2> QED
    BY <1>0, <2>1, <2>4, <2>5 DEF OrderInv, WrittenInOrder
<1>4. CASE Sent("listener")
  BY <1>0, <1>4, OrderKept, ReturnTyped DEF Sent, Threads
<1>5. ASSUME NEW t \in Threads, MarkBroken(t) PROVE OrderInv'
  BY <1>0, <1>5, OrderKept, ReturnTyped DEF MarkBroken, Threads
<1>6. CASE ForeignOpen \/ ListenOpen \/ ListenNever \/ ListenRead \/ ListenBroken \/ ListenCancelled
  BY <1>0, <1>6, OrderKept
     DEF ForeignOpen, ListenOpen, ListenNever, ListenRead, ListenBroken, ListenCancelled
<1>7. ASSUME NEW t \in Threads,
             Check(t) \/ LockAndClose(t) \/ OpenAndUnlock(t) \/ Load(t) \/ SendFailed(t)
      PROVE OrderInv'
  BY <1>0, <1>7, OrderKept DEF Check, LockAndClose, OpenAndUnlock, Load, SendFailed
<1>8. CASE Deactivate \/ CloseHandle \/ JoinListener \/ DeleteQueue
  BY <1>0, <1>8, OrderKept
     DEF Deactivate, CloseHandle, JoinListener, DeleteQueue, Queue!Stop, Queue!Close
<1>9. CASE UNCHANGED vars
  BY <1>0, <1>9, OrderKept DEF vars
<1> QED
  BY <1>1, <1>2, <1>3, <1>4, <1>5, <1>6, <1>7, <1>8, <1>9
     DEF Next, Worker, Listener, sendTo, Threads

\* Reconnecting closes the descriptor of the handle before it opens another.
LEMMA OwnStep == TypeOK /\ PlaceInv /\ OwnInv /\ [Next]_vars => OwnInv'
<1> SUFFICES ASSUME TypeOK, PlaceInv, OwnInv, [Next]_vars, deactivator' = "idle" PROVE OwnInv'
  BY DEF OwnInv
<1> USE MqMessageAssumption DEF queue, listening, descriptors, writing
<1>0. Invalid \notin own /\ own \cap foreign = {} /\ Invalid \notin foreign
  BY DEF TypeOK
<1>1. CASE ForeignOpen
  BY <1>1 DEF ForeignOpen, OwnInv
<1>2. CASE ListenOpen
  <2>1. /\ openMqRead /\ UNCHANGED <<foreign, m_connectMtx, m_remoteMqHandle, closedForeign, deactivator>>
        /\ m_localMqHandle = Invalid
    BY <1>2 DEF ListenOpen, PlaceInv
  <2>2. /\ own \subseteq own' /\ own' \subseteq own \cup {m_localMqHandle'} \cup replaced'
        /\ replaced \subseteq replaced'
    BY <2>1, OpenReadTyped
  <2> QED
    BY <1>0, <2>1, <2>2 DEF OwnInv
<1>3. ASSUME NEW t \in Threads, LockAndClose(t) PROVE OwnInv'
  <2>1. /\ m_connectMtx = "free" /\ m_connectMtx' = t /\ t # "free"
        /\ own' = own \ {m_remoteMqHandle} /\ replaced' = replaced \ {m_remoteMqHandle}
        /\ closedForeign' = (closedForeign \/ m_remoteMqHandle \in foreign)
        /\ UNCHANGED <<m_localMqHandle, m_remoteMqHandle, deactivator>>
    BY <1>3 DEF LockAndClose, closeMq, Threads
  <2> QED
    BY <1>0, <2>1 DEF OwnInv
<1>4. ASSUME NEW t \in Threads, OpenAndUnlock(t) PROVE OwnInv'
  <2>1. /\ m_connectMtx # "free" /\ m_connectMtx' = "free"
        /\ UNCHANGED <<m_localMqHandle, replaced, closedForeign, deactivator>>
        /\ \/ m_remoteMqHandle' = Invalid /\ own' = own
           \/ own' = own \cup {m_remoteMqHandle'}
    BY <1>4 DEF OpenAndUnlock, openMqWrite, PlaceInv, Threads
  <2> QED
    BY <2>1 DEF OwnInv
<1>5. CASE UNCHANGED <<own, replaced, m_localMqHandle, m_remoteMqHandle, m_connectMtx, closedForeign, deactivator>>
  BY <1>5 DEF OwnInv
<1>6. ASSUME sendMessage \/ Take \/ ListenNever \/ ListenRead \/ ListenBroken \/ UNCHANGED vars
      PROVE  UNCHANGED <<own, replaced, m_localMqHandle, m_remoteMqHandle, m_connectMtx, closedForeign, deactivator>>
  BY <1>6 DEF sendMessage, Take, ListenNever, ListenRead, ListenBroken, vars
<1>7. ASSUME NEW t \in Threads, Check(t) \/ Load(t) \/ Sent(t) \/ SendFailed(t) \/ MarkBroken(t)
      PROVE  UNCHANGED <<own, replaced, m_localMqHandle, m_remoteMqHandle, m_connectMtx, closedForeign, deactivator>>
  BY <1>7 DEF Check, Load, Sent, SendFailed, MarkBroken
<1>8. ~(ListenCancelled \/ Deactivate \/ CloseHandle \/ JoinListener \/ DeleteQueue)
  BY DEF ListenCancelled, Deactivate, CloseHandle, JoinListener, DeleteQueue
<1> QED
  BY <1>1, <1>2, <1>3, <1>4, <1>5, <1>6, <1>7, <1>8 DEF Next, Worker, Listener, sendTo, Threads

\* Until the listen thread is in sendTo(), nobody closes the handle the worker uses.
LEMMA CrossedStep == TypeOK /\ PlaceInv /\ OwnInv /\ CrossedInv /\ [Next]_vars => CrossedInv'
<1> SUFFICES ASSUME TypeOK, PlaceInv, OwnInv, CrossedInv, [Next]_vars, deactivator' = "idle",
                    m_localMqHandle' = Invalid \/ pc'["listener"] = "read"
             PROVE  /\ ~crossed'
                    /\ pc'["worker"] = "send" => using'["worker"] \in own' \cup {Invalid}
  BY Zenon DEF CrossedInv
<1> USE DEF queue, listening, descriptors, writing
<1>0. pc \in [{"worker", "listener"} -> Places] /\ using \in [{"worker", "listener"} -> Handles]
  BY DEF TypeOK, Threads
<1>1. CASE ForeignOpen \/ sendMessage \/ UNCHANGED vars
  BY <1>1 DEF ForeignOpen, sendMessage, vars, CrossedInv
<1>2. CASE Take
  BY <1>0, <1>2 DEF Take, CrossedInv
<1>3. CASE ListenOpen
  <2>1. /\ openMqRead /\ UNCHANGED <<foreign, crossed, using, deactivator>>
        /\ m_localMqHandle = Invalid /\ pc'["worker"] = pc["worker"]
    BY <1>0, <1>3 DEF ListenOpen, Exit, PlaceInv
  <2>2. own \subseteq own'
    BY <2>1, OpenReadTyped
  <2> QED
    BY <2>1, <2>2 DEF CrossedInv
<1>4. CASE ListenNever \/ ListenRead \/ ListenBroken
  <2>1. /\ UNCHANGED <<m_localMqHandle, own, crossed, using, deactivator>>
        /\ pc'["worker"] = pc["worker"] /\ pc'["listener"] # "read"
    BY <1>0, <1>4 DEF ListenNever, ListenRead, ListenBroken, Exit
  <2> QED
    BY <2>1 DEF CrossedInv
<1>5. ASSUME sendTo("listener") PROVE FALSE
  <2>1. /\ pc["listener"] \in {"check", "lock", "open", "load", "send", "mark"}
        /\ pc'["listener"] \in {"lock", "open", "load", "send", "mark", "exited"}
        /\ UNCHANGED <<m_localMqHandle, deactivator>>
    BY <1>0, <1>5, ReturnTyped
       DEF sendTo, Check, LockAndClose, OpenAndUnlock, Load, Sent, SendFailed, MarkBroken, Threads
  <2> QED
    BY <2>1 DEF PlaceInv
<1>6. ASSUME sendTo("worker")
      PROVE  /\ ~crossed'
             /\ pc'["worker"] = "send" => using'["worker"] \in own' \cup {Invalid}
  <2>1. UNCHANGED <<m_localMqHandle, deactivator>> /\ pc'["listener"] = pc["listener"]
    BY <1>0, <1>6, ReturnTyped
       DEF sendTo, Check, LockAndClose, OpenAndUnlock, Load, Sent, SendFailed, MarkBroken, Threads
  <2>2. /\ ~crossed
        /\ pc["worker"] = "send" => using["worker"] \in own \cup {Invalid}
        /\ pc["listener"] \in {"start", "exited", "read"}
    BY <2>1 DEF CrossedInv, PlaceInv
  <2>3. CASE Check("worker") \/ LockAndClose("worker") \/ OpenAndUnlock("worker")
    BY <1>0, <2>2, <2>3 DEF Check, LockAndClose, OpenAndUnlock
  <2>4. CASE Load("worker")
    <3>1. m_connectMtx = "free"
      BY <2>2, <2>4 DEF Load, PlaceInv, TypeOK, Threads
    <3> QED
      BY <1>0, <2>1, <2>2, <2>4, <3>1 DEF Load, OwnInv
  <2>5. CASE Sent("worker") \/ MarkBroken("worker")
    BY <2>2, <2>5, ReturnTyped DEF Sent, MarkBroken, Threads
  <2>6. CASE SendFailed("worker")
    BY <1>0, <2>2, <2>6 DEF SendFailed
  <2> QED
    BY <1>6, <2>3, <2>4, <2>5, <2>6 DEF sendTo
<1>7. ~(ListenCancelled \/ Deactivate \/ CloseHandle \/ JoinListener \/ DeleteQueue)
  BY DEF ListenCancelled, Deactivate, CloseHandle, JoinListener, DeleteQueue
<1> QED
  BY <1>1, <1>2, <1>3, <1>4, <1>5, <1>6, <1>7 DEF Next, Worker, Listener

-----------------------------------------------------------------------------

\* The invariant holds in every reachable state.
LEMMA Invariance == Spec => []IInv
<1>1. IInv /\ [Next]_vars => IInv'
  BY TypeStep, PlaceStep, OrderStep, OwnStep, CrossedStep, Zenon DEF IInv
<1> QED
  BY InitIInv, <1>1, PTL DEF Spec

\* Reconnects and failures of sendTo() lose messages but never write one twice or
\* before an older one.
THEOREM WrittenInOrderHolds == Spec => []WrittenInOrder
<1>1. IInv => WrittenInOrder
  BY DEF IInv, OrderInv
<1> QED
  BY Invariance, <1>1, PTL

\* sendMessage() and what becomes of its messages implement the lossy channel.
THEOREM ImplementsChannelHolds == Spec => ImplementsChannel
<1>1. Init => Channel!Init
  BY DEF Init, Channel!Init
<1>2. IInv /\ [Next]_vars => [Channel!Next]_(Channel!vars)
  <2> SUFFICES ASSUME IInv, [Next]_vars PROVE [Channel!Next]_(Channel!vars)
    OBVIOUS
  <2> USE DEF queue, writing
  <2>1. CASE sendMessage
    BY <2>1 DEF sendMessage, Channel!Next, Channel!Accept
  <2>2. CASE Sent("worker")
    <3>1. written' = Append(written, current) /\ pushed' = pushed
      BY <2>2 DEF Sent
    <3>2. current # 0
      BY <2>2, ReturnTyped DEF Sent, IInv, Threads
    <3>3. current \in 1..pushed /\ \A i \in 1..Len(written) : written[i] < current
      BY <3>2, MqMessageAssumption DEF IInv, TypeOK, OrderInv
    <3> QED
      BY <3>1, <3>3 DEF Channel!Next, Channel!Send
  <2>3. CASE Sent("listener")
    BY <2>3 DEF Sent, Channel!vars
  <2>4. ASSUME NEW t \in Threads,
               \/ Check(t) \/ LockAndClose(t) \/ OpenAndUnlock(t) \/ Load(t)
               \/ SendFailed(t) \/ MarkBroken(t)
        PROVE  UNCHANGED Channel!vars
    BY <2>4 DEF Check, LockAndClose, OpenAndUnlock, Load, SendFailed, MarkBroken, Channel!vars
  <2>5. CASE \/ ForeignOpen \/ Take \/ ListenOpen \/ ListenNever \/ ListenRead \/ ListenBroken
             \/ ListenCancelled \/ Deactivate \/ CloseHandle \/ JoinListener \/ DeleteQueue
             \/ UNCHANGED vars
    BY <2>5 DEF ForeignOpen, Take, ListenOpen, ListenNever, ListenRead, ListenBroken,
                ListenCancelled, Deactivate, CloseHandle, JoinListener, DeleteQueue, vars,
                Channel!vars
  <2> QED
    BY <2>1, <2>2, <2>3, <2>4, <2>5 DEF Next, Worker, Listener, sendTo, Threads
<1> QED
  BY <1>1, <1>2, Invariance, PTL DEF Spec, ImplementsChannel, Channel!Spec

\* Until deactivate() begins, connect() leaks no channel and closes none that is not
\* the service's own.
THEOREM HandlesOwnedHolds == Spec => []HandlesOwned
<1>1. IInv => HandlesOwned
  BY Zenon DEF IInv, OwnInv, HandlesOwned
<1> QED
  BY Invariance, <1>1, PTL

\* Only a listen thread that calls sendTo(), or deactivate(), can close the handle
\* under the worker's mq_send().
THEOREM CrossedCauseHolds == Spec => []CrossedCause
<1>1. IInv => CrossedCause
  BY DEF IInv, CrossedInv, CrossedCause
<1> QED
  BY Invariance, <1>1, PTL

-----------------------------------------------------------------------------

InWork == IF current = 0 THEN 0 ELSE 1

\* What PushedIsFinished waits for is on its way: a message pushed is finished, in
\* work or waiting, each at the place its number gives it, and nothing that the
\* threads of sendTo() and deactivate() do to each other loses or repeats one.
NoneForgotten ==
  /\ Len(finished) + InWork + Len(waiting) = pushed
  /\ \A i \in 1..Len(finished) : finished[i] = i
  /\ current # 0 => current = Len(finished) + 1
  /\ \A i \in 1..Len(waiting) : waiting[i] = Len(finished) + InWork + i

\* A step of a message moves the count on by one place.
LEMMA CountStep == TypeOK /\ NoneForgotten /\ [Next]_vars => NoneForgotten'
<1> SUFFICES ASSUME TypeOK, NoneForgotten, [Next]_vars PROVE NoneForgotten'
  OBVIOUS
<1> USE DEF queue
<1>0. /\ pushed \in Nat /\ current \in Nat /\ waiting \in Seq(Nat) /\ finished \in Seq(Nat)
      /\ Len(waiting) \in Nat /\ Len(finished) \in Nat
  BY MqMessageAssumption DEF TypeOK
<1>1. CASE sendMessage
  <2>1. /\ waiting' = Append(waiting, pushed + 1) /\ pushed' = pushed + 1
        /\ UNCHANGED <<current, finished>>
    BY <1>1 DEF sendMessage, Queue!Push
  <2>2. /\ Len(waiting') = Len(waiting) + 1 /\ waiting'[Len(waiting) + 1] = pushed + 1
        /\ \A n \in 1..Len(waiting) : waiting'[n] = waiting[n]
        /\ \A n \in 1..Len(waiting') : n \in 1..Len(waiting) \/ n = Len(waiting) + 1
    BY <1>0, <2>1
  <2>3. InWork \in Nat /\ InWork' = InWork
    BY <2>1 DEF InWork
  <2>4. Len(finished) + InWork + (Len(waiting) + 1) = pushed + 1
    BY <1>0, <2>3 DEF NoneForgotten
  <2>5. \A i \in 1..Len(waiting') : waiting'[i] = Len(finished) + InWork + i
    BY <1>0, <2>2, <2>3, <2>4 DEF NoneForgotten
  <2> QED
    BY <2>1, <2>2, <2>3, <2>4, <2>5 DEF NoneForgotten
<1>2. CASE Take
  <2>1. /\ current = 0 /\ current' = waiting[1] /\ Len(waiting') = Len(waiting) - 1
        /\ \A n \in 1..Len(waiting') : waiting'[n] = waiting[n + 1]
        /\ UNCHANGED <<finished, pushed>> /\ 1 \in 1..Len(waiting)
    BY <1>0, <1>2, TakeTyped DEF Take, Queue!Take
  <2>2. InWork = 0
    BY <2>1 DEF InWork
  <2>3. current' = Len(finished) + 1 /\ InWork' = 1
    BY <1>0, <2>1, <2>2 DEF NoneForgotten, InWork
  <2>4. Len(finished) + 1 + Len(waiting') = pushed
    <3>1. Len(finished) + 0 + Len(waiting) = pushed
      BY <2>2 DEF NoneForgotten
    <3>2. Len(finished) \in Nat /\ Len(waiting) \in Nat /\ Len(waiting') = Len(waiting) - 1
      BY <1>0, <2>1
    <3> QED
      BY ONLY <3>1, <3>2
  <2>5. ASSUME NEW n \in 1..Len(waiting') PROVE waiting'[n] = Len(finished) + 1 + n
    <3>1. n + 1 \in 1..Len(waiting)
      BY <1>0, <2>1
    <3>2. waiting[n + 1] = Len(finished) + 0 + (n + 1)
      BY <2>2, <3>1 DEF NoneForgotten
    <3> QED
      BY <1>0, <2>1, <3>2
  <2>6. \A i \in 1..Len(waiting') : waiting'[i] = Len(finished) + InWork' + i
    BY <2>3, <2>5
  <2>7. Len(finished') + InWork' + Len(waiting') = pushed'
    BY <2>1, <2>3, <2>4
  <2> QED
    BY <2>1, <2>3, <2>6, <2>7 DEF NoneForgotten
<1>3. ASSUME UNCHANGED <<waiting, current, finished, pushed>> PROVE NoneForgotten'
  BY <1>3 DEF NoneForgotten, InWork
<1>4. ASSUME NEW t \in Threads, Return(t), pushed' = pushed PROVE NoneForgotten'
  <2>1. CASE t = "worker"
    <3>1. /\ current # 0 /\ current' = 0 /\ finished' = Append(finished, current)
          /\ waiting' = waiting
      BY <1>4, <2>1 DEF Return, Queue!Finish
    <3>2. /\ Len(finished') = Len(finished) + 1 /\ finished'[Len(finished) + 1] = current
          /\ \A n \in 1..Len(finished) : finished'[n] = finished[n]
          /\ \A n \in 1..Len(finished') : n \in 1..Len(finished) \/ n = Len(finished) + 1
      BY <1>0, <3>1
    <3>3. InWork = 1 /\ InWork' = 0
      BY <3>1 DEF InWork
    <3>4. Len(finished') + 0 + Len(waiting) = pushed
      BY <1>0, <3>2, <3>3 DEF NoneForgotten
    <3>5. \A i \in 1..Len(finished') : finished'[i] = i
      BY <1>0, <3>1, <3>2 DEF NoneForgotten
    <3>6. \A i \in 1..Len(waiting) : waiting[i] = Len(finished') + 0 + i
      BY <1>0, <3>2, <3>3 DEF NoneForgotten
    <3> QED
      BY <1>4, <3>1, <3>3, <3>4, <3>5, <3>6 DEF NoneForgotten
  <2>2. CASE t = "listener"
    BY <1>3, <1>4, <2>2 DEF Return
  <2> QED
    BY <2>1, <2>2 DEF Threads
<1>5. ASSUME NEW t \in Threads, sendTo(t) PROVE NoneForgotten'
  <2>1. CASE Sent(t) \/ MarkBroken(t)
    BY <1>4, <2>1 DEF Sent, MarkBroken
  <2>2. CASE Check(t) \/ LockAndClose(t) \/ OpenAndUnlock(t) \/ Load(t) \/ SendFailed(t)
    BY <1>3, <2>2 DEF Check, LockAndClose, OpenAndUnlock, Load, SendFailed
  <2> QED
    BY <1>5, <2>1, <2>2 DEF sendTo
<1>6. CASE ForeignOpen \/ ListenOpen \/ ListenNever \/ ListenRead \/ ListenBroken \/ ListenCancelled
  BY <1>3, <1>6 DEF ForeignOpen, ListenOpen, ListenNever, ListenRead, ListenBroken, ListenCancelled
<1>7. CASE Deactivate \/ CloseHandle \/ JoinListener \/ DeleteQueue
  BY <1>3, <1>7 DEF Deactivate, CloseHandle, JoinListener, DeleteQueue, Queue!Stop, Queue!Close
<1>8. CASE UNCHANGED vars
  BY <1>3, <1>8 DEF vars
<1> QED
  BY <1>1, <1>2, <1>5, <1>6, <1>7, <1>8 DEF Next, Worker, Listener, Threads

\* No message pushed is ever forgotten, handed on twice or overtaken.
THEOREM NoneForgottenHolds == Spec => []NoneForgotten
<1>1. Init => NoneForgotten
  BY DEF Init, Queue!Init, NoneForgotten, InWork
<1>2. IInv => TypeOK
  BY DEF IInv
<1> QED
  BY <1>1, <1>2, CountStep, Invariance, PTL DEF Spec

\* What DeactivateReturns waits for can only be a thread that goes on, and leaves
\* nothing behind: m_connectMtx is held by no other thread than one in the middle of
\* connect(), wherever the listen thread was cancelled; once the listen thread is
\* joined it has ended, and when deactivate() has returned nobody is in sendTo()
\* and no message is in work.
DeactivateEnds ==
  /\ \A t \in Threads : m_connectMtx = t => pc[t] = "open"
  /\ deactivator \in {"delete", "stopped", "done"} => pc["listener"] = "exited"
  /\ deactivator = "done" => pc["worker"] = "idle" /\ current = 0 /\ m_connectMtx = "free"

\* The queue is stopped, and later closed, by deactivate() alone.
EndInv ==
  /\ stopped <=> deactivator \in {"stopped", "done"}
  /\ deactivator \in {"delete", "stopped", "done"} => pc["listener"] = "exited"
  /\ deactivator = "done" => current = 0

\* The listen thread does not come back, and a stopped queue takes no message.
LEMMA EndStep == TypeOK /\ PlaceInv /\ EndInv /\ [Next]_vars => EndInv'
<1> SUFFICES ASSUME TypeOK, PlaceInv, EndInv, [Next]_vars PROVE EndInv'
  OBVIOUS
<1> USE DEF queue, EndInv
<1>0. DOMAIN pc = Threads /\ pc \in [Threads -> Places]
  BY DEF TypeOK
<1>1. CASE ForeignOpen \/ sendMessage
  BY <1>1 DEF ForeignOpen, sendMessage, Queue!Push
<1>2. CASE Take
  <2>1. ~stopped /\ pc'["listener"] = pc["listener"] /\ UNCHANGED <<stopped, deactivator>>
    BY <1>0, <1>2 DEF Take, Queue!Take, Threads
  <2> QED
    BY <2>1
<1>3. CASE ListenOpen \/ ListenNever \/ ListenRead \/ ListenBroken
  <2>1. pc["listener"] # "exited" /\ UNCHANGED <<stopped, deactivator, current>>
    BY <1>3 DEF ListenOpen, ListenNever, ListenRead, ListenBroken
  <2> QED
    BY <2>1
<1>4. CASE ListenCancelled
  BY <1>0, <1>4 DEF ListenCancelled, Threads
<1>5. CASE sendTo("listener")
  <2>1. pc["listener"] # "exited" /\ UNCHANGED <<stopped, deactivator, current>>
    BY <1>5, ReturnTyped
       DEF sendTo, Check, LockAndClose, OpenAndUnlock, Load, Sent, SendFailed, MarkBroken, Threads
  <2> QED
    BY <2>1
<1>6. CASE sendTo("worker")
  <2>1. /\ pc'["listener"] = pc["listener"] /\ UNCHANGED <<stopped, deactivator>>
        /\ current' \in {0, current}
    BY <1>0, <1>6, ReturnTyped
       DEF sendTo, Check, LockAndClose, OpenAndUnlock, Load, Sent, SendFailed, MarkBroken, Threads
  <2> QED
    BY <2>1
<1>7. CASE Deactivate \/ CloseHandle \/ JoinListener
  BY <1>7 DEF Deactivate, CloseHandle, JoinListener
<1>8. CASE DeleteQueue
  BY <1>8 DEF DeleteQueue, Queue!Stop, Queue!Close
<1>9. CASE UNCHANGED vars
  BY <1>9 DEF vars
<1> QED
  BY <1>1, <1>2, <1>3, <1>4, <1>5, <1>6, <1>7, <1>8, <1>9 DEF Next, Worker, Listener

\* deactivate() leaves no thread and no lock behind.
THEOREM DeactivateEndsHolds == Spec => []DeactivateEnds
<1>1. Init => EndInv
  BY DEF Init, Queue!Init, EndInv
<1>2. IInv => TypeOK /\ PlaceInv
  BY DEF IInv
<1>3. IInv /\ EndInv => DeactivateEnds
  BY DEF IInv, TypeOK, PlaceInv, EndInv, DeactivateEnds, Threads
<1> QED
  BY <1>1, <1>2, <1>3, EndStep, Invariance, PTL DEF Spec
=============================================================================
