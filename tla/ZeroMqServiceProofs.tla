------------------------- MODULE ZeroMqServiceProofs -------------------------
(***************************************************************************)
(* Theorems about ZeroMqService, for any clients, both socket types and    *)
(* any numbers of messages and requests.                                   *)
(***************************************************************************)
EXTENDS ZeroMqService, SequenceTheorems, TLAPS

\* Where the worker is about to send, waiting for something to send included.
Sending == {"evalSend", "blockSend", "parkedSend", "lockSend", "serve"}

\* m_mux is held where the worker says so, and only a reply socket receives.
MuxInv ==
  /\ muxHeld <=> worker \in Holding \/ (worker = "poll" /\ m_socketType = "req")
  /\ worker \in {"lockRecv", "recv", "lockAfter"} => m_socketType = "rep"
  /\ worker \in {"lockRecv", "recv"} => received < MaxRequests

\* A request socket may send wherever the worker is about to; if it may not at the
\* end of the inner loop it is given up there.
ReqInv ==
  m_socketType = "req" =>
    /\ worker \in Sending => sock = "ready"
    /\ worker = "after" => sock = "ready" \/ resetSocket

\* A reply socket may receive wherever the worker is about to, and owes a reply
\* from then until the reply is sent or, on a close, the socket is given up.
RepInv ==
  m_socketType = "rep" =>
    /\ worker \in {"poll", "lockRecv", "recv", "lockAfter"} => sock = "ready"
    /\ worker \in Sending => sock = "busy"
    /\ worker \in Sending /\ m_sendMessage => submitted = received
    /\ worker = "serve" /\ ~m_sendMessage => m_requireSocketState = "close" \/ ~m_runThd
    /\ worker = "after" => sock = "ready" \/ m_requireSocketState = "close" \/ ~m_runThd

\* The slot holds the newest message; what was sent is older than what is pending.
SlotInv ==
  /\ m_messageToSend = accepted
  /\ m_sendMessage => accepted > 0
  /\ \A i \in 1..Len(sent) : sent[i] <= accepted /\ (m_sendMessage => sent[i] < accepted)
  /\ SentOnceInOrder
  /\ "error" \notin Faults => NewestKept

IInv == TypeOK /\ MuxInv /\ ReqInv /\ RepInv /\ SlotInv

-----------------------------------------------------------------------------

\* Initially nothing is open and nothing was sent.
LEMMA InitIInv == Init => IInv
<1> SUFFICES ASSUME Init PROVE IInv
  OBVIOUS
<1>1. TypeOK
  <2>1. pc \in [Clients -> ClientStates]
    BY DEF Init, ClientStates
  <2>2. worker \in WorkerStates
    BY DEF Init, WorkerStates, Released
  <2>3. sent \in Seq(1..MaxMessages)
    BY DEF Init
  <2>4. {m_messageToSend, accepted} \subseteq 0..MaxMessages
        /\ {received, submitted} \subseteq 0..MaxRequests
    BY ZeroMqAssumption DEF Init
  <2> QED
    BY <2>1, <2>2, <2>3, <2>4, Zenon DEF Init, TypeOK
<1>2. MuxInv /\ ReqInv /\ RepInv
  BY DEF Init, MuxInv, ReqInv, RepInv, Holding, Sending
<1>3. SlotInv
  BY DEF Init, SlotInv, SentOnceInOrder, NewestKept
<1> QED
  BY <1>1, <1>2, <1>3 DEF IInv

\* A notification moves the worker only out of the wait it sleeps in.
LEMMA Notified ==
  ASSUME NotifyWorker
  PROVE  \/ worker' = worker
         \/ worker = "parkedOpen" /\ worker' = "lockOpen"
         \/ worker = "parkedSend" /\ worker' = "lockSend"
BY DEF NotifyWorker

\* A notification keeps the clients' places typed.
LEMMA ReadyTyped ==
  ASSUME pc \in [Clients -> ClientStates], NotifyReady
  PROVE  pc' \in [Clients -> ClientStates]
BY DEF NotifyReady, ClientStates

\* What giving the pending message to the socket does to the history.
LEMMA SendAppends ==
  ASSUME TypeOK, SlotInv, m_sendMessage, sent' = Append(sent, m_messageToSend),
         ~m_sendMessage', UNCHANGED slot
  PROVE  sent' \in Seq(1..MaxMessages) /\ SlotInv'
<1>1. /\ accepted \in Nat /\ accepted \in 1..MaxMessages
      /\ m_messageToSend = accepted /\ sent \in Seq(1..MaxMessages)
  BY ZeroMqAssumption DEF TypeOK, SlotInv
<1>2. sent' \in Seq(1..MaxMessages)
  BY <1>1
<1>3. /\ Len(sent) \in Nat
      /\ Len(sent') = Len(sent) + 1 /\ sent'[Len(sent) + 1] = accepted
      /\ \A j \in 1..Len(sent) : sent'[j] = sent[j]
  BY <1>1
<1>4. \A j \in 1..Len(sent) : sent[j] < accepted /\ sent[j] \in Nat
  <2>1. \A j \in 1..Len(sent) : sent[j] \in 1..MaxMessages
    BY <1>1, ElementOfSeq
  <2> QED
    BY <2>1 DEF SlotInv
<1>5. \A j \in 1..Len(sent') : sent'[j] <= accepted
  BY <1>1, <1>3, <1>4
<1>6. SentOnceInOrder'
  <2> SUFFICES ASSUME NEW a \in 1..Len(sent'), NEW b \in 1..Len(sent'), a < b
               PROVE  sent'[a] < sent'[b]
    BY DEF SentOnceInOrder
  <2>1. a \in 1..Len(sent)
    BY <1>3
  <2>2. CASE b = Len(sent) + 1
    BY <2>1, <2>2, <1>3, <1>4
  <2>3. CASE b # Len(sent) + 1
    <3>1. b \in 1..Len(sent)
      BY <2>3, <1>3
    <3> QED
      BY <3>1, <2>1, <1>3 DEF SlotInv, SentOnceInOrder
  <2> QED
    BY <2>2, <2>3
<1>7. NewestKept'
  <2>1. sent' # <<>> /\ sent'[Len(sent')] = accepted
    BY <1>1, <1>3
  <2> QED
    BY <2>1 DEF NewestKept, slot
<1> QED
  BY <1>1, <1>2, <1>5, <1>6, <1>7 DEF SlotInv, slot

\* A message that is accepted is newer than all that were sent.
LEMMA AcceptKeeps ==
  ASSUME TypeOK, SlotInv, NEW c \in Clients, sendMessage(c)
  PROVE  SlotInv' /\ accepted' \in 0..MaxMessages /\ m_messageToSend' \in 0..MaxMessages
<1>1. /\ accepted \in Nat /\ accepted' = accepted + 1 /\ m_messageToSend' = accepted'
      /\ m_sendMessage' /\ sent' = sent /\ accepted' \in 0..MaxMessages
  BY ZeroMqAssumption DEF TypeOK, sendMessage
<1>2. \A j \in 1..Len(sent) : sent[j] \in Nat /\ sent[j] < accepted'
  <2>1. \A j \in 1..Len(sent) : sent[j] \in 1..MaxMessages
    BY ElementOfSeq DEF TypeOK
  <2> QED
    BY <1>1, <2>1 DEF SlotInv
<1>3. SentOnceInOrder'
  BY <1>1 DEF SlotInv, SentOnceInOrder
<1>4. NewestKept'
  BY <1>1 DEF NewestKept
<1> QED
  BY <1>1, <1>2, <1>3, <1>4 DEF SlotInv

\* A step that leaves the slot and the history alone keeps what relates them.
LEMMA SlotKept ==
  ASSUME SlotInv, UNCHANGED <<slot, m_sendMessage, m_socketType, sent>>
  PROVE  SlotInv'
BY DEF SlotInv, SentOnceInOrder, NewestKept, slot

\* A step of the worker keeps m_mux where it says.
LEMMA GotoTyped ==
  ASSUME NEW w \in WorkerStates, Goto(w), UNCHANGED m_socketType
  PROVE  /\ worker' = w /\ muxHeld' \in BOOLEAN
         /\ muxHeld' <=> worker' \in Holding \/ (worker' = "poll" /\ m_socketType' = "req")
BY DEF Goto

-----------------------------------------------------------------------------

\* A step of a client or of deactivate() keeps the invariant.
LEMMA CallerStep ==
  ASSUME IInv,
         \/ \E c \in Clients : Client(c)
         \/ Deactivate \/ DeactivateNotify \/ DeactivateJoin \/ SpuriousWakeup
  PROVE  IInv'
<1> USE DEF threads, flags, api
<1>0. TypeOK /\ MuxInv /\ ReqInv /\ RepInv /\ SlotInv
  BY DEF IInv
<1>1. ASSUME NEW c \in Clients, sendMessage(c) PROVE IInv'
  <2>1. /\ submitted' = received /\ m_sendMessage' /\ received' = received
        /\ UNCHANGED <<m_requireSocketState, m_runThd, m_socketType, m_socketOpened, muxHeld,
                       resetSocket, sock, pc, deactivator, sent>>
    BY <1>1 DEF sendMessage
  <2>2. NotifyWorker /\ ~muxHeld
    BY <1>1 DEF sendMessage
  <2>3. TypeOK'
    BY <1>0, <1>1, <2>1, <2>2, AcceptKeeps, Notified DEF TypeOK, WorkerStates, Released
  <2>4. MuxInv' /\ ReqInv' /\ RepInv'
    BY <1>0, <2>1, <2>2, Notified DEF MuxInv, ReqInv, RepInv, Holding, Sending
  <2> QED
    BY <1>0, <1>1, <2>3, <2>4, AcceptKeeps DEF IInv
<1>2. ASSUME NEW c \in Clients,
             NEW state \in {"open", "close"}, NEW check \in ClientStates, Require(c, state, check)
      PROVE  IInv'
  <2>1. Require(c, state, check)
    BY <1>2
  <2>2. /\ NotifyWorker /\ ~muxHeld /\ m_requireSocketState' = state
        /\ UNCHANGED <<m_runThd, m_socketType, m_sendMessage, slot, muxHeld, resetSocket, sock,
                       sent, received>>
    BY <2>1 DEF Require
  <2>3. TypeOK'
    <3>1. pc' \in [Clients -> ClientStates]
      BY <1>0, <2>1 DEF Require, Required, TypeOK
    <3> QED
      BY <1>0, <2>1, <3>1, Notified DEF Require, Required, TypeOK, slot, WorkerStates, Released
  <2>4. MuxInv' /\ ReqInv' /\ RepInv'
    BY <1>0, <2>2, Notified DEF MuxInv, ReqInv, RepInv, Holding, Sending, slot
  <2> QED
    BY <1>0, <2>2, <2>3, <2>4, SlotKept DEF IInv
<1>3. ASSUME NEW c \in Clients,
             AwaitReady(c) \/ Required(c, "open", "openReturn") \/ Required(c, "close", "closeReturn")
      PROVE  IInv'
  <2>1. pc' \in [Clients -> ClientStates]
    BY <1>0, <1>3 DEF AwaitReady, Required, TypeOK, ClientStates
  <2>2. UNCHANGED <<api, flags, muxHeld, worker, resetSocket, sock, deactivator, sent, received>>
    BY <1>3 DEF AwaitReady, Required
  <2>3. TypeOK'
    BY <1>0, <2>1, <2>2 DEF TypeOK, slot
  <2> QED
    BY <1>0, <2>2, <2>3, SlotKept DEF IInv, MuxInv, ReqInv, RepInv, slot
<1>4. CASE Deactivate
  <2>1. TypeOK'
    BY <1>0, <1>4 DEF Deactivate, TypeOK, slot
  <2>2. MuxInv' /\ ReqInv' /\ RepInv'
    BY <1>0, <1>4 DEF Deactivate, MuxInv, ReqInv, RepInv, slot
  <2> QED
    BY <1>0, <1>4, <2>1, <2>2, SlotKept DEF Deactivate, IInv
<1>5. CASE DeactivateNotify \/ SpuriousWakeup
  <2>1. /\ NotifyWorker /\ deactivator' \in {deactivator, "join"}
        /\ UNCHANGED <<api, flags, muxHeld, resetSocket, sock, pc, sent, received>>
    BY <1>5 DEF DeactivateNotify, SpuriousWakeup
  <2>2. TypeOK'
    BY <1>0, <2>1, Notified DEF TypeOK, slot, WorkerStates, Released
  <2>3. MuxInv' /\ ReqInv' /\ RepInv'
    BY <1>0, <2>1, Notified DEF MuxInv, ReqInv, RepInv, Holding, Sending, slot
  <2> QED
    BY <1>0, <2>1, <2>2, <2>3, SlotKept DEF IInv
<1>6. CASE DeactivateJoin
  <2>1. TypeOK'
    BY <1>0, <1>6 DEF DeactivateJoin, TypeOK, slot
  <2> QED
    BY <1>0, <1>6, <2>1, SlotKept DEF DeactivateJoin, IInv, MuxInv, ReqInv, RepInv, slot
<1>7. ASSUME NEW c \in Clients, open(c) \/ close(c) PROVE IInv'
  <2>1. {"openCheck", "closeCheck"} \subseteq ClientStates
    BY DEF ClientStates
  <2> QED
    BY <1>2, <1>3, <1>7, <2>1 DEF open, close
<1> QED
  BY <1>1, <1>3, <1>4, <1>5, <1>6, <1>7 DEF Client

-----------------------------------------------------------------------------

\* A step of the worker that waits, polls or locks keeps the invariant.
LEMMA WaitingStep ==
  ASSUME IInv,
         \/ OuterLoop \/ WaitOpen \/ WaitSend \/ Block \/ PollRep \/ RelockRep
         \/ ReplyArrived \/ ReplyTimeout
  PROVE  IInv'
<1> USE DEF threads, flags, api
<1>0. TypeOK /\ MuxInv /\ ReqInv /\ RepInv /\ SlotInv
  BY DEF IInv
<1>1. UNCHANGED <<api, flags, threads, sent, received>>
  BY DEF OuterLoop, WaitOpen, WaitSend, Block, PollRep, RelockRep, ReplyArrived, ReplyTimeout
<1>2. PICK w \in WorkerStates : Goto(w)
  BY DEF OuterLoop, WaitOpen, WaitSend, Block, PollRep, RelockRep, ReplyArrived, ReplyTimeout,
     WorkerStates, Holding, Released
<1>3. resetSocket' \in BOOLEAN /\ sock' \in {"none", "ready", "busy"}
  BY <1>0 DEF OuterLoop, WaitOpen, WaitSend, Block, PollRep, RelockRep, ReplyArrived, ReplyTimeout,
     TypeOK
<1>4. TypeOK'
  BY <1>0, <1>1, <1>2, <1>3, GotoTyped DEF TypeOK, slot
<1>5. MuxInv'
  <2>1. worker' \in {"lockRecv", "recv", "lockAfter"} => m_socketType = "rep"
    BY <1>0, <1>2 DEF OuterLoop, WaitOpen, WaitSend, Block, PollRep, RelockRep, ReplyArrived,
       ReplyTimeout, Goto, MuxInv
  <2>2. worker' \in {"lockRecv", "recv"} => received < MaxRequests
    BY <1>0, <1>2 DEF OuterLoop, WaitOpen, WaitSend, Block, PollRep, RelockRep, ReplyArrived,
       ReplyTimeout, Goto, MuxInv
  <2> QED
    BY <1>1, <1>2, <2>1, <2>2, GotoTyped DEF MuxInv
<1>6. ReqInv' /\ RepInv'
  <2>1. CASE OuterLoop \/ WaitOpen
    BY <1>1, <2>1 DEF OuterLoop, WaitOpen, Goto, ReqInv, RepInv, Sending
  <2>2. CASE WaitSend \/ Block
    <3>1. worker = "blockOpen" => worker' = "parkedOpen"
      BY <2>2 DEF WaitSend, Block, Goto
    <3>2. worker # "blockOpen" => worker \in Sending /\ worker' \in Sending
      BY <2>2 DEF WaitSend, Block, Goto, Sending
    <3>3. worker' = "serve" => SendWanted
      BY <2>2 DEF WaitSend, Block, Goto
    <3>4. UNCHANGED <<sock, resetSocket>>
      BY <2>2 DEF WaitSend, Block
    <3> QED
      BY <1>0, <1>1, <3>1, <3>2, <3>3, <3>4 DEF ReqInv, RepInv, Sending, SendWanted, slot
  <2>3. CASE PollRep \/ RelockRep
    BY <1>0, <1>1, <2>3 DEF PollRep, RelockRep, Goto, MuxInv, ReqInv, RepInv, Sending
  <2>4. CASE ReplyArrived \/ ReplyTimeout
    BY <1>1, <2>4 DEF ReplyArrived, ReplyTimeout, Goto, ReqInv, RepInv, Sending
  <2> QED
    BY <2>1, <2>2, <2>3, <2>4
<1> QED
  BY <1>0, <1>1, <1>4, <1>5, <1>6, SlotKept DEF IInv

\* A step of the worker that opens, serves or closes the socket keeps the invariant.
LEMMA SocketStep ==
  ASSUME IInv, OpenSocket \/ ServeReq \/ ServeRep \/ ReceiveRep \/ After \/ ZmqError
  PROVE  IInv'
<1> USE DEF threads, flags, api
<1>0. TypeOK /\ MuxInv /\ ReqInv /\ RepInv /\ SlotInv
  BY DEF IInv
<1>1. PICK w \in {"outer", "evalSend", "poll", "after"} : Goto(w)
  BY DEF OpenSocket, ServeReq, ServeRep, ReceiveRep, After, ZmqError
<1>2. /\ UNCHANGED <<m_requireSocketState, slot, m_runThd, m_socketType, deactivator>>
      /\ w \in WorkerStates
  BY <1>1 DEF OpenSocket, ServeReq, ServeRep, ReceiveRep, After, ZmqError, WorkerStates, Holding,
     Released
<1>3. MuxInv'
  BY <1>1, <1>2, GotoTyped DEF MuxInv
<1>4. CASE OpenSocket
  <2>1. /\ sock' = "ready" /\ ~resetSocket' /\ worker' \in {"evalSend", "poll"}
        /\ m_socketType = "rep" => worker' = "poll"
        /\ UNCHANGED <<m_sendMessage, sent, received>>
    BY <1>1, <1>4 DEF OpenSocket, Goto
  <2>2. TypeOK'
    BY <1>0, <1>1, <1>2, <1>4, <2>1, GotoTyped, ReadyTyped DEF OpenSocket, TypeOK, slot
  <2>3. ReqInv' /\ RepInv'
    BY <1>2, <2>1 DEF ReqInv, RepInv, Sending
  <2> QED
    BY <1>0, <1>2, <1>3, <2>1, <2>2, <2>3, SlotKept DEF IInv
<1>5. CASE (ServeReq \/ ServeRep) /\ m_sendMessage
  <2>1. /\ sent' = Append(sent, m_messageToSend) /\ ~m_sendMessage'
        /\ m_sendMessage' \in BOOLEAN
        /\ sock' \in {"ready", "busy"}
        /\ UNCHANGED <<m_socketOpened, resetSocket, pc, received>>
    BY <1>5 DEF ServeReq, ServeRep, Send
  <2>2. /\ m_socketType = "req" => worker' = "poll"
        /\ m_socketType = "rep" => worker' = "after" /\ sock' = "ready"
    BY <1>5 DEF ServeReq, ServeRep, Send, Goto
  <2>3. sent' \in Seq(1..MaxMessages) /\ SlotInv'
    BY <1>0, <1>2, <1>5, <2>1, SendAppends
  <2>4. TypeOK'
    BY <1>0, <1>1, <1>2, <2>1, <2>3, GotoTyped DEF TypeOK, slot
  <2>5. ReqInv' /\ RepInv'
    BY <1>2, <2>2 DEF ReqInv, RepInv, Sending
  <2> QED
    BY <1>3, <2>3, <2>4, <2>5 DEF IInv
<1>6. CASE (ServeReq \/ ServeRep) /\ ~m_sendMessage
  <2>1. /\ worker = "serve" /\ worker' = "after"
        /\ UNCHANGED <<m_sendMessage, sent, sock, m_socketOpened, resetSocket, pc, received>>
    BY <1>6 DEF ServeReq, ServeRep, Goto
  <2>2. TypeOK'
    BY <1>0, <1>1, <1>2, <2>1, GotoTyped DEF TypeOK, slot
  <2>3. ReqInv' /\ RepInv'
    BY <1>0, <1>2, <1>6, <2>1 DEF ReqInv, RepInv, Sending
  <2> QED
    BY <1>0, <1>2, <1>3, <2>1, <2>2, <2>3, SlotKept DEF IInv
<1>7. CASE ReceiveRep
  <2>1. /\ worker = "recv" /\ worker' = "evalSend" /\ m_socketType = "rep"
        /\ received < MaxRequests /\ received' = received + 1
        /\ sock' = "busy" /\ ~m_sendMessage' /\ m_sendMessage' \in BOOLEAN
        /\ UNCHANGED <<sent, m_socketOpened, resetSocket, pc>>
    BY <1>0, <1>7 DEF ReceiveRep, Goto, MuxInv
  <2>2. TypeOK'
    <3>1. received' \in 0..MaxRequests
      BY <1>0, <2>1, ZeroMqAssumption DEF TypeOK
    <3> QED
      BY <1>0, <1>1, <1>2, <2>1, <3>1, GotoTyped DEF TypeOK, slot
  <2>3. ReqInv' /\ RepInv'
    BY <1>2, <2>1 DEF ReqInv, RepInv, Sending
  <2>4. SlotInv'
    BY <1>0, <1>2, <2>1 DEF SlotInv, SentOnceInOrder, NewestKept, slot
  <2> QED
    BY <1>3, <2>2, <2>3, <2>4 DEF IInv
<1>8. CASE After
  <2>1. /\ worker = "after"
        /\ \/ worker' = "outer" /\ sock' = "none" /\ ~m_socketOpened' /\ m_socketOpened' \in BOOLEAN
           \/ /\ ~resetSocket /\ m_requireSocketState # "close" /\ m_runThd
              /\ worker' = (IF m_socketType = "req" THEN "evalSend" ELSE "poll")
              /\ UNCHANGED <<sock, m_socketOpened>>
        /\ UNCHANGED <<m_sendMessage, resetSocket, sent, received>>
    BY <1>8 DEF After, Goto
  <2>2. pc' \in [Clients -> ClientStates]
    BY <1>0, <1>8, ReadyTyped DEF After, TypeOK
  <2>3. TypeOK'
    BY <1>0, <1>1, <1>2, <2>1, <2>2, GotoTyped DEF TypeOK, slot
  <2>4. ReqInv' /\ RepInv'
    BY <1>0, <1>2, <2>1 DEF ReqInv, RepInv, Sending
  <2> QED
    BY <1>0, <1>2, <1>3, <2>1, <2>3, <2>4, SlotKept DEF IInv
<1>9. CASE ZmqError
  <2>1. /\ worker' = "outer" /\ sock' \in {"none", sock}
        /\ m_sendMessage' \in {m_sendMessage, FALSE} /\ (m_sendMessage' => m_sendMessage)
        /\ "error" \in Faults
        /\ UNCHANGED <<m_socketOpened, resetSocket, pc, sent, received>>
    BY <1>9 DEF ZmqError, Goto
  <2>2. TypeOK'
    BY <1>0, <1>1, <1>2, <2>1, GotoTyped DEF TypeOK, slot
  <2>3. ReqInv' /\ RepInv'
    BY <2>1 DEF ReqInv, RepInv, Sending
  <2>4. SlotInv'
    BY <1>0, <1>2, <2>1 DEF SlotInv, SentOnceInOrder, slot
  <2> QED
    BY <1>3, <2>2, <2>3, <2>4 DEF IInv
<1> QED
  BY <1>4, <1>5, <1>6, <1>7, <1>8, <1>9

\* The invariant holds in every state.
LEMMA Invariance == Spec => []IInv
<1>1. IInv /\ [Next]_vars => IInv'
  <2>1. IInv /\ Next => IInv'
    BY CallerStep, WaitingStep, SocketStep DEF Next, WorkerStep
  <2>2. ASSUME IInv, UNCHANGED vars PROVE IInv'
    <3>1. TypeOK'
      BY <2>2 DEF vars, IInv, TypeOK, slot, api, flags, threads
    <3> QED
      BY <2>2, <3>1, SlotKept DEF vars, IInv, MuxInv, ReqInv, RepInv, slot, api, flags, threads
  <2> QED
    BY <2>1, <2>2
<1> QED
  BY <1>1, InitIInv, PTL DEF Spec

-----------------------------------------------------------------------------

\* workerReq() and workerRep() use their sockets in turn, timeouts and errors
\* included, with any number of clients.
THEOREM InTurnHolds == Spec => []InTurn
<1>1. IInv => InTurn
  BY DEF IInv, MuxInv, ReqInv, RepInv, InTurn, Sending
<1> QED
  BY <1>1, Invariance, PTL

\* What sendMessage() accepted goes to the socket in that order and at most once.
THEOREM SentOnceInOrderHolds == Spec => []SentOnceInOrder
<1>1. IInv => SentOnceInOrder
  BY DEF IInv, SlotInv
<1> QED
  BY <1>1, Invariance, PTL

\* sendMessage() and what becomes of its messages implement the lossy channel.
THEOREM ImplementsChannelHolds == Spec => ImplementsChannel
<1>1. Init => Channel!Init
  BY DEF Init, Channel!Init
<1>2. IInv /\ [Next]_vars => [Channel!Next]_(Channel!vars)
  <2> SUFFICES ASSUME IInv, [Next]_vars PROVE [Channel!Next]_(Channel!vars)
    OBVIOUS
  <2> USE DEF api, slot, flags, threads
  <2>1. ASSUME NEW c \in Clients, sendMessage(c) PROVE Channel!Next
    BY <2>1 DEF sendMessage, Channel!Next, Channel!Accept
  <2>2. ASSUME NEW c \in Clients, open(c) \/ close(c) \/ AwaitReady(c)
        PROVE  UNCHANGED <<accepted, sent>>
    BY <2>2 DEF open, close, Require, Required, AwaitReady
  <2>3. CASE Deactivate \/ DeactivateNotify \/ DeactivateJoin \/ SpuriousWakeup \/ UNCHANGED vars
    BY <2>3 DEF Deactivate, DeactivateNotify, DeactivateJoin, SpuriousWakeup, vars, Channel!vars
  <2>4. CASE (ServeReq \/ ServeRep) /\ m_sendMessage
    <3>1. sent' = Append(sent, m_messageToSend) /\ accepted' = accepted
      BY <2>4 DEF ServeReq, ServeRep, Send
    <3>2. /\ m_messageToSend = accepted /\ accepted \in 1..accepted
          /\ \A i \in 1..Len(sent) : sent[i] < accepted
      BY <2>4, ZeroMqAssumption DEF IInv, TypeOK, SlotInv
    <3> QED
      BY <3>1, <3>2 DEF Channel!Next, Channel!Send
  <2>5. CASE (ServeReq \/ ServeRep) /\ ~m_sendMessage
    BY <2>5 DEF ServeReq, ServeRep, Channel!vars
  <2>6. CASE \/ OuterLoop \/ WaitOpen \/ WaitSend \/ Block \/ OpenSocket \/ ReplyArrived
             \/ ReplyTimeout \/ PollRep \/ RelockRep \/ ReceiveRep \/ After \/ ZmqError
    BY <2>6 DEF OuterLoop, WaitOpen, WaitSend, Block, OpenSocket, ReplyArrived, ReplyTimeout,
                PollRep, RelockRep, ReceiveRep, After, ZmqError, Channel!vars
  <2> QED
    BY <2>1, <2>2, <2>3, <2>4, <2>5, <2>6 DEF Next, Client, WorkerStep, Channel!vars
<1> QED
  BY <1>1, <1>2, Invariance, PTL DEF Spec, ImplementsChannel, Channel!Spec

\* workerRep() answers no request with a message that was pending before it.
THEOREM ReplyAfterRequestHolds == Spec => []ReplyAfterRequest
<1>1. IInv => ReplyAfterRequest
  BY DEF IInv, RepInv, ReplyAfterRequest, Sending
<1> QED
  BY <1>1, Invariance, PTL

\* Unless the library reports errors, the newest message of a request socket was
\* sent or waits in the slot; reply timeouts do not lose it.
THEOREM NewestKeptHolds == ASSUME "error" \notin Faults PROVE Spec => []NewestKept
<1>1. IInv => NewestKept
  BY DEF IInv, SlotInv
<1> QED
  BY <1>1, Invariance, PTL

-----------------------------------------------------------------------------
(* The notification of deactivate().                                       *)

\* From deactivate() on the flag that both waits of the worker look at is clear.
StopInv == deactivator # "idle" => ~m_runThd

LEMMA StopStep == StopInv /\ [Next]_vars => StopInv'
<1> SUFFICES ASSUME StopInv, [Next]_vars PROVE StopInv'
  OBVIOUS
<1> USE DEF StopInv, flags, threads
<1>1. CASE \E c \in Clients : Client(c)
  BY <1>1 DEF Client, sendMessage, open, close, Require, Required, AwaitReady
<1>2. CASE Deactivate \/ DeactivateNotify \/ DeactivateJoin \/ SpuriousWakeup \/ UNCHANGED vars
  BY <1>2 DEF Deactivate, DeactivateNotify, DeactivateJoin, SpuriousWakeup, vars
<1>3. CASE WorkerStep \/ ZmqError
  BY <1>3 DEF WorkerStep, ZmqError, OuterLoop, WaitOpen, WaitSend, Block, OpenSocket, ServeReq,
              ReplyArrived, ReplyTimeout, PollRep, RelockRep, ReceiveRep, ServeRep, After
<1> QED
  BY <1>1, <1>2, <1>3 DEF Next

\* Only the two waits take the worker to sleep, and only while m_runThd is set.
LEMMA FallsAsleep ==
  ASSUME [Next]_vars, worker' \in Asleep, worker \notin Asleep
  PROVE  m_runThd /\ deactivator' = deactivator
<1> USE DEF Asleep, flags, threads
<1>1. CASE \E c \in Clients : Client(c)
  BY <1>1, Notified DEF Client, sendMessage, open, close, Require, Required, AwaitReady
<1>2. CASE Deactivate \/ DeactivateNotify \/ DeactivateJoin \/ SpuriousWakeup \/ UNCHANGED vars
  BY <1>2, Notified DEF Deactivate, DeactivateNotify, DeactivateJoin, SpuriousWakeup, vars
<1>3. CASE WaitOpen \/ WaitSend
  BY <1>3 DEF WaitOpen, WaitSend, Goto, OpenWanted, SendWanted
<1>4. CASE (WorkerStep /\ ~WaitOpen /\ ~WaitSend) \/ ZmqError
  BY <1>4 DEF WorkerStep, ZmqError, OuterLoop, Block, OpenSocket, ServeReq, ReplyArrived,
              ReplyTimeout, PollRep, RelockRep, ReceiveRep, ServeRep, After, Goto
<1> QED
  BY <1>1, <1>2, <1>3, <1>4 DEF Next

\* deactivate() wakes the worker, or finds it awake for good, but for the one window
\* in which a notification without the mutex is lost.
THEOREM StopReachesHolds == Spec => StopReaches
<1> DEFINE Reaches ==
      /\ deactivator = "notify" /\ deactivator' = "join" /\ worker' \in Asleep =>
           worker \in {"blockOpen", "blockSend"}
      /\ deactivator = "join" /\ worker' \in Asleep => worker \in Asleep
<1>1. Init => StopInv
  BY DEF Init, StopInv
<1>2. ASSUME StopInv, [Next]_vars, deactivator = "notify", deactivator' = "join",
             worker' \in Asleep
      PROVE  worker \in {"blockOpen", "blockSend"}
  <2>1. DeactivateNotify
    <3>1. ~ \E c \in Clients : Client(c)
      BY <1>2 DEF Client, sendMessage, open, close, Require, Required, AwaitReady, Calling, threads
    <3>2. ~(Deactivate \/ DeactivateJoin \/ SpuriousWakeup \/ UNCHANGED vars)
      BY <1>2 DEF Deactivate, DeactivateJoin, SpuriousWakeup, vars, threads
    <3>3. ~(WorkerStep \/ ZmqError)
      BY <1>2 DEF WorkerStep, ZmqError, OuterLoop, WaitOpen, WaitSend, Block, OpenSocket, ServeReq,
                  ReplyArrived, ReplyTimeout, PollRep, RelockRep, ReceiveRep, ServeRep, After,
                  threads
    <3> QED
      BY <1>2, <3>1, <3>2, <3>3 DEF Next
  <2> QED
    BY <1>2, <2>1 DEF DeactivateNotify, NotifyWorker, Asleep
<1>3. ASSUME StopInv, [Next]_vars, deactivator = "join", worker' \in Asleep
      PROVE  worker \in Asleep
  BY <1>3, FallsAsleep DEF StopInv
<1>4. StopInv /\ [Next]_vars => [Reaches]_vars
  BY <1>2, <1>3
<1> QED
  BY <1>1, <1>4, StopStep, PTL DEF Spec, StopReaches

-----------------------------------------------------------------------------
(* One client that opens and closes.                                       *)

\* Where the worker has no socket, and will not make one unasked.
Closed == {"outer", "lockOpen", "blockOpen", "parkedOpen", "exited"}

\* While the client is in open() the flag it waits on says that there is a socket,
\* and in close() the flag, once clear, says that there is none, as long as the
\* worker makes no other.  When it waits for neither, what is required is done,
\* but for a socket that is replaced after a timeout, or given up by deactivate().
ReturnInv ==
  /\ m_runThd <=> deactivator = "idle"
  /\ worker = "opening" => m_requireSocketState = "open"
  /\ \A c \in Clients :
       /\ pc[c] # "idle" => m_runThd
       /\ pc[c] \in {"openCheck", "openParked", "openReturn"} => m_requireSocketState = "open"
       /\ pc[c] \in {"closeCheck", "closeParked", "closeReturn"} => m_requireSocketState = "close"
       /\ pc[c] \in {"openCheck", "openParked"} /\ m_socketOpened => sock # "none"
       /\ pc[c] \in {"closeCheck", "closeParked"} /\ ~m_socketOpened =>
            sock = "none" /\ worker \in Closed
       /\ pc[c] \in {"idle", "openReturn", "closeReturn"} =>
            IF m_requireSocketState = "open"
            THEN sock # "none" \/ resetSocket \/ ~m_runThd
            ELSE sock = "none" /\ worker \in Closed

\* The steps of the only client.
LEMMA ClientReturnStep ==
  ASSUME TypeOK, MuxInv, ReturnInv, \A c, d \in Clients : c = d, NEW c \in Clients, Client(c)
  PROVE  ReturnInv'
<1> USE DEF ReturnInv, flags, threads, Closed
<1>0. \A d \in Clients : d = c
  OBVIOUS
<1>1. CASE sendMessage(c)
  BY <1>1, Notified DEF sendMessage
<1>2. CASE Require(c, "open", "openCheck")
  BY <1>0, <1>2, Notified DEF Require, Calling, TypeOK, MuxInv, Holding
<1>3. CASE Require(c, "close", "closeCheck")
  BY <1>0, <1>3, Notified DEF Require, Calling, TypeOK, MuxInv, Holding
<1>4. CASE Required(c, "open", "openReturn") \/ Required(c, "close", "closeReturn")
  BY <1>0, <1>4 DEF Required, Calling, TypeOK, api
<1>5. CASE AwaitReady(c)
  BY <1>0, <1>5 DEF AwaitReady, Returning, TypeOK, api
<1> QED
  BY <1>1, <1>2, <1>3, <1>4, <1>5 DEF Client, open, close

\* The steps of deactivate(), of the worker and of nobody.
LEMMA OtherReturnStep ==
  ASSUME TypeOK, MuxInv, ReturnInv, "error" \notin Faults,
         \/ Deactivate \/ DeactivateNotify \/ DeactivateJoin \/ WorkerStep
         \/ SpuriousWakeup \/ ZmqError \/ UNCHANGED vars
  PROVE  ReturnInv'
<1> USE DEF TypeOK, ReturnInv, flags, threads, Goto, Closed, api
<1>1. CASE Deactivate \/ DeactivateJoin \/ UNCHANGED vars
  BY <1>1 DEF Deactivate, DeactivateJoin, vars
<1>2. CASE DeactivateNotify \/ SpuriousWakeup
  BY <1>2, Notified DEF DeactivateNotify, SpuriousWakeup
<1>3. CASE OuterLoop \/ WaitOpen \/ WaitSend \/ Block
  BY <1>3 DEF OuterLoop, WaitOpen, WaitSend, Block, OpenWanted
<1>4. CASE OpenSocket
  BY <1>4 DEF OpenSocket, NotifyReady
<1>5. CASE ServeReq \/ ServeRep
  BY <1>5 DEF ServeReq, ServeRep, Send
<1>6. CASE ReplyArrived \/ ReplyTimeout \/ PollRep \/ RelockRep \/ ReceiveRep
  BY <1>6 DEF ReplyArrived, ReplyTimeout, PollRep, RelockRep, ReceiveRep
<1>7. CASE After
  BY <1>7 DEF After, NotifyReady
<1>8. ~ZmqError
  BY DEF ZmqError
<1> QED
  BY <1>1, <1>2, <1>3, <1>4, <1>5, <1>6, <1>7, <1>8 DEF WorkerStep

\* If nobody else uses the service and the library reports no error, open() returns
\* to find the socket open and close() returns to find it closed; after a reply
\* timeout open() may return at once, while the socket is being replaced.
THEOREM DoneOnReturnHolds ==
  ASSUME "error" \notin Faults, \A c, d \in Clients : c = d
  PROVE  Spec => DoneOnReturn
<1>1. Init => ReturnInv
  BY DEF Init, ReturnInv, Closed
<1>2. TypeOK /\ MuxInv /\ ReturnInv /\ [Next]_vars => ReturnInv'
  <2> SUFFICES ASSUME TypeOK, MuxInv, ReturnInv, [Next]_vars PROVE ReturnInv'
    OBVIOUS
  <2>1. CASE \E c \in Clients : Client(c)
    BY <2>1, ClientReturnStep
  <2>2. CASE ~ \E c \in Clients : Client(c)
    BY <2>2, OtherReturnStep DEF Next
  <2> QED
    BY <2>1, <2>2
<1> DEFINE Done ==
      \A c \in Clients : pc'[c] = "idle" =>
        /\ pc[c] = "openCheck" => sock # "none"
        /\ pc[c] = "openReturn" => sock # "none" \/ resetSocket
        /\ pc[c] \in {"closeCheck", "closeReturn"} => sock = "none"
<1>3. ASSUME TypeOK, ReturnInv, [Next]_vars PROVE Done
  <2> SUFFICES ASSUME NEW c \in Clients, pc'[c] = "idle",
                      pc[c] \in Returning
               PROVE  AwaitReady(c)
    <3>1. pc \in [Clients -> ClientStates] /\ ReturnInv
      BY <1>3 DEF TypeOK
    <3> QED
      BY <3>1 DEF AwaitReady, ReturnInv, Returning
  <2>1. CASE \E d \in Clients : Client(d)
    BY <1>3, <2>1 DEF Client, sendMessage, open, close, Require, Required, Calling, threads, TypeOK,
       Returning
  <2>2. CASE Deactivate \/ DeactivateNotify \/ DeactivateJoin \/ SpuriousWakeup \/ UNCHANGED vars
    BY <2>2 DEF Deactivate, DeactivateNotify, DeactivateJoin, SpuriousWakeup, threads, vars,
       Returning
  <2>3. CASE WorkerStep \/ ZmqError
    BY <2>3 DEF WorkerStep, ZmqError, OuterLoop, WaitOpen, WaitSend, Block, OpenSocket, ServeReq,
                ReplyArrived, ReplyTimeout, PollRep, RelockRep, ReceiveRep, ServeRep, After,
                NotifyReady, threads, Returning
  <2> QED
    BY <1>3, <2>1, <2>2, <2>3 DEF Next
<1>4. TypeOK /\ ReturnInv /\ [Next]_vars => [Done]_vars
  BY <1>3
<1>5. IInv => TypeOK /\ MuxInv
  BY DEF IInv
<1> QED
  BY <1>1, <1>2, <1>4, <1>5, Invariance, PTL DEF Spec, DoneOnReturn

-----------------------------------------------------------------------------
(* The calls of the clients.                                               *)

\* No call is lost on the worker: while it sleeps, or is about to, nothing is
\* required that it would wake for, although a call may come at any moment between
\* the predicate and the sleep.  What it can miss is deactivate() only.
CallsHeard ==
  /\ worker \in {"blockOpen", "parkedOpen"} => m_requireSocketState = "close"
  /\ worker \in {"blockSend", "parkedSend"} => m_requireSocketState = "open" /\ ~m_sendMessage

\* A step preserves it, as the calls take the mutex that the worker keeps from its
\* predicate to its sleep.
LEMMA HeardStep == TypeOK /\ MuxInv /\ CallsHeard /\ [Next]_vars => CallsHeard'
<1> SUFFICES ASSUME TypeOK, MuxInv, CallsHeard, [Next]_vars PROVE CallsHeard'
  OBVIOUS
<1> USE DEF CallsHeard, flags, threads
<1>1. ASSUME NEW c \in Clients, Client(c) PROVE CallsHeard'
  <2>1. CASE sendMessage(c)
    BY <1>1, <2>1 DEF sendMessage, NotifyWorker, MuxInv, Holding
  <2>2. CASE Require(c, "open", "openCheck") \/ Require(c, "close", "closeCheck")
    BY <1>1, <2>2 DEF Require, NotifyWorker, MuxInv, Holding
  <2>3. CASE AwaitReady(c) \/ Required(c, "open", "openReturn") \/ Required(c, "close", "closeReturn")
    BY <2>3 DEF AwaitReady, Required, api
  <2> QED
    BY <1>1, <2>1, <2>2, <2>3 DEF Client, open, close
<1>2. CASE Deactivate \/ DeactivateNotify \/ DeactivateJoin \/ SpuriousWakeup \/ UNCHANGED vars
  BY <1>2, Notified DEF Deactivate, DeactivateNotify, DeactivateJoin, SpuriousWakeup, vars, api
<1>3. CASE WaitOpen \/ WaitSend \/ Block
  BY <1>3 DEF WaitOpen, WaitSend, Block, Goto, OpenWanted, SendWanted, TypeOK, api
<1>4. CASE (WorkerStep /\ ~WaitOpen /\ ~WaitSend /\ ~Block) \/ ZmqError
  BY <1>4 DEF WorkerStep, ZmqError, OuterLoop, OpenSocket, ServeReq, ReplyArrived,
              ReplyTimeout, PollRep, RelockRep, ReceiveRep, ServeRep, After, Goto
<1> QED
  BY <1>1, <1>2, <1>3, <1>4 DEF Next

\* open(), close() and sendMessage() are never lost on a worker that sleeps.
THEOREM CallsHeardHolds == Spec => []CallsHeard
<1>1. Init => CallsHeard
  BY DEF Init, CallsHeard
<1>2. IInv => TypeOK /\ MuxInv
  BY DEF IInv
<1> QED
  BY <1>1, <1>2, HeardStep, Invariance, PTL DEF Spec

\* Where the worker has no socket.
NoSocket == {"outer", "lockOpen", "blockOpen", "parkedOpen", "opening", "exited"}

\* What a client in open() or close() waits for is under way: it sleeps only while
\* its predicate is false, and then the worker is awake, knows what is required
\* and is at the place where it will do it.
CallsServed ==
  \A c \in Clients :
    /\ pc[c] = "openParked" => ~m_socketOpened
    /\ pc[c] = "closeParked" => m_socketOpened
    /\ pc[c] \in {"openCheck", "openParked"} /\ ~m_socketOpened =>
         m_requireSocketState = "open" /\ m_runThd /\ worker \in {"outer", "lockOpen", "opening"}
    /\ pc[c] \in {"closeCheck", "closeParked"} /\ m_socketOpened =>
         m_requireSocketState = "close" /\ worker \notin NoSocket \cup Asleep

\* The flag says where the worker is.  Between two calls of the only client it is
\* what the last one required, in a call it is not until the worker is there.
ServedInv ==
  /\ ~resetSocket
  /\ m_runThd <=> deactivator = "idle"
  /\ worker = "exited" => ~m_runThd
  /\ worker = "opening" => m_requireSocketState = "open" \/ ~m_runThd
  /\ m_socketOpened <=> worker \notin NoSocket
  /\ \A c \in Clients :
       /\ pc[c] \in {"idle", "openReturn", "closeReturn"} /\ m_runThd =>
            (m_socketOpened <=> m_requireSocketState = "open")
       /\ pc[c] # "idle" => m_runThd
       /\ pc[c] \in {"openCheck", "openParked"} => m_requireSocketState = "open"
       /\ pc[c] \in {"closeCheck", "closeParked"} => m_requireSocketState = "close"
       /\ pc[c] = "openParked" => ~m_socketOpened
       /\ pc[c] = "closeParked" => m_socketOpened

\* The steps of the only client.
LEMMA ClientServedStep ==
  ASSUME TypeOK, MuxInv, ServedInv, \A c, d \in Clients : c = d, NEW c \in Clients, Client(c)
  PROVE  ServedInv'
<1> USE DEF ServedInv, flags, threads, NoSocket
<1>0. \A d \in Clients : d = c
  OBVIOUS
<1>1. CASE sendMessage(c)
  BY <1>1, Notified DEF sendMessage
<1>2. CASE Require(c, "open", "openCheck")
  BY <1>0, <1>2, Notified DEF Require, Calling, TypeOK, MuxInv, Holding
<1>3. CASE Require(c, "close", "closeCheck")
  BY <1>0, <1>3, Notified DEF Require, Calling, TypeOK, MuxInv, Holding
<1>4. CASE Required(c, "open", "openReturn") \/ Required(c, "close", "closeReturn")
  BY <1>0, <1>4 DEF Required, Calling, TypeOK, api
<1>5. CASE AwaitReady(c)
  BY <1>0, <1>5 DEF AwaitReady, Returning, TypeOK, api
<1> QED
  BY <1>1, <1>2, <1>3, <1>4, <1>5 DEF Client, open, close

\* The steps of deactivate(), of the worker and of nobody.
LEMMA OtherServedStep ==
  ASSUME TypeOK, MuxInv, ServedInv, Faults = {},
         \/ Deactivate \/ DeactivateNotify \/ DeactivateJoin \/ WorkerStep
         \/ SpuriousWakeup \/ ZmqError \/ UNCHANGED vars
  PROVE  ServedInv'
<1> USE DEF TypeOK, ServedInv, flags, threads, Goto, NoSocket, api
<1>1. CASE Deactivate \/ DeactivateJoin \/ UNCHANGED vars
  BY <1>1 DEF Deactivate, DeactivateJoin, vars
<1>2. CASE DeactivateNotify \/ SpuriousWakeup
  BY <1>2, Notified DEF DeactivateNotify, SpuriousWakeup
<1>3. CASE OuterLoop \/ WaitOpen \/ WaitSend \/ Block
  BY <1>3 DEF OuterLoop, WaitOpen, WaitSend, Block, OpenWanted
<1>4. CASE OpenSocket
  BY <1>4 DEF OpenSocket, NotifyReady
<1>5. CASE ServeReq \/ ServeRep
  BY <1>5 DEF ServeReq, ServeRep, Send
<1>6. CASE ReplyArrived \/ PollRep \/ RelockRep \/ ReceiveRep
  BY <1>6 DEF ReplyArrived, PollRep, RelockRep, ReceiveRep
<1>7. CASE After
  BY <1>7 DEF After, NotifyReady
<1>8. ~ZmqError /\ ~ReplyTimeout
  BY DEF ZmqError, ReplyTimeout
<1> QED
  BY <1>1, <1>2, <1>3, <1>4, <1>5, <1>6, <1>7, <1>8 DEF WorkerStep

\* Without faults, and if nobody else uses the service, a call of open() or close()
\* waits only while the worker, awake, is on its way to do what it asks for.
THEOREM CallsServedHolds ==
  ASSUME Faults = {}, \A c, d \in Clients : c = d
  PROVE  Spec => []CallsServed
<1>1. Init => ServedInv
  BY Zenon DEF Init, ServedInv, NoSocket
<1>2. TypeOK /\ MuxInv /\ ServedInv /\ [Next]_vars => ServedInv'
  <2> SUFFICES ASSUME TypeOK, MuxInv, ServedInv, [Next]_vars PROVE ServedInv'
    OBVIOUS
  <2>1. CASE \E c \in Clients : Client(c)
    BY <2>1, ClientServedStep
  <2>2. CASE ~ \E c \in Clients : Client(c)
    BY <2>2, OtherServedStep DEF Next
  <2> QED
    BY <2>1, <2>2
<1>3. ServedInv /\ CallsHeard /\ TypeOK => CallsServed
  BY DEF ServedInv, CallsHeard, CallsServed, NoSocket, Asleep, TypeOK
<1>4. IInv => TypeOK /\ MuxInv
  BY DEF IInv
<1> QED
  BY <1>1, <1>2, <1>3, <1>4, CallsHeardHolds, Invariance, PTL DEF Spec
=============================================================================
