--------------------------- MODULE ZeroMqService ----------------------------
(***************************************************************************)
(* src/ZeroMqService/ZeroMqService.cpp: client threads call open(),        *)
(* close() and sendMessage(), one worker thread owns the ZeroMQ socket, a  *)
(* request socket (workerReq) or a reply socket (workerRep).               *)
(*                                                                         *)
(* m_mux is explicit, because the worker keeps it across steps others can  *)
(* observe: workerReq holds it while it polls for the reply and while it   *)
(* runs callbacks, and releases it only in a wait and between two rounds   *)
(* of its outer loop.  A wait on a condition variable is split into the    *)
(* evaluation of its predicate, blocking and waking, because deactivate()  *)
(* changes m_runThd and notifies without the mutex.  Sections under        *)
(* m_muxReady are single steps.                                            *)
(***************************************************************************)
EXTENDS Naturals, Sequences

CONSTANTS
  Clients,      \* threads that use the IZeroMqService interface
  SocketTypes,  \* the configured values of m_socketType: "req", "rep"
  Faults,       \* what the peer and the library may do: "timeout", "error"
  MaxMessages,  \* bound: calls of sendMessage that are accepted
  MaxRequests   \* bound: requests that reach a reply socket

ASSUME ZeroMqAssumption ==
  /\ SocketTypes \subseteq {"req", "rep"}
  /\ Faults \subseteq {"timeout", "error"}
  /\ MaxMessages \in Nat
  /\ MaxRequests \in Nat

VARIABLES
  m_socketType,      \* read by activate() and never changed
  m_requireSocketState,
  m_socketOpened,
  m_runThd,
  m_sendMessage,
  m_messageToSend,   \* messages are numbered in the order they are accepted
  muxHeld,           \* the worker holds m_mux
  worker,            \* where the worker is
  resetSocket,
  sock,              \* the socket: "none", "ready", or "busy" (request without reply)
  pc,                \* where each client is
  deactivator,       \* where deactivate() is
  accepted,          \* history: how many messages sendMessage() took
  sent,              \* history: the messages given to the socket
  received,          \* history: how many requests a reply socket received
  submitted          \* history: what received was when m_messageToSend was set

slot == <<m_messageToSend, accepted, submitted>>
api == <<m_requireSocketState, m_sendMessage, slot>>
flags == <<m_socketOpened, m_runThd, m_socketType>>
threads == <<pc, deactivator>>
vars == <<api, flags, muxHeld, worker, resetSocket, sock,
          threads, sent, received>>

\* Where the worker is.  It holds m_mux in exactly these:
Holding ==
  {"blockOpen",  \* no open required: about to block in the first wait
   "opening",    \* about to create the socket
   "evalSend",   \* about to evaluate the predicate of the second wait
   "blockSend",  \* nothing to send: about to block in it
   "serve",      \* the second wait returned
   "after",      \* at the test that ends the inner loop
   "recv"}       \* a reply socket has a request to receive

Released ==
  {"outer", "lockOpen", "parkedOpen", "lockSend", "parkedSend", "lockAfter", "lockRecv", "exited"}

\* workerReq polls with the mutex, workerRep without it.
WorkerStates == Holding \cup Released \cup {"poll"}

ClientStates ==
  {"idle", "openCheck", "openParked", "openReturn", "closeCheck", "closeParked", "closeReturn"}

TypeOK ==
  /\ m_socketType \in SocketTypes
  /\ m_requireSocketState \in {"open", "close"}
  /\ m_socketOpened \in BOOLEAN
  /\ m_runThd \in BOOLEAN
  /\ m_sendMessage \in BOOLEAN
  /\ m_messageToSend \in 0..MaxMessages
  /\ muxHeld \in BOOLEAN
  /\ worker \in WorkerStates
  /\ resetSocket \in BOOLEAN
  /\ sock \in {"none", "ready", "busy"}
  /\ pc \in [Clients -> ClientStates]
  /\ deactivator \in {"idle", "notify", "join", "done"}
  /\ accepted \in 0..MaxMessages
  /\ sent \in Seq(1..MaxMessages)
  /\ received \in 0..MaxRequests
  /\ submitted \in 0..MaxRequests

\* activate() has started the worker; the socket is not open.
Init ==
  /\ m_socketType \in SocketTypes
  /\ m_requireSocketState = "close"
  /\ m_socketOpened = FALSE
  /\ m_runThd = TRUE
  /\ m_sendMessage = FALSE
  /\ m_messageToSend = 0
  /\ muxHeld = FALSE
  /\ worker = "outer"
  /\ resetSocket = FALSE
  /\ sock = "none"
  /\ pc = [c \in Clients |-> "idle"]
  /\ deactivator = "idle"
  /\ accepted = 0
  /\ sent = <<>>
  /\ received = 0
  /\ submitted = 0

-----------------------------------------------------------------------------
(* The condition variables.                                                *)

\* m_cvar.notify_all(): only the worker waits on m_cvar.
NotifyWorker ==
  worker' = CASE worker = "parkedOpen" -> "lockOpen"
              [] worker = "parkedSend" -> "lockSend"
              [] OTHER -> worker

\* Mutant: nobody is notified.
NotifyReady_Missing == UNCHANGED pc

\* m_cvarReady.notify_all(): the waiting clients evaluate their predicate.
NotifyReady ==
  pc' = [c \in Clients |-> CASE pc[c] = "openParked" -> "openCheck"
                             [] pc[c] = "closeParked" -> "closeCheck"
                             [] OTHER -> pc[c]]

-----------------------------------------------------------------------------
(* The clients.  They make no new call once deactivate() has begun.        *)

Calling(c) == pc[c] = "idle" /\ deactivator = "idle"

sendMessage(c) ==
  /\ Calling(c)
  /\ ~muxHeld
  /\ m_requireSocketState = "open"    \* it throws otherwise
  /\ accepted < MaxMessages
  /\ accepted' = accepted + 1
  /\ m_messageToSend' = accepted + 1
  /\ m_sendMessage' = TRUE
  /\ submitted' = received
  /\ NotifyWorker
  /\ UNCHANGED <<m_requireSocketState, flags, muxHeld, resetSocket, sock, threads, sent,
                 received>>

\* The critical section open() and close() share: require a state, arm the
\* flag to wait on, notify the worker.
Require(c, state, check) ==
  /\ Calling(c)
  /\ ~muxHeld
  /\ m_requireSocketState # state
  /\ m_requireSocketState' = state
  /\ m_socketOpened' = (state = "close")
  /\ pc' = [pc EXCEPT ![c] = check]
  /\ NotifyWorker
  /\ UNCHANGED <<m_runThd, m_socketType, m_sendMessage, slot, muxHeld, resetSocket, sock,
                 deactivator, sent, received>>

\* A state that is required already: the call changes nothing and does not wait.
Required(c, state, return) ==
  /\ Calling(c)
  /\ ~muxHeld
  /\ m_requireSocketState = state
  /\ pc' = [pc EXCEPT ![c] = return]
  /\ UNCHANGED <<api, flags, muxHeld, worker, resetSocket, sock, deactivator, sent, received>>

open(c) == Require(c, "open", "openCheck") \/ Required(c, "open", "openReturn")

close(c) == Require(c, "close", "closeCheck") \/ Required(c, "close", "closeReturn")

Returning == {"openCheck", "openReturn", "closeCheck", "closeReturn"}

\* Mutant: nobody waits.
AwaitReady_NoWait(c) ==
  /\ pc[c] \in Returning
  /\ pc' = [pc EXCEPT ![c] = "idle"]
  /\ UNCHANGED <<api, flags, muxHeld, worker, resetSocket, sock, deactivator, sent, received>>

\* open() and close() wait on m_cvarReady, if they have required a state, and return.
AwaitReady(c) ==
  /\ pc[c] \in Returning
  /\ pc' = [pc EXCEPT ![c] =
              CASE pc[c] = "openCheck" /\ ~m_socketOpened -> "openParked"
                [] pc[c] = "closeCheck" /\ m_socketOpened -> "closeParked"
                [] OTHER -> "idle"]
  /\ UNCHANGED <<api, flags, muxHeld, worker, resetSocket, sock, deactivator, sent,
                 received>>

-----------------------------------------------------------------------------
(* deactivate(), called when no client is in a call.                       *)

Deactivate ==
  /\ deactivator = "idle"
  /\ \A c \in Clients : pc[c] = "idle"
  /\ m_runThd' = FALSE     \* without m_mux
  /\ deactivator' = "notify"
  /\ UNCHANGED <<api, m_socketOpened, m_socketType, muxHeld, worker, resetSocket, sock, pc,
                 sent, received>>

DeactivateNotify ==
  /\ deactivator = "notify"
  /\ NotifyWorker
  /\ deactivator' = "join"
  /\ UNCHANGED <<api, flags, muxHeld, resetSocket, sock, pc, sent, received>>

DeactivateJoin ==
  /\ deactivator = "join"
  /\ worker = "exited"
  /\ deactivator' = "done"
  /\ UNCHANGED <<api, flags, muxHeld, worker, resetSocket, sock, pc, sent, received>>

-----------------------------------------------------------------------------
(* The worker: waiting.                                                    *)

\* The worker moves to w; it has m_mux there or not.
Goto(w) ==
  /\ worker' = w
  /\ muxHeld' = (w \in Holding \/ (w = "poll" /\ m_socketType = "req"))

OuterLoop ==
  /\ worker = "outer"
  /\ Goto(IF m_runThd THEN "lockOpen" ELSE "exited")
  /\ UNCHANGED <<api, flags, resetSocket, sock, threads, sent, received>>

\* Mutant: the first wait does not look at the flag.
OpenWanted_NoStop == m_requireSocketState = "open"

OpenWanted == m_requireSocketState = "open" \/ ~m_runThd

\* The first wait, entered or woken: take m_mux and evaluate the predicate.
WaitOpen ==
  /\ worker = "lockOpen"
  /\ Goto(CASE ~OpenWanted -> "blockOpen"
            [] OpenWanted /\ m_runThd -> "opening"
            [] OTHER -> "exited")
  /\ UNCHANGED <<api, flags, resetSocket, sock, threads, sent, received>>

SendWanted == m_sendMessage \/ m_requireSocketState = "close" \/ ~m_runThd

\* The second wait: workerReq waits for a message, workerRep for the reply.
WaitSend ==
  /\ worker \in {"evalSend", "lockSend"}
  /\ Goto(IF SendWanted THEN "serve" ELSE "blockSend")
  /\ UNCHANGED <<api, flags, resetSocket, sock, threads, sent, received>>

\* Release m_mux and sleep, in one step.
Block ==
  /\ worker \in {"blockOpen", "blockSend"}
  /\ Goto(IF worker = "blockOpen" THEN "parkedOpen" ELSE "parkedSend")
  /\ UNCHANGED <<api, flags, resetSocket, sock, threads, sent, received>>

SpuriousWakeup ==
  /\ worker \in {"parkedOpen", "parkedSend"}
  /\ NotifyWorker
  /\ UNCHANGED <<api, flags, muxHeld, resetSocket, sock, threads, sent, received>>

-----------------------------------------------------------------------------
(* The worker: the socket.                                                 *)

\* connect() or bind() succeeded.
OpenSocket ==
  /\ worker = "opening"
  /\ sock' = "ready"
  /\ resetSocket' = FALSE
  /\ m_socketOpened' = TRUE
  /\ NotifyReady
  /\ Goto(IF m_socketType = "req" THEN "evalSend" ELSE "poll")
  /\ UNCHANGED <<api, m_runThd, m_socketType, deactivator, sent, received>>

\* The pending message goes to the socket.
Send(s) ==
  /\ m_sendMessage' = FALSE
  /\ sent' = Append(sent, m_messageToSend)
  /\ sock' = s

\* Mutant: woken for a close, it sends whatever the slot holds.
ServeReq_NoCheck ==
  /\ m_socketType = "req"
  /\ worker = "serve"
  /\ Send("busy") /\ Goto("poll")
  /\ UNCHANGED <<m_requireSocketState, slot, flags, resetSocket, threads, received>>

\* Mutant: a close() that comes with a message drops it.
ServeReq_DropOnClose ==
  /\ m_socketType = "req"
  /\ worker = "serve"
  /\ IF m_sendMessage /\ m_requireSocketState = "open"
       THEN Send("busy") /\ Goto("poll")
       ELSE m_sendMessage' = FALSE /\ Goto("after") /\ UNCHANGED <<sent, sock>>
  /\ UNCHANGED <<m_requireSocketState, slot, flags, resetSocket, threads, received>>

ServeReq ==
  /\ m_socketType = "req"
  /\ worker = "serve"
  /\ IF m_sendMessage
       THEN Send("busy") /\ Goto("poll")
       ELSE Goto("after") /\ UNCHANGED <<m_sendMessage, sent, sock>>
  /\ UNCHANGED <<m_requireSocketState, slot, flags, resetSocket, threads, received>>

\* The reply came in time and is handed to m_onMessageFunc.
ReplyArrived ==
  /\ m_socketType = "req"
  /\ worker = "poll"
  /\ sock' = "ready"
  /\ Goto("after")
  /\ UNCHANGED <<api, flags, resetSocket, threads, sent, received>>

\* Mutant: the socket is kept after a timeout.
ReplyTimeout_KeepSocket ==
  /\ "timeout" \in Faults
  /\ m_socketType = "req"
  /\ worker = "poll"
  /\ Goto("after")
  /\ UNCHANGED <<api, flags, resetSocket, sock, threads, sent, received>>

\* m_onReqTimeoutFunc is called and the socket given up.
ReplyTimeout ==
  /\ "timeout" \in Faults
  /\ m_socketType = "req"
  /\ worker = "poll"
  /\ resetSocket' = TRUE
  /\ Goto("after")
  /\ UNCHANGED <<api, flags, sock, threads, sent, received>>

\* The poll of workerRep ends, with a request or after its timeout.
PollRep ==
  /\ m_socketType = "rep"
  /\ worker = "poll"
  /\ \/ received < MaxRequests /\ Goto("lockRecv")
     \/ Goto("lockAfter")
  /\ UNCHANGED <<api, flags, resetSocket, sock, threads, sent, received>>

RelockRep ==
  /\ worker \in {"lockRecv", "lockAfter"}
  /\ Goto(IF worker = "lockRecv" THEN "recv" ELSE "after")
  /\ UNCHANGED <<api, flags, resetSocket, sock, threads, sent, received>>

\* Mutant: a message from before the request stays pending as its reply.
ReceiveRep_KeepPending ==
  /\ worker = "recv"
  /\ received' = received + 1
  /\ sock' = "busy"
  /\ Goto("evalSend")
  /\ UNCHANGED <<api, flags, resetSocket, threads, sent>>

\* The request goes to m_onMessageFunc; what was pending before is discarded.
ReceiveRep ==
  /\ worker = "recv"
  /\ received' = received + 1
  /\ sock' = "busy"
  /\ m_sendMessage' = FALSE
  /\ Goto("evalSend")
  /\ UNCHANGED <<m_requireSocketState, slot, flags, resetSocket, threads, sent>>

ServeRep ==
  /\ m_socketType = "rep"
  /\ worker = "serve"
  /\ IF m_sendMessage THEN Send("ready") ELSE UNCHANGED <<m_sendMessage, sent, sock>>
  /\ Goto("after")
  /\ UNCHANGED <<m_requireSocketState, slot, flags, resetSocket, threads, received>>

\* Close the socket and start over, or go on with it.
After ==
  /\ worker = "after"
  /\ IF resetSocket \/ m_requireSocketState = "close" \/ ~m_runThd
       THEN /\ sock' = "none"
            /\ m_socketOpened' = FALSE
            /\ NotifyReady
            /\ Goto("outer")
       ELSE /\ Goto(IF m_socketType = "req" THEN "evalSend" ELSE "poll")
            /\ UNCHANGED <<sock, m_socketOpened, pc>>
  /\ UNCHANGED <<api, m_runThd, m_socketType, resetSocket, deactivator, sent, received>>

\* zmq::error_t from a call on the socket: logged, m_mux released, next round.
\* A socket that fails to connect or bind has replaced the previous one; any
\* other stays as it is until the next one replaces it.
ZmqError ==
  /\ "error" \in Faults
  /\ worker \in {"opening", "serve", "poll", "recv", "after"}
  /\ worker = "serve" => m_sendMessage
  /\ worker = "after" => resetSocket \/ m_requireSocketState = "close" \/ ~m_runThd
  /\ sock' = IF worker = "opening" THEN "none" ELSE sock
  /\ m_sendMessage' = IF worker = "serve" THEN FALSE ELSE m_sendMessage
  /\ Goto("outer")
  /\ UNCHANGED <<m_requireSocketState, slot, flags, resetSocket, threads, sent, received>>

-----------------------------------------------------------------------------
Client(c) == sendMessage(c) \/ open(c) \/ close(c) \/ AwaitReady(c)

WorkerStep ==
  \/ OuterLoop \/ WaitOpen \/ WaitSend \/ Block \/ OpenSocket
  \/ ServeReq \/ ReplyArrived \/ ReplyTimeout
  \/ PollRep \/ RelockRep \/ ReceiveRep \/ ServeRep
  \/ After

Next ==
  \/ \E c \in Clients : Client(c)
  \/ Deactivate \/ DeactivateNotify \/ DeactivateJoin
  \/ WorkerStep
  \/ SpuriousWakeup
  \/ ZmqError

Spec == Init /\ [][Next]_vars

\* A thread that can run does run: polls end, awaited predicates are
\* evaluated, joins return.  Nobody has to call anything.
Fairness ==
  /\ WF_vars(WorkerStep)
  /\ \A c \in Clients : WF_vars(AwaitReady(c))
  /\ WF_vars(DeactivateNotify)
  /\ WF_vars(DeactivateJoin)

FairSpec == Spec /\ Fairness

-----------------------------------------------------------------------------
(* Correctness.                                                            *)

\* The request and reply sockets are used in turn: workerReq never sends
\* while a request is unanswered, workerRep never receives while a reply is
\* owed and never replies when none is.
InTurn ==
  /\ TypeOK
  /\ m_socketType = "req" /\ worker = "serve" /\ m_sendMessage => sock = "ready"
  /\ worker = "recv" => sock = "ready"
  /\ m_socketType = "rep" /\ worker = "serve" => sock = "busy"

\* Accepted messages go to the socket in the order sendMessage() took them
\* and none goes twice.
SentOnceInOrder == \A i, j \in 1..Len(sent) : i < j => sent[i] < sent[j]

\* Whatever is overwritten in the single slot, lost by a timeout or an error, or
\* left behind by a close(), what goes to the socket is what sendMessage()
\* accepted, in that order and at most once.
Channel == INSTANCE LossyChannel
ImplementsChannel == Channel!Spec

\* A reply socket answers a request only with a message submitted after that
\* request was received.
ReplyAfterRequest ==
  m_socketType = "rep" /\ worker = "serve" /\ m_sendMessage => submitted = received

Asleep == {"blockOpen", "parkedOpen", "blockSend", "parkedSend"}

\* deactivate() notifies without the mutex: it misses the worker only between a
\* predicate that was evaluated before m_runThd was cleared and the sleep that
\* follows it.  A worker that is awake then does not sleep again.
StopReaches ==
  [][ /\ deactivator = "notify" /\ deactivator' = "join" /\ worker' \in Asleep =>
           worker \in {"blockOpen", "blockSend"}
      /\ deactivator = "join" /\ worker' \in Asleep => worker \in Asleep ]_vars

\* When open() returns to the only client the socket is open, and when close()
\* returns it is closed, although the worker acts on the request in its own time:
\* unless open() has found it required already while the worker, after a reply
\* timeout, has given the socket up and has yet to make another.
DoneOnReturn ==
  [][ \A c \in Clients : pc'[c] = "idle" =>
        /\ pc[c] = "openCheck" => sock # "none"
        /\ pc[c] = "openReturn" => sock # "none" \/ resetSocket
        /\ pc[c] \in {"closeCheck", "closeReturn"} => sock = "none" ]_vars

\* open() returns.
OpenReturns == \A c \in Clients : (pc[c] = "openCheck") ~> (pc[c] = "idle")

\* close() returns.
CloseReturns == \A c \in Clients : (pc[c] = "closeCheck") ~> (pc[c] = "idle")

\* Without faults the single slot keeps the newest message a request socket
\* was given: it has been sent or is pending, even if a close() follows at
\* once.
NewestKept ==
  m_socketType = "req" /\ accepted > 0 =>
    \/ m_sendMessage /\ m_messageToSend = accepted
    \/ sent # <<>> /\ sent[Len(sent)] = accepted
=============================================================================
