------------------------- MODULE WebsocketCppService -------------------------
(***************************************************************************)
(* src/WebsocketCppService: a server thread runs the io_service and        *)
(* invokes on_validate, on_open, on_message and on_close one at a time;    *)
(* the owner of the service calls start() and stop(); sendMessage() is     *)
(* called by any thread, and by the registered handlers on the server      *)
(* thread.  m_connectionsStrMap is written under m_mux and read by         *)
(* sendMessage() without it.                                               *)
(*                                                                         *)
(* The plain and the TLS server forward each call to WsServerTyped; they   *)
(* differ in what makes a handshake fail, which is a choice here.  Outside *)
(* are websocketpp's connections and asio's io_service: run() returns when *)
(* there is nothing left to wait for, and from then on at once, because    *)
(* nobody restarts the io_service.                                         *)
(***************************************************************************)
EXTENDS Naturals, FiniteSets

CONSTANTS
  Connections,  \* connection handles; none is used twice
  MaxStarts     \* bound: calls of start

ASSUME WebsocketAssumption ==
  /\ IsFiniteSet(Connections)
  /\ MaxStarts \in Nat

VARIABLES
  m_runThd,
  m_connectionsStrMap,  \* the handles that have an entry
  listening,            \* the acceptor waits for clients
  ioStopped,            \* the io_service has run out of work once
  connection,           \* the state of each connection
  server,               \* what the server thread is doing, and for which connection
  owner,                \* where start() or stop() is
  toClose,              \* stop()'s copy of the map
  sending,              \* which threads iterate in sendMessage
  copied,               \* the entry each has copied and not sent to yet
  starts,               \* calls of start so far
  late,                 \* history: opened after stop() had made its copy
  cleared,              \* history: entries that stop() removed
  opened, reported,     \* history: connections whose open, close handler was called
  spoiled               \* history: broadcasts that were disturbed or cut short

endpoint == <<listening, ioStopped, connection>>
stopping == <<owner, toClose, cleared>>
broadcasts == <<sending, copied, spoiled>>
handlers == <<opened, reported>>
vars == <<m_runThd, m_connectionsStrMap, endpoint, server, stopping, broadcasts, starts,
          late, handlers>>

Senders == {"caller", "handler"}
Nobody == [at |-> "run", who |-> {}]
At(step, c) == [at |-> step, who |-> {c}]

TypeOK ==
  /\ {m_runThd, listening, ioStopped} \subseteq BOOLEAN
  /\ m_connectionsStrMap \in SUBSET Connections
  /\ connection \in [Connections -> {"none", "handshake", "open", "closing", "ended", "gone"}]
  /\ server \in [at : {"none", "run", "opened", "message", "closed", "handler"},
                 who : SUBSET Connections]
  /\ owner \in {"idle", "thread", "stopListening", "copy", "close", "clear", "join"}
  /\ {toClose, late, cleared, opened, reported} \subseteq SUBSET Connections
  /\ sending \in SUBSET Senders
  /\ copied \in [Senders -> SUBSET Connections]
  /\ starts \in 0..MaxStarts
  /\ spoiled \in SUBSET (Senders \X {"stop", "other"})

\* activate() has made the server and not called start() yet.
Init ==
  /\ m_runThd = FALSE
  /\ m_connectionsStrMap = {}
  /\ listening = FALSE
  /\ ioStopped = FALSE
  /\ connection = [c \in Connections |-> "none"]
  /\ server = [at |-> "none", who |-> {}]
  /\ owner = "idle"
  /\ toClose = {}
  /\ sending = {}
  /\ copied = [s \in Senders |-> {}]
  /\ starts = 0
  /\ late = {}
  /\ cleared = {}
  /\ opened = {}
  /\ reported = {}
  /\ spoiled = {}

\* A change of the map spoils the iterations in progress; who changed it is kept
\* with each.
Spoil(by) == spoiled' = spoiled \cup {<<s, by>> : s \in sending}

-----------------------------------------------------------------------------
(* start and stop.                                                         *)

\* listen and start_accept may fail; the exception is caught.  A start of a
\* running server does nothing: listen throws.
start ==
  /\ owner = "idle"
  /\ starts < MaxStarts
  /\ ~m_runThd
  /\ starts' = starts + 1
  /\ listening' \in BOOLEAN
  /\ owner' = "thread"
  /\ UNCHANGED <<m_runThd, m_connectionsStrMap, ioStopped, connection, server, toClose,
                 cleared, broadcasts, late, handlers>>

StartThread ==
  /\ owner = "thread"
  /\ m_runThd' = TRUE
  /\ server' = Nobody
  /\ owner' = "idle"
  /\ UNCHANGED <<m_connectionsStrMap, endpoint, toClose, cleared, broadcasts, starts, late,
                 handlers>>

stop ==
  /\ owner = "idle"
  /\ m_runThd
  /\ m_runThd' = FALSE
  /\ owner' = "stopListening"
  /\ UNCHANGED <<m_connectionsStrMap, endpoint, server, toClose, cleared, broadcasts, starts,
                 late, handlers>>

\* Mutant: the acceptor goes on.
stop_listening_Missing ==
  /\ owner = "stopListening"
  /\ owner' = "copy"
  /\ UNCHANGED <<m_runThd, m_connectionsStrMap, endpoint, server, toClose,
                 cleared, broadcasts, starts, late, handlers>>

stop_listening ==
  /\ owner = "stopListening"
  /\ listening' = FALSE
  /\ owner' = "copy"
  /\ UNCHANGED <<m_runThd, m_connectionsStrMap, ioStopped, connection, server, toClose,
                 cleared, broadcasts, starts, late, handlers>>

CopyConnections ==
  /\ owner = "copy"
  /\ toClose' = m_connectionsStrMap
  /\ late' = {}
  /\ owner' = "close"
  /\ UNCHANGED <<m_runThd, m_connectionsStrMap, endpoint, server, cleared, broadcasts, starts,
                 handlers>>

\* Closing a connection that is not open any more is an error that is logged.
close(c) ==
  /\ owner = "close"
  /\ c \in toClose
  /\ toClose' = toClose \ {c}
  /\ connection' = [connection EXCEPT ![c] = IF @ = "open" THEN "closing" ELSE @]
  /\ UNCHANGED <<m_runThd, m_connectionsStrMap, listening, ioStopped, server, owner, cleared,
                 broadcasts, starts, late, handlers>>

AllClosed ==
  /\ owner = "close"
  /\ toClose = {}
  /\ owner' = "clear"
  /\ UNCHANGED <<m_runThd, m_connectionsStrMap, endpoint, server, toClose, cleared, broadcasts,
                 starts, late, handlers>>

Clear ==
  /\ owner = "clear"
  /\ cleared' = cleared \cup m_connectionsStrMap
  /\ m_connectionsStrMap' = {}
  /\ Spoil("stop")
  /\ owner' = "join"
  /\ UNCHANGED <<m_runThd, endpoint, server, toClose, sending, copied, starts, late, handlers>>

Join ==
  /\ owner = "join"
  /\ server.at = "none"
  /\ owner' = "idle"
  /\ UNCHANGED <<m_runThd, m_connectionsStrMap, endpoint, server, toClose, cleared, broadcasts,
                 starts, late, handlers>>

-----------------------------------------------------------------------------
(* The io_service and the clients.                                         *)

Serving == server.at = "run" /\ ~ioStopped

HasWork == listening \/ \E c \in Connections : connection[c] \notin {"none", "gone"}

Move(c, state) == connection' = [connection EXCEPT ![c] = state]

Accept(c) ==
  /\ Serving
  /\ listening
  /\ connection[c] = "none"
  /\ Move(c, "handshake")
  /\ UNCHANGED <<m_runThd, m_connectionsStrMap, listening, ioStopped, server, stopping,
                 broadcasts, starts, late, handlers>>

\* Either side, or the network, ends an open connection.
PeerCloses(c) ==
  /\ connection[c] = "open"
  /\ Move(c, "closing")
  /\ UNCHANGED <<m_runThd, m_connectionsStrMap, listening, ioStopped, server, stopping,
                 broadcasts, starts, late, handlers>>

\* The closing handshake is over, or its timeout: on_close is due.
Ended(c) ==
  /\ connection[c] = "closing"
  /\ Move(c, "ended")
  /\ UNCHANGED <<m_runThd, m_connectionsStrMap, listening, ioStopped, server, stopping,
                 broadcasts, starts, late, handlers>>

\* on_validate refuses the host, TLS cannot be set up, or the handshake times
\* out: on_fail changes nothing.
on_fail(c) ==
  /\ Serving
  /\ connection[c] = "handshake"
  /\ Move(c, "gone")
  /\ UNCHANGED <<m_runThd, m_connectionsStrMap, listening, ioStopped, server, stopping,
                 broadcasts, starts, late, handlers>>

HandshakeDone(c) ==
  /\ Serving
  /\ connection[c] = "handshake"
  /\ Move(c, "open")
  /\ server' = At("opened", c)
  /\ UNCHANGED <<m_runThd, m_connectionsStrMap, listening, ioStopped, stopping, broadcasts,
                 starts, late, handlers>>

-----------------------------------------------------------------------------
(* The server thread.                                                      *)

Handling(step, c) == server = At(step, c)

\* The entry is made under m_mux and the open handler called without it.
on_open(c) ==
  /\ Handling("opened", c)
  /\ m_connectionsStrMap' = m_connectionsStrMap \cup {c}
  /\ Spoil("other")
  /\ opened' = opened \cup {c}
  /\ late' = IF owner \in {"close", "clear", "join"} THEN late \cup {c} ELSE late
  /\ server' = At("handler", c)
  /\ UNCHANGED <<m_runThd, endpoint, stopping, sending, copied, starts, reported>>

\* A message of a connection without an entry is dropped.
on_message(c) ==
  /\ Serving
  /\ connection[c] = "open"
  /\ c \in m_connectionsStrMap
  /\ server' = At("handler", c)
  /\ UNCHANGED <<m_runThd, m_connectionsStrMap, endpoint, stopping, broadcasts, starts, late,
                 handlers>>

\* Mutant: the close handler is called without an entry, too.
on_close_AlwaysReport(c) ==
  /\ Serving
  /\ connection[c] = "ended"
  /\ m_connectionsStrMap' = m_connectionsStrMap \ {c}
  /\ Spoil("other")
  /\ reported' = reported \cup {c}
  /\ server' = At("handler", c)
  /\ Move(c, "gone")
  /\ UNCHANGED <<m_runThd, listening, ioStopped, stopping, sending, copied, starts, late, opened>>

\* Mutant: the entry is not erased.
on_close_KeepEntry(c) ==
  /\ Serving
  /\ connection[c] = "ended"
  /\ reported' = reported \cup (m_connectionsStrMap \cap {c})
  /\ Move(c, "gone")
  /\ UNCHANGED <<m_runThd, m_connectionsStrMap, listening, ioStopped, server, stopping,
                 broadcasts, starts, late, opened>>

on_close(c) ==
  /\ Serving
  /\ connection[c] = "ended"
  /\ m_connectionsStrMap' = m_connectionsStrMap \ {c}
  /\ IF c \in m_connectionsStrMap
     THEN Spoil("other") /\ reported' = reported \cup {c} /\ server' = At("handler", c)
     ELSE UNCHANGED <<spoiled, reported, server>>
  /\ Move(c, "gone")
  /\ UNCHANGED <<m_runThd, listening, ioStopped, stopping, sending, copied, starts, late, opened>>

HandlerReturns ==
  /\ server.at = "handler"
  /\ "handler" \notin sending
  /\ server' = Nobody
  /\ UNCHANGED <<m_runThd, m_connectionsStrMap, endpoint, stopping, broadcasts, starts, late,
                 handlers>>

\* run() returns when it has no work, and once it has, at once.
runThd ==
  /\ server.at = "run"
  /\ ioStopped \/ ~HasWork
  /\ ioStopped' = TRUE
  /\ server' = IF m_runThd THEN server ELSE [at |-> "none", who |-> {}]
  /\ UNCHANGED <<m_runThd, m_connectionsStrMap, listening, connection, stopping, broadcasts,
                 starts, late, handlers>>

-----------------------------------------------------------------------------
(* sendMessage: the iteration over the map takes no mutex.                 *)

sendMessage(s) ==
  /\ m_runThd
  /\ s \notin sending
  /\ s = "handler" => server.at = "handler"
  /\ sending' = sending \cup {s}
  /\ UNCHANGED <<m_runThd, m_connectionsStrMap, endpoint, server, stopping, starts, late,
                 handlers, copied, spoiled>>

CopyEntry(s, c) ==
  /\ s \in sending
  /\ copied[s] = {}
  /\ c \in m_connectionsStrMap
  /\ copied' = [copied EXCEPT ![s] = {c}]
  /\ UNCHANGED <<m_runThd, m_connectionsStrMap, endpoint, server, stopping, starts, late,
                 handlers, sending, spoiled>>

\* Sending on a connection that is gone throws out of sendMessage; on the
\* server thread, out of run() too, which is called again.
send(s) ==
  /\ copied[s] # {}
  /\ copied' = [copied EXCEPT ![s] = {}]
  /\ IF \E c \in copied[s] : connection[c] = "gone"
     THEN /\ sending' = sending \ {s}
          /\ spoiled' = spoiled \cup {<<s, "other">>}
          /\ server' = IF s = "handler" THEN Nobody ELSE server
     ELSE UNCHANGED <<sending, spoiled, server>>
  /\ UNCHANGED <<m_runThd, m_connectionsStrMap, endpoint, stopping, starts, late, handlers>>

\* At the end of the map, or after the one connection addressed.
SendReturns(s) ==
  /\ s \in sending
  /\ copied[s] = {}
  /\ sending' = sending \ {s}
  /\ UNCHANGED <<m_runThd, m_connectionsStrMap, endpoint, server, stopping, starts, late,
                 handlers, copied, spoiled>>

-----------------------------------------------------------------------------

Owner ==
  \/ StartThread \/ stop_listening \/ CopyConnections \/ AllClosed \/ Clear \/ Join
  \/ \E c \in Connections : close(c)

ServerThread ==
  \/ HandlerReturns \/ runThd
  \/ \E c \in Connections : on_open(c) \/ on_close(c)

Sending == \E s \in Senders : send(s) \/ SendReturns(s)

Clients == \E c \in Connections : Accept(c) \/ PeerCloses(c) \/ on_message(c)

Next ==
  \/ start \/ stop \/ Owner \/ ServerThread \/ Sending \/ Clients
  \/ \E s \in Senders : sendMessage(s) \/ \E c \in Connections : CopyEntry(s, c)
  \/ \E c \in Connections : HandshakeDone(c) \/ on_fail(c) \/ Ended(c)

Spec == Init /\ [][Next]_vars

\* Threads run; a handler does not send for ever; websocketpp bounds opening
\* and closing handshakes by timeouts.  No client need ever leave.
FairSpec ==
  /\ Spec
  /\ WF_vars(Owner)
  /\ WF_vars(ServerThread)
  /\ WF_vars(Sending)
  /\ \A c \in Connections : WF_vars(Ended(c)) /\ SF_vars(HandshakeDone(c) \/ on_fail(c))

-----------------------------------------------------------------------------
(* Properties.                                                             *)

\* The map is what sendMessage(), on_message() and stop() go by: it has every
\* open connection whose open handler was called, and nothing else but one whose
\* on_close is still due, except for what stop() removed.
MapAgrees ==
  /\ TypeOK
  /\ \A c \in Connections :
       c \in m_connectionsStrMap <=> /\ c \in opened \ cleared
                                     /\ connection[c] \in {"open", "closing", "ended"}

\* The owner of a connection id hears of its end exactly once, from on_close()
\* after its open handler ran: the only ends that pass unreported are those of
\* connections whose entry stop() removed before the server thread got there.
CloseReported ==
  /\ reported \subseteq opened
  /\ \A c \in opened : connection[c] = "gone" => (c \in reported <=> c \notin cleared)

\* sendMessage() iterates over the map without m_mux.  That is sound when it is
\* called from a handler, on the thread that makes and removes the entries: such
\* a broadcast is disturbed by nothing but the clear() of stop(), and reaches a
\* connection that is gone never.
HandlerBroadcast == <<"handler", "other">> \notin spoiled

\* stop() returns, as the server thread runs out of work, unless a connection
\* opened behind its copy of the map: nobody closes that one but its client.
StopReturns ==
  owner = "stopListening" ~> \/ owner = "idle"
                             \/ \E c \in late : connection[c] = "open"
=============================================================================
