---------------------- MODULE WebsocketCppServiceProofs ----------------------
(***************************************************************************)
(* Theorems about WebsocketCppService, for any connections and any number  *)
(* of starts.                                                              *)
(***************************************************************************)
EXTENDS WebsocketCppService, TLAPS

\* A connection has one open handler call, which comes when its handshake is
\* over; only what was opened is cleared, only what is gone was reported.
OpeningInv ==
  /\ \A c \in opened : connection[c] \notin {"none", "handshake"}
  /\ cleared \subseteq opened
  /\ \A c \in reported : connection[c] = "gone"
  /\ server.at = "opened" => \A c \in server.who :
       c \notin opened /\ connection[c] \in {"open", "closing", "ended"}

\* A thread is started only when there is none.
ThreadInv ==
  /\ owner = "thread" => server.at = "none" /\ ~m_runThd
  /\ owner = "idle" /\ ~m_runThd => server.at = "none"

\* A broadcast of a handler is over before the handler is, and so before the
\* server thread makes, removes or ends a connection.
BroadcastInv ==
  /\ "handler" \in sending => server.at = "handler"
  /\ copied["handler"] # {} => "handler" \in sending
  /\ \A c \in copied["handler"] : connection[c] # "gone"

IInv ==
  /\ MapAgrees /\ CloseReported /\ HandlerBroadcast
  /\ OpeningInv /\ ThreadInv /\ BroadcastInv

-----------------------------------------------------------------------------

\* Initially nothing is open.
LEMMA InitIInv == Init => IInv
<1> SUFFICES ASSUME Init PROVE IInv
  OBVIOUS
<1>1. TypeOK
  <2>1. copied \in [Senders -> SUBSET Connections]
    BY DEF Init
  <2>2. starts \in 0..MaxStarts
    BY WebsocketAssumption DEF Init
  <2> QED
    BY <2>1, <2>2 DEF Init, TypeOK
<1> QED
  BY <1>1
   DEF Init, IInv, MapAgrees, TypeOK, CloseReported, HandlerBroadcast, OpeningInv, ThreadInv,
       BroadcastInv, Senders

\* What a change of the map does to the broadcasts in progress.
LEMMA SpoilTyped ==
  ASSUME NEW by \in {"stop", "other"}, Spoil(by),
         sending \in SUBSET Senders, spoiled \in SUBSET (Senders \X {"stop", "other"})
  PROVE  spoiled' \in SUBSET (Senders \X {"stop", "other"})
BY DEF Spoil

\* A broadcast that throws is noted under its sender.
LEMMA ThrowTyped ==
  ASSUME NEW s \in Senders, spoiled \in SUBSET (Senders \X {"stop", "other"})
  PROVE  spoiled \cup {<<s, "other">>} \in SUBSET (Senders \X {"stop", "other"})
OBVIOUS

\* Only stop() spoils the broadcast of a handler.
LEMMA SpoilKeeps ==
  ASSUME NEW by \in {"stop", "other"}, Spoil(by), HandlerBroadcast, by = "stop" \/ "handler" \notin sending
  PROVE  HandlerBroadcast'
BY DEF Spoil, HandlerBroadcast

\* Where the server thread is with a connection.
LEMMA ServerAt ==
  ASSUME NEW step \in {"opened", "handler"}, NEW c \in Connections
  PROVE  /\ At(step, c).at = step /\ At(step, c).who = {c}
         /\ At(step, c) \in [at : {"none", "run", "opened", "message", "closed", "handler"},
                             who : SUBSET Connections]
BY DEF At

\* A step preserves the types.
LEMMA TypeStep == TypeOK /\ [Next]_vars => TypeOK'
<1> SUFFICES ASSUME TypeOK, [Next]_vars PROVE TypeOK'
  OBVIOUS
<1> USE WebsocketAssumption DEF TypeOK, endpoint, stopping, broadcasts, handlers
<1>1. CASE start
  BY <1>1 DEF start
<1>2. CASE stop
  BY <1>2 DEF stop
<1>3. CASE Owner
  <2>1. CASE StartThread
    BY <2>1 DEF StartThread, Nobody
  <2>2. CASE stop_listening
    BY <2>2 DEF stop_listening
  <2>3. CASE CopyConnections
    BY <2>3 DEF CopyConnections
  <2>4. CASE AllClosed
    BY <2>4 DEF AllClosed
  <2>5. CASE Clear
    BY <2>5, SpoilTyped DEF Clear
  <2>6. CASE Join
    BY <2>6 DEF Join
  <2>7. ASSUME NEW c \in Connections, close(c) PROVE TypeOK'
    BY <2>7 DEF close
  <2> QED
    BY <1>3, <2>1, <2>2, <2>3, <2>4, <2>5, <2>6, <2>7 DEF Owner
<1>4. CASE ServerThread
  <2>1. CASE HandlerReturns
    BY <2>1 DEF HandlerReturns, Nobody
  <2>2. CASE runThd
    BY <2>2 DEF runThd
  <2>3. ASSUME NEW c \in Connections, on_open(c) PROVE TypeOK'
    BY <2>3, ServerAt, SpoilTyped DEF on_open
  <2>4. ASSUME NEW c \in Connections, on_close(c) PROVE TypeOK'
    BY <2>4, ServerAt, SpoilTyped DEF on_close, Move
  <2> QED
    BY <1>4, <2>1, <2>2, <2>3, <2>4 DEF ServerThread
<1>5. CASE Sending
  <2>1. ASSUME NEW s \in Senders, send(s) PROVE TypeOK'
    BY <2>1, ThrowTyped DEF send, Nobody
  <2>2. ASSUME NEW s \in Senders, SendReturns(s) PROVE TypeOK'
    BY <2>2 DEF SendReturns
  <2> QED
    BY <1>5, <2>1, <2>2 DEF Sending
<1>6. CASE Clients
  <2>1. ASSUME NEW c \in Connections, Accept(c) \/ PeerCloses(c) PROVE TypeOK'
    BY <2>1 DEF Accept, PeerCloses, Move
  <2>2. ASSUME NEW c \in Connections, on_message(c) PROVE TypeOK'
    BY <2>2, ServerAt DEF on_message
  <2> QED
    BY <1>6, <2>1, <2>2 DEF Clients
<1>7. ASSUME NEW s \in Senders, sendMessage(s) PROVE TypeOK'
  BY <1>7 DEF sendMessage
<1>8. ASSUME NEW s \in Senders, NEW c \in Connections, CopyEntry(s, c) PROVE TypeOK'
  BY <1>8 DEF CopyEntry
<1>9. ASSUME NEW c \in Connections, HandshakeDone(c) PROVE TypeOK'
  BY <1>9, ServerAt DEF HandshakeDone, Move
<1>10. ASSUME NEW c \in Connections, on_fail(c) \/ Ended(c) PROVE TypeOK'
  BY <1>10 DEF on_fail, Ended, Move
<1>11. CASE UNCHANGED vars
  BY <1>11 DEF vars
<1> QED
  BY <1>1, <1>2, <1>3, <1>4, <1>5, <1>6, <1>7, <1>8, <1>9, <1>10, <1>11 DEF Next

-----------------------------------------------------------------------------

\* A step that leaves alone what the invariant is about, but for the owner of the
\* service, preserves it.
LEMMA OwnerMoves ==
  ASSUME IInv, TypeOK', ThreadInv',
         UNCHANGED <<m_connectionsStrMap, connection, server, cleared, broadcasts, handlers>>
  PROVE  IInv'
BY DEF IInv, MapAgrees, CloseReported, HandlerBroadcast, OpeningInv, BroadcastInv, broadcasts,
       handlers

\* A connection that changes its state, and neither becomes nor was open to the
\* server thread's handlers, or stays so, preserves the invariant.
LEMMA ConnectionMoves ==
  ASSUME IInv, TypeOK', NEW c \in Connections, NEW state, Move(c, state),
         \/ connection[c] \in {"none", "handshake"} /\ state \in {"handshake", "gone"}
         \/ connection[c] \in {"open", "closing"} /\ state \in {"closing", "ended"},
         state = "gone" => server.at = "run",
         UNCHANGED <<m_runThd, m_connectionsStrMap, server, owner, cleared, broadcasts, handlers>>
  PROVE  IInv'
<1> USE DEF IInv, Move, broadcasts, handlers
<1>1. /\ connection'[c] = state
      /\ \A d \in Connections \ {c} : connection'[d] = connection[d]
  BY DEF MapAgrees, TypeOK
<1>2. MapAgrees'
  BY <1>1 DEF MapAgrees, OpeningInv, TypeOK
<1>3. CloseReported'
  BY <1>1 DEF MapAgrees, CloseReported, OpeningInv, TypeOK
<1>4. OpeningInv'
  BY <1>1 DEF MapAgrees, OpeningInv, TypeOK
<1>5. BroadcastInv'
  BY <1>1 DEF MapAgrees, BroadcastInv, TypeOK, Senders
<1> QED
  BY <1>2, <1>3, <1>4, <1>5 DEF HandlerBroadcast, ThreadInv

\* A step preserves the invariant.
LEMMA IInvStep == IInv /\ [Next]_vars => IInv'
<1> SUFFICES ASSUME IInv, [Next]_vars PROVE IInv'
  OBVIOUS
<1>0. TypeOK /\ TypeOK'
  BY TypeStep DEF IInv, MapAgrees
<1> USE <1>0
<1>1. CASE start
  BY <1>1, OwnerMoves DEF start, IInv, ThreadInv, endpoint, stopping
<1>2. CASE stop
  BY <1>2, OwnerMoves DEF stop, IInv, ThreadInv, endpoint, stopping
<1>3. CASE Owner
  <2>1. CASE StartThread
    <3>1. server'.at = "run" /\ server.at = "none" /\ "handler" \notin sending
      BY <2>1 DEF StartThread, Nobody, IInv, ThreadInv, BroadcastInv
    <3> QED
      BY <2>1, <3>1 DEF StartThread, IInv, MapAgrees, CloseReported, HandlerBroadcast,
         OpeningInv, ThreadInv, BroadcastInv, endpoint, broadcasts, handlers
  <2>2. CASE stop_listening
    BY <2>2, OwnerMoves DEF stop_listening, IInv, ThreadInv
  <2>3. CASE CopyConnections
    BY <2>3, OwnerMoves DEF CopyConnections, IInv, ThreadInv, endpoint
  <2>4. CASE AllClosed
    BY <2>4, OwnerMoves DEF AllClosed, IInv, ThreadInv, endpoint
  <2>5. CASE Clear
    <3>1. MapAgrees' /\ CloseReported' /\ OpeningInv'
      BY <2>5 DEF Clear, IInv, MapAgrees, CloseReported, OpeningInv, TypeOK, endpoint, handlers
    <3>2. HandlerBroadcast'
      BY <2>5, SpoilKeeps DEF Clear, IInv
    <3> QED
      BY <2>5, <3>1, <3>2 DEF Clear, IInv, ThreadInv, BroadcastInv, endpoint
  <2>6. CASE Join
    BY <2>6, OwnerMoves DEF Join, IInv, ThreadInv, endpoint
  <2>7. ASSUME NEW c \in Connections, close(c) PROVE IInv'
    <3>1. CASE connection[c] = "open"
      BY <2>7, <3>1, ConnectionMoves DEF close, Move
    <3>2. CASE connection[c] # "open"
      BY <2>7, <3>2, OwnerMoves DEF close, IInv, ThreadInv, TypeOK
    <3> QED
      BY <3>1, <3>2
  <2> QED
    BY <1>3, <2>1, <2>2, <2>3, <2>4, <2>5, <2>6, <2>7 DEF Owner
<1>4. CASE ServerThread
  <2>1. CASE HandlerReturns
    BY <2>1 DEF HandlerReturns, Nobody, IInv, MapAgrees, CloseReported, HandlerBroadcast,
       OpeningInv, ThreadInv, BroadcastInv, endpoint, stopping, broadcasts, handlers
  <2>2. CASE runThd
    <3>1. server.at = "run" /\ server'.at \in {"run", "none"} /\ (m_runThd => server' = server)
      BY <2>2 DEF runThd
    <3> QED
      BY <2>2, <3>1 DEF runThd, IInv, MapAgrees, CloseReported, HandlerBroadcast,
         OpeningInv, ThreadInv, BroadcastInv, stopping, broadcasts, handlers
  <2>3. ASSUME NEW c \in Connections, on_open(c) PROVE IInv'
    <3>1. /\ server.at = "opened" /\ server.who = {c}
          /\ server'.at = "handler"
      BY <2>3, ServerAt DEF on_open, Handling
    <3>2. /\ c \notin opened /\ connection[c] \in {"open", "closing", "ended"}
          /\ "handler" \notin sending
      BY <3>1 DEF IInv, OpeningInv, BroadcastInv
    <3>3. MapAgrees'
      BY <2>3, <3>2 DEF on_open, IInv, MapAgrees, OpeningInv, endpoint, stopping
    <3>4. CloseReported' /\ OpeningInv'
      BY <2>3, <3>1, <3>2 DEF on_open, IInv, CloseReported, OpeningInv, endpoint, stopping
    <3>5. HandlerBroadcast'
      BY <2>3, <3>2, SpoilKeeps DEF on_open, IInv
    <3> QED
      BY <2>3, <3>1, <3>2, <3>3, <3>4, <3>5
         DEF on_open, IInv, ThreadInv, BroadcastInv, endpoint, stopping
  <2>4. ASSUME NEW c \in Connections, on_close(c) PROVE IInv'
    <3>1. /\ server.at = "run" /\ server'.at \in {"run", "handler"}
          /\ "handler" \notin sending
      BY <2>4, ServerAt DEF on_close, Serving, IInv, BroadcastInv
    <3>2. /\ connection[c] = "ended" /\ connection'[c] = "gone"
          /\ \A d \in Connections \ {c} : connection'[d] = connection[d]
      BY <2>4 DEF on_close, Move, TypeOK
    <3>3. MapAgrees'
      BY <2>4, <3>2 DEF on_close, IInv, MapAgrees, OpeningInv, stopping
    <3>4. /\ reported' = IF c \in m_connectionsStrMap THEN reported \cup {c} ELSE reported
          /\ c \notin reported
      BY <2>4, <3>2 DEF on_close, IInv, OpeningInv
    <3>5. CloseReported'
      BY <2>4, <3>2, <3>4 DEF on_close, IInv, MapAgrees, CloseReported, TypeOK, stopping
    <3>6. OpeningInv'
      BY <2>4, <3>1, <3>2, <3>4 DEF on_close, IInv, OpeningInv, TypeOK, stopping
    <3>7. HandlerBroadcast'
      BY <2>4, <3>1, SpoilKeeps DEF on_close, IInv, HandlerBroadcast
    <3>8. BroadcastInv'
      BY <2>4, <3>1 DEF on_close, IInv, BroadcastInv
    <3> QED
      BY <2>4, <3>1, <3>3, <3>5, <3>6, <3>7, <3>8 DEF on_close, IInv, ThreadInv, stopping
  <2> QED
    BY <1>4, <2>1, <2>2, <2>3, <2>4 DEF ServerThread
<1>5. CASE Sending
  <2>1. ASSUME NEW s \in Senders, send(s) PROVE IInv'
    <3>1. s = "handler" => server.at = "handler"
      BY <2>1 DEF send, IInv, BroadcastInv
    <3>2. /\ server' = server \/ (server.at = "handler" /\ server'.at = "run" /\ s = "handler")
          /\ HandlerBroadcast'
      BY <2>1, <3>1 DEF send, IInv, BroadcastInv, HandlerBroadcast, Nobody
    <3>3. BroadcastInv'
      BY <2>1, <3>2 DEF send, IInv, BroadcastInv, TypeOK, Senders, endpoint
    <3> QED
      BY <2>1, <3>2, <3>3 DEF send, IInv, MapAgrees, CloseReported, OpeningInv, ThreadInv,
         endpoint, stopping, handlers
  <2>2. ASSUME NEW s \in Senders, SendReturns(s) PROVE IInv'
    BY <2>2 DEF SendReturns, IInv, MapAgrees, CloseReported, HandlerBroadcast, OpeningInv,
       ThreadInv, BroadcastInv, endpoint, stopping, handlers
  <2> QED
    BY <1>5, <2>1, <2>2 DEF Sending
<1>6. CASE Clients
  <2>1. ASSUME NEW c \in Connections, Accept(c) PROVE IInv'
    BY <2>1, ConnectionMoves DEF Accept, stopping
  <2>2. ASSUME NEW c \in Connections, PeerCloses(c) PROVE IInv'
    BY <2>2, ConnectionMoves DEF PeerCloses, stopping
  <2>3. ASSUME NEW c \in Connections, on_message(c) PROVE IInv'
    <3>1. server.at = "run" /\ server'.at = "handler"
      BY <2>3, ServerAt DEF on_message, Serving
    <3> QED
      BY <2>3, <3>1 DEF on_message, IInv, MapAgrees, CloseReported, HandlerBroadcast,
         OpeningInv, ThreadInv, BroadcastInv, endpoint, stopping, broadcasts, handlers
  <2> QED
    BY <1>6, <2>1, <2>2, <2>3 DEF Clients
<1>7. ASSUME NEW s \in Senders, sendMessage(s) PROVE IInv'
  BY <1>7 DEF sendMessage, IInv, MapAgrees, CloseReported, HandlerBroadcast, OpeningInv,
     ThreadInv, BroadcastInv, endpoint, stopping, handlers
<1>8. ASSUME NEW s \in Senders, NEW c \in Connections, CopyEntry(s, c) PROVE IInv'
  <2>1. connection[c] # "gone"
    BY <1>8 DEF CopyEntry, IInv, MapAgrees
  <2>2. BroadcastInv'
    BY <1>8, <2>1 DEF CopyEntry, IInv, BroadcastInv, TypeOK, Senders, endpoint
  <2> QED
    BY <1>8, <2>2 DEF CopyEntry, IInv, MapAgrees, CloseReported, HandlerBroadcast, OpeningInv,
       ThreadInv, endpoint, stopping, handlers
<1>9. ASSUME NEW c \in Connections, HandshakeDone(c) PROVE IInv'
  <2>1. server.at = "run" /\ server'.at = "opened" /\ server'.who = {c}
    BY <1>9, ServerAt DEF HandshakeDone, Serving
  <2>2. /\ connection[c] = "handshake" /\ connection'[c] = "open" /\ c \notin opened
        /\ \A d \in Connections \ {c} : connection'[d] = connection[d]
    BY <1>9 DEF HandshakeDone, Move, IInv, OpeningInv, TypeOK
  <2>3. MapAgrees' /\ CloseReported' /\ OpeningInv'
    BY <1>9, <2>1, <2>2 DEF HandshakeDone, IInv, MapAgrees, CloseReported, OpeningInv, TypeOK,
       stopping, handlers
  <2> QED
    BY <1>9, <2>1, <2>2, <2>3 DEF HandshakeDone, IInv, HandlerBroadcast, ThreadInv,
       BroadcastInv, stopping, broadcasts
<1>10. ASSUME NEW c \in Connections, on_fail(c) PROVE IInv'
  BY <1>10, ConnectionMoves DEF on_fail, Serving, stopping
<1>11. ASSUME NEW c \in Connections, Ended(c) PROVE IInv'
  BY <1>11, ConnectionMoves DEF Ended, stopping
<1>12. CASE UNCHANGED vars
  BY <1>12, OwnerMoves DEF vars, endpoint, stopping, IInv, ThreadInv
<1> QED
  BY <1>1, <1>2, <1>3, <1>4, <1>5, <1>6, <1>7, <1>8, <1>9, <1>10, <1>11, <1>12 DEF Next

\* The invariant holds in every state.
LEMMA Invariance == Spec => []IInv
BY InitIInv, IInvStep, PTL DEF Spec

-----------------------------------------------------------------------------

\* m_connectionsStrMap has an entry for exactly the connections whose open handler
\* was called and whose on_close has not run, but for the entries stop() removed.
THEOREM MapAgreesHolds == Spec => []MapAgrees
<1>1. IInv => MapAgrees
  BY DEF IInv
<1> QED
  BY <1>1, Invariance, PTL

\* on_close() reports the end of every connection that on_open() reported, unless
\* stop() removed its entry before.
THEOREM CloseReportedHolds == Spec => []CloseReported
<1>1. IInv => CloseReported
  BY DEF IInv
<1> QED
  BY <1>1, Invariance, PTL

\* sendMessage() called by a handler on the server thread needs no mutex: only
\* stop() disturbs its iteration, and it reaches no connection that is gone.
THEOREM HandlerBroadcastHolds == Spec => []HandlerBroadcast
<1>1. IInv => HandlerBroadcast
  BY DEF IInv
<1> QED
  BY <1>1, Invariance, PTL

-----------------------------------------------------------------------------
(* What stop() waits for.                                                  *)

\* When stop() has closed what it copied and waits for the server thread, nobody is
\* accepted any more, and the only connections that stay until their clients leave
\* are those that on_open() reports, or reported, behind its copy.
StopEnds ==
  owner \in {"clear", "join"} =>
    /\ ~listening
    /\ \A c \in Connections : connection[c] = "open" => c \in late \/ server = At("opened", c)

\* A server thread ends, and the io_service stops, only without connections, so
\* that none of those an earlier stop() has removed from the map is left; an open
\* one was reported, or is about to be.
RestInv ==
  /\ ioStopped \/ server.at = "none" => \A c \in Connections : connection[c] \in {"none", "gone"}
  /\ owner # "join" => \A c \in cleared : connection[c] = "gone"
  /\ \A c \in Connections : connection[c] = "open" => c \in opened \/ server = At("opened", c)

\* What the copy leaves out is opened behind it.
CopyInv ==
  /\ owner \in {"copy", "close", "clear", "join"} => ~listening
  /\ owner \in {"clear", "join"} => toClose = {}
  /\ owner \in {"close", "clear", "join"} =>
       \A c \in opened : connection[c] = "open" => c \in toClose \cup late

EndInv == RestInv /\ CopyInv

\* One connection changes its state, and the others do not.
LEMMA MoveOne ==
  ASSUME TypeOK, NEW c \in Connections, NEW state, Move(c, state)
  PROVE  connection'[c] = state /\ \A d \in Connections \ {c} : connection'[d] = connection[d]
BY DEF TypeOK, Move

\* The steps of the owner.
LEMMA OwnerEndStep == IInv /\ TypeOK' /\ EndInv /\ (start \/ stop \/ Owner) => EndInv'
<1> SUFFICES ASSUME IInv, TypeOK', EndInv, start \/ stop \/ Owner PROVE EndInv'
  OBVIOUS
<1>0. TypeOK /\ MapAgrees /\ OpeningInv /\ ThreadInv
  BY DEF IInv, MapAgrees
<1> USE DEF EndInv, RestInv, CopyInv, endpoint, handlers
<1>1. CASE start
  BY <1>0, <1>1 DEF start
<1>2. CASE stop
  BY <1>2 DEF stop
<1>3. CASE StartThread
  <2>1. server.at = "none" /\ \A c \in Connections : connection[c] \in {"none", "gone"}
    BY <1>0, <1>3 DEF StartThread, ThreadInv
  <2> QED
    BY <1>0, <1>3, <2>1 DEF StartThread, Nobody
<1>4. CASE stop_listening
  BY <1>4 DEF stop_listening
<1>5. CASE CopyConnections
  <2>1. \A c \in opened : connection[c] = "open" => c \in m_connectionsStrMap
    BY <1>0, <1>5 DEF CopyConnections, MapAgrees, TypeOK
  <2> QED
    BY <1>5, <2>1 DEF CopyConnections
<1>6. ASSUME NEW c \in Connections, close(c) PROVE EndInv'
  <2>1. /\ \A d \in Connections : d # c => connection'[d] = connection[d]
        /\ connection'[c] # "open"
        /\ connection[c] # "open" => connection'[c] = connection[c]
        /\ owner = "close" /\ toClose' = toClose \ {c}
    BY <1>0, <1>6 DEF close, TypeOK
  <2>2. connection[c] = "open" => server.at # "none" /\ ~ioStopped /\ c \notin cleared
    BY <2>1
  <2>3. cleared \subseteq Connections /\ opened \subseteq Connections
    BY <1>0 DEF TypeOK
  <2> QED
    BY <1>6, <2>1, <2>2, <2>3 DEF close
<1>7. CASE AllClosed
  BY <1>7 DEF AllClosed
<1>8. CASE Clear
  BY <1>8 DEF Clear
<1>9. CASE Join
  <2>1. \A c \in cleared : connection[c] = "gone"
    <3>1. \A c \in Connections : connection[c] \in {"none", "gone"}
      BY <1>9 DEF Join
    <3> QED
      BY <1>0, <3>1 DEF OpeningInv, TypeOK
  <2> QED
    BY <1>9, <2>1 DEF Join
<1> QED
  BY <1>1, <1>2, <1>3, <1>4, <1>5, <1>6, <1>7, <1>8, <1>9 DEF Owner

\* A connection that changes its state, on the way from its handshake to its end,
\* and does not become open, preserves the invariant.
LEMMA MoveEndStep ==
  ASSUME TypeOK, EndInv, NEW c \in Connections, NEW state, Move(c, state), state # "open",
         connection[c] = "none" => ~ioStopped /\ server.at # "none",
         state = "gone" \/ connection[c] # "gone",
         UNCHANGED <<listening, ioStopped, server, owner, toClose, cleared, late, opened>>
  PROVE  EndInv'
<1>1. /\ connection'[c] = state
      /\ \A d \in Connections \ {c} : connection'[d] = connection[d]
  BY MoveOne
<1>2. cleared \subseteq Connections /\ opened \subseteq Connections
  BY DEF TypeOK
<1> QED
  BY <1>1, <1>2 DEF EndInv, RestInv, CopyInv

\* The steps of the server thread and of the others.
LEMMA OtherEndStep ==
  ASSUME IInv, TypeOK', EndInv, [Next]_vars, ~(start \/ stop \/ Owner)
  PROVE  EndInv'
<1>0. TypeOK /\ MapAgrees /\ OpeningInv /\ BroadcastInv
  BY DEF IInv, MapAgrees
<1>1. ASSUME NEW c \in Connections, on_open(c) PROVE EndInv'
  <2>1. server = At("opened", c) /\ server.at = "opened" /\ server'.at = "handler"
    BY <1>1, ServerAt DEF on_open, Handling
  <2>2. \A d \in Connections : server = At("opened", d) => d = c
    BY <2>1 DEF At
  <2> QED
    BY <1>1, <2>1, <2>2 DEF on_open, EndInv, RestInv, CopyInv, endpoint, stopping
<1>2. ASSUME NEW c \in Connections, on_close(c) PROVE EndInv'
  <2>1. /\ connection[c] = "ended" /\ connection'[c] = "gone"
        /\ \A d \in Connections \ {c} : connection'[d] = connection[d]
        /\ server.at = "run" /\ server'.at \in {"run", "handler"}
        /\ UNCHANGED <<listening, ioStopped, owner, toClose, cleared, late, opened>>
    BY <1>0, <1>2, MoveOne, ServerAt DEF on_close, Serving, stopping
  <2>2. \A d \in Connections : server # At("opened", d)
    BY <2>1, ServerAt
  <2>3. cleared \subseteq Connections /\ opened \subseteq Connections
    BY <1>0 DEF TypeOK
  <2> QED
    BY <2>1, <2>2, <2>3 DEF EndInv, RestInv, CopyInv
<1>3. CASE HandlerReturns \/ \E s \in Senders : send(s)
  <2>1. server' = server \/ (server.at = "handler" /\ server' = Nobody)
    BY <1>0, <1>3 DEF HandlerReturns, send, BroadcastInv
  <2>2. UNCHANGED <<endpoint, owner, toClose, cleared, late, opened>>
    BY <1>3 DEF HandlerReturns, send, stopping, handlers
  <2>3. server.at = "handler" => \A d \in Connections : server # At("opened", d)
    BY ServerAt
  <2> QED
    BY <2>1, <2>2, <2>3 DEF EndInv, RestInv, CopyInv, Nobody, endpoint
<1>4. CASE runThd
  <2>1. /\ server.at = "run"
        /\ \A c \in Connections : connection[c] \in {"none", "gone"}
        /\ UNCHANGED <<listening, connection, owner, toClose, cleared, late, opened>>
    BY <1>0, <1>4 DEF runThd, HasWork, EndInv, RestInv, stopping, handlers
  <2> QED
    BY <2>1 DEF EndInv, RestInv, CopyInv
<1>5. ASSUME NEW c \in Connections, HandshakeDone(c) PROVE EndInv'
  <2>1. /\ connection[c] = "handshake" /\ connection'[c] = "open"
        /\ \A d \in Connections \ {c} : connection'[d] = connection[d]
        /\ server.at = "run" /\ ~ioStopped /\ server' = At("opened", c) /\ server'.at = "opened"
        /\ UNCHANGED <<listening, ioStopped, owner, toClose, cleared, late, opened>>
    BY <1>0, <1>5, MoveOne, ServerAt DEF HandshakeDone, Serving, stopping, handlers
  <2>2. \A d \in Connections : server # At("opened", d)
    BY <2>1, ServerAt
  <2>3. c \notin opened /\ cleared \subseteq opened /\ opened \subseteq Connections
    BY <1>0, <2>1 DEF OpeningInv, TypeOK
  <2> QED
    BY <2>1, <2>2, <2>3 DEF EndInv, RestInv, CopyInv
<1>6. ASSUME NEW c \in Connections, Accept(c) \/ on_fail(c) \/ PeerCloses(c) \/ Ended(c)
      PROVE  EndInv'
  BY <1>0, <1>6, MoveEndStep
     DEF Accept, on_fail, PeerCloses, Ended, Serving, stopping, handlers
<1>7. ASSUME NEW c \in Connections, on_message(c) PROVE EndInv'
  <2>1. server.at = "run" /\ server'.at = "handler"
    BY <1>7, ServerAt DEF on_message, Serving
  <2>2. \A d \in Connections : server # At("opened", d)
    BY <2>1, ServerAt
  <2> QED
    BY <1>7, <2>1, <2>2 DEF on_message, EndInv, RestInv, CopyInv, endpoint, stopping, handlers
<1>8. CASE \/ UNCHANGED vars
           \/ \E s \in Senders : \/ sendMessage(s) \/ SendReturns(s)
                                 \/ \E c \in Connections : CopyEntry(s, c)
  BY <1>8 DEF vars, sendMessage, SendReturns, CopyEntry, EndInv, RestInv, CopyInv, endpoint,
     stopping, handlers
<1> QED
  BY <1>1, <1>2, <1>3, <1>4, <1>5, <1>6, <1>7, <1>8 DEF Next, ServerThread, Sending, Clients

\* stop() waits for nothing but connections that are ending and those that opened
\* behind its copy.
THEOREM StopEndsHolds == Spec => []StopEnds
<1>1. Init => EndInv
  BY DEF Init, EndInv, RestInv, CopyInv
<1>2. IInv /\ EndInv /\ [Next]_vars => EndInv'
  BY OwnerEndStep, OtherEndStep, TypeStep DEF IInv, MapAgrees
<1>3. EndInv => StopEnds
  BY DEF EndInv, RestInv, CopyInv, StopEnds
<1> QED
  BY <1>1, <1>2, <1>3, Invariance, PTL DEF Spec
=============================================================================
