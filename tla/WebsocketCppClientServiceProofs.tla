------------------- MODULE WebsocketCppClientServiceProofs -------------------
(***************************************************************************)
(* Theorems about WebsocketCppClientService, for any callers and any       *)
(* number of connections.                                                  *)
(***************************************************************************)
EXTENDS WebsocketCppClientService, TLAPS

\* Connections are made in turn, those not made yet have no state, and the client
\* thread opens one that was made.
NumberInv ==
  /\ \A c \in Connections : c > made => connection[c] = "none"
  /\ client.at \in {"opening", "opened"} => client.of # 0

\* As long as no call has overtaken a callback, one connection is alive at a
\* time; while on_open is due for it the flag is not set, and afterwards flag and
\* handle are its own until it is closed or on_close clears the flag.
OneAliveInv ==
  /\ \A c, d \in Connections : Alive(c) /\ Alive(d) => c = d
  /\ client.at \in {"opening", "opened"} => connection[client.of] = "open" /\ ~m_connected
  /\ client.at = "opened" => m_connection_hdl = client.of
  /\ client.at = "exited" => deactivator # "idle" /\ \A c \in Connections : ~Alive(c)
  /\ m_connected => /\ m_connection_hdl # 0
                    /\ connection[m_connection_hdl] \in {"open", "closing", "ended"}
  /\ client.at = "run" => \A c \in Connections :
       connection[c] = "open" => m_connected /\ m_connection_hdl = c

IInv == TypeOK /\ NumberInv /\ (~hasty => OneAliveInv)

-----------------------------------------------------------------------------

\* Initially no connection was made.
LEMMA InitIInv == Init => IInv
<1> SUFFICES ASSUME Init PROVE IInv
  OBVIOUS
<1>1. TypeOK
  <2>1. connection \in [Connections -> {"none", "connecting", "open", "failed", "closing", "ended",
                                        "gone"}]
    BY DEF Init
  <2>2. pc \in [Callers -> {"idle", "evaluate", "waiting", "woken"}] /\ con \in [Callers -> 0..made]
    BY DEF Init
  <2>3. client \in [at : {"run", "opening", "opened", "exited"}, of : 0..made]
    BY DEF Init, Running
  <2>4. made \in 0..MaxConnects /\ m_connection_hdl \in 0..made
    BY ClientAssumption DEF Init
  <2> QED
    BY <2>1, <2>2, <2>3, <2>4, Zenon DEF Init, TypeOK
<1> QED
  BY <1>1 DEF Init, IInv, NumberInv, OneAliveInv, Alive, Running, Connections

\* The client thread between two callbacks.
LEMMA RunningAt == Running.at = "run" /\ Running.of = 0
BY DEF Running

\* One connection changes its state, and the others do not.
LEMMA MoveOne ==
  ASSUME TypeOK, NEW c \in Connections, NEW state, Move(c, state)
  PROVE  connection'[c] = state /\ \A d \in Connections \ {c} : connection'[d] = connection[d]
BY DEF TypeOK, Move

\* A step preserves the types and the numbering.
LEMMA TypeStep == TypeOK /\ NumberInv /\ [Next]_vars => TypeOK' /\ NumberInv'
<1> SUFFICES ASSUME TypeOK, NumberInv, [Next]_vars PROVE TypeOK' /\ NumberInv'
  OBVIOUS
<1> USE ClientAssumption, RunningAt DEF TypeOK, NumberInv, Connections, calling
<1>1. ASSUME NEW t \in Callers, connect(t) PROVE TypeOK' /\ NumberInv'
  BY <1>1 DEF connect, Move
<1>2. ASSUME NEW t \in Callers, EvaluatePredicate(t) \/ SpuriousWakeup(t)
      PROVE  TypeOK' /\ NumberInv'
  BY <1>2 DEF EvaluatePredicate, SpuriousWakeup
<1>3. ASSUME CloseHandle, deactivator' \in {deactivator, "join"} PROVE TypeOK' /\ NumberInv'
  BY <1>3 DEF CloseHandle, NotifyAll
<1>4. ASSUME NEW c \in Connections, PeerCloses(c) \/ Ended(c) \/ HandshakeFails(c)
      PROVE  TypeOK' /\ NumberInv'
  BY <1>4 DEF PeerCloses, Ended, HandshakeFails, Move
<1>5. ASSUME NEW c \in Connections, HandshakeDone(c) PROVE TypeOK' /\ NumberInv'
  BY <1>5 DEF HandshakeDone, Move
<1>6. ASSUME NEW c \in Connections, on_fail(c) \/ on_close(c) PROVE TypeOK' /\ NumberInv'
  BY <1>6 DEF on_fail, on_close, Move, NotifyAll
<1>7. CASE AssignHandle
  BY <1>7 DEF AssignHandle
<1>8. CASE on_open
  BY <1>8 DEF on_open, NotifyAll, Running
<1>9. CASE RunReturns
  BY <1>9 DEF RunReturns
<1>10. CASE Join
  BY <1>10 DEF Join
<1>11. CASE UNCHANGED vars
  BY <1>11 DEF vars
<1> QED
  BY <1>1, <1>2, <1>3, <1>4, <1>5, <1>6, <1>7, <1>8, <1>9, <1>10, <1>11
     DEF Next, Client, close, deactivate

-----------------------------------------------------------------------------

\* A step that no call hurries keeps one connection alive at a time.
LEMMA OneAliveStep == IInv /\ [Next]_vars /\ TypeOK' /\ ~hasty' => OneAliveInv'
<1> SUFFICES ASSUME IInv, [Next]_vars, TypeOK', ~hasty' PROVE OneAliveInv'
  OBVIOUS
<1> USE ClientAssumption, RunningAt DEF calling
<1>0. TypeOK /\ NumberInv
  BY DEF IInv
<1>1. ASSUME NEW t \in Callers, connect(t) PROVE OneAliveInv'
  <2>1. /\ ~hasty /\ \A c \in Connections : ~Alive(c)
        /\ made + 1 \in Connections /\ ~m_connected /\ deactivator = "idle"
        /\ UNCHANGED <<m_connected, m_connection_hdl, client, deactivator>>
    <3>1. made + 1 \in Connections
      BY <1>0, <1>1 DEF connect, Connections, TypeOK
    <3>2. ~hasty /\ \A c \in Connections : ~Alive(c)
      BY <1>1 DEF connect
    <3> QED
      BY <1>1, <3>1, <3>2 DEF connect
  <2>2. /\ connection'[made + 1] = "connecting"
        /\ \A d \in Connections \ {made + 1} : connection'[d] = connection[d]
    BY <1>0, <1>1, <2>1, MoveOne DEF connect
  <2>3. client.at = "run" /\ OneAliveInv
    <3>1. OneAliveInv
      BY <2>1 DEF IInv
    <3>2. client.at \in {"opening", "opened"} => client.of \in Connections
      BY <1>0 DEF TypeOK, NumberInv, Connections
    <3> QED
      BY <1>0, <2>1, <3>1, <3>2 DEF OneAliveInv, TypeOK, Alive
  <2> QED
    BY <2>1, <2>2, <2>3 DEF OneAliveInv, Alive
<1>2. ASSUME NEW t \in Callers, EvaluatePredicate(t) \/ SpuriousWakeup(t) PROVE OneAliveInv'
  BY <1>2 DEF EvaluatePredicate, SpuriousWakeup, IInv, OneAliveInv, Alive
<1>3. ASSUME CloseHandle, deactivator' \in {deactivator, "join"} PROVE OneAliveInv'
  <2>1. ~hasty /\ OneAliveInv /\ \A c \in Connections : ~Opening(c)
    BY <1>3 DEF CloseHandle, IInv
  <2>2. client.at \notin {"opening", "opened"}
    <3>1. client.at \in {"opening", "opened"} => client.of \in Connections
      BY <1>0 DEF TypeOK, NumberInv, Connections
    <3>2. client.at \in {"opening", "opened"} =>
            client \in [at : {"opening", "opened"}, of : {client.of}]
      BY <1>0 DEF TypeOK
    <3> QED
      BY <2>1, <3>1, <3>2 DEF Opening
  <2>3. \A c \in Connections :
          /\ connection'[c] # connection[c] => connection[c] = "open" /\ connection'[c] = "closing"
          /\ connection'[c] = "open" => c # m_connection_hdl /\ connection[c] = "open"
    BY <1>0, <1>3 DEF CloseHandle, TypeOK
  <2>4. UNCHANGED <<client, m_connection_hdl>> /\ ~m_connected'
    BY <1>3 DEF CloseHandle
  <2> QED
    BY <1>0, <1>3, <2>1, <2>2, <2>3, <2>4 DEF OneAliveInv, Alive, TypeOK
<1>4. ASSUME NEW c \in Connections, PeerCloses(c) \/ Ended(c) \/ HandshakeFails(c)
      PROVE  OneAliveInv'
  <2>1. /\ connection'[c] \in {"closing", "ended", "failed"} /\ Alive(c)
        /\ connection[c] = "open" => connection'[c] = "closing" /\ client.at = "run"
        /\ connection[c] = "closing" => connection'[c] = "ended"
        /\ connection[c] \in {"open", "closing", "connecting"}
        /\ \A d \in Connections \ {c} : connection'[d] = connection[d]
        /\ UNCHANGED <<m_connected, m_connection_hdl, client, deactivator, hasty>>
    BY <1>0, <1>4, MoveOne DEF PeerCloses, Ended, HandshakeFails, Alive
  <2>2. client.at \in {"opening", "opened"} => client.of \in Connections
    BY <1>0 DEF TypeOK, NumberInv, Connections
  <2>3. m_connection_hdl # 0 => m_connection_hdl \in Connections
    BY <1>0 DEF TypeOK, Connections
  <2> QED
    BY <2>1, <2>2, <2>3 DEF IInv, OneAliveInv, Alive
<1>5. ASSUME NEW c \in Connections, HandshakeDone(c) PROVE OneAliveInv'
  <2>1. /\ connection[c] = "connecting" /\ connection'[c] = "open" /\ Alive(c)
        /\ client.at = "run" /\ client'.at = "opening" /\ client'.of = c
        /\ \A d \in Connections \ {c} : connection'[d] = connection[d]
        /\ UNCHANGED <<m_connected, m_connection_hdl, deactivator, hasty>>
    BY <1>0, <1>5, MoveOne DEF HandshakeDone, Alive
  <2>2. OneAliveInv
    BY <2>1 DEF IInv
  <2>3. ~m_connected
    <3>1. m_connection_hdl # 0 => m_connection_hdl \in Connections
      BY <1>0 DEF TypeOK, Connections
    <3> QED
      BY <2>1, <2>2, <3>1 DEF OneAliveInv, Alive
  <2> QED
    BY <2>1, <2>2, <2>3 DEF OneAliveInv, Alive
<1>6. ASSUME NEW c \in Connections, on_fail(c) \/ on_close(c) PROVE OneAliveInv'
  <2>1. /\ connection[c] \in {"failed", "ended"} /\ connection'[c] = "gone" /\ Alive(c)
        /\ client.at = "run" /\ ~m_connected'
        /\ \A d \in Connections \ {c} : connection'[d] = connection[d]
        /\ UNCHANGED <<m_connection_hdl, client, deactivator, hasty>>
    BY <1>0, <1>6, MoveOne DEF on_fail, on_close, Alive
  <2> QED
    BY <2>1 DEF IInv, OneAliveInv, Alive
<1>7. CASE AssignHandle
  <2>1. /\ client.at = "opening" /\ client'.at = "opened" /\ client'.of = client.of
        /\ m_connection_hdl' = client.of
        /\ UNCHANGED <<m_connected, connection, deactivator, hasty>>
    BY <1>0, <1>7 DEF AssignHandle, TypeOK
  <2> QED
    BY <2>1 DEF IInv, OneAliveInv, Alive
<1>8. CASE on_open
  <2>1. /\ client.at = "opened" /\ client'.at = "run" /\ m_connected'
        /\ UNCHANGED <<m_connection_hdl, connection, deactivator, hasty>>
        /\ client.of # 0 /\ client.of \in Connections
    BY <1>0, <1>8 DEF on_open, NumberInv, TypeOK, Connections
  <2> QED
    BY <2>1 DEF IInv, OneAliveInv, Alive
<1>9. CASE RunReturns
  <2>1. /\ client.at = "run" /\ client'.at = "exited" /\ deactivator = "join"
        /\ \A c \in Connections : ~Alive(c)
        /\ UNCHANGED <<m_connected, m_connection_hdl, connection, deactivator, hasty>>
    BY <1>0, <1>9 DEF RunReturns, TypeOK
  <2> QED
    BY <2>1 DEF IInv, OneAliveInv, Alive
<1>10. CASE Join
  BY <1>10 DEF Join, IInv, OneAliveInv, Alive
<1>11. CASE UNCHANGED vars
  BY <1>11 DEF vars, IInv, OneAliveInv, Alive
<1> QED
  BY <1>1, <1>2, <1>3, <1>4, <1>5, <1>6, <1>7, <1>8, <1>9, <1>10, <1>11
     DEF Next, Client, close, deactivate

\* The invariant holds in every state.
LEMMA Invariance == Spec => []IInv
<1>1. IInv /\ [Next]_vars => IInv'
  BY TypeStep, OneAliveStep DEF IInv
<1> QED
  BY <1>1, InitIInv, PTL DEF Spec

\* Unless a call overtakes a callback, the flag and the handle are those of the
\* connection that is open.
THEOREM ConnectedAgreesHolds == Spec => []ConnectedAgrees
<1>1. IInv => ConnectedAgrees
  <2> SUFFICES ASSUME IInv, ~hasty, NEW c \in Connections
               PROVE  /\ connection[c] = "open" /\ ~Opening(c) => m_connected /\ m_connection_hdl = c
                      /\ m_connected /\ m_connection_hdl = c => connection[c] # "gone"
    BY DEF IInv, ConnectedAgrees
  <2>1. TypeOK /\ OneAliveInv /\ NumberInv
    BY DEF IInv
  <2>2. client.at \in {"opening", "opened"} => client.of \in Connections
    BY <2>1, ClientAssumption DEF TypeOK, NumberInv, Connections
  <2>3. client.at \in {"opening", "opened"} =>
          client \in [at : {"opening", "opened"}, of : {client.of}]
    BY <2>1 DEF TypeOK
  <2>4. connection[c] = "open" /\ ~Opening(c) => client.at = "run"
    BY <2>1, <2>2, <2>3 DEF OneAliveInv, Alive, Opening, TypeOK
  <2> QED
    BY <2>1, <2>4 DEF OneAliveInv
<1> QED
  BY <1>1, Invariance, PTL

-----------------------------------------------------------------------------
(* What connect() and deactivate() wait for.                               *)

\* A connect() that sleeps is not forgotten: its connection is still being opened,
\* or the callback that will notify it is due, although websocketpp changes the
\* state it waits for without its mutex.
WaiterHeard ==
  \A t \in Callers : pc[t] = "waiting" =>
    \/ connection[con[t]] \in {"connecting", "failed"}
    \/ client.at \in {"opening", "opened"} /\ client.of = con[t]

\* A caller in connect() waits for a connection that was made.
ConInv == \A t \in Callers : pc[t] # "idle" => con[t] \in 1..made

LEMMA ConStep == TypeOK /\ ConInv /\ [Next]_vars => ConInv'
<1> SUFFICES ASSUME TypeOK, ConInv, [Next]_vars PROVE ConInv'
  OBVIOUS
<1> USE ClientAssumption DEF TypeOK, ConInv, calling
<1>1. ASSUME NEW t \in Callers, connect(t) PROVE ConInv'
  BY <1>1 DEF connect
<1>2. ASSUME NEW t \in Callers, EvaluatePredicate(t) \/ SpuriousWakeup(t) PROVE ConInv'
  BY <1>2 DEF EvaluatePredicate, SpuriousWakeup
<1>3. ASSUME NotifyAll, UNCHANGED <<con, made>> PROVE ConInv'
  BY <1>3 DEF NotifyAll
<1>4. CASE UNCHANGED <<pc, con, made>>
  BY <1>4
<1> QED
  BY <1>1, <1>2, <1>3, <1>4 DEF Next, Client, close, deactivate, CloseHandle, PeerCloses, Ended,
     HandshakeDone, HandshakeFails, AssignHandle, on_open, on_fail, on_close, RunReturns, Join, vars

\* A step keeps every connect() that sleeps within reach of a notification.
LEMMA WaiterStep ==
  TypeOK /\ NumberInv /\ ConInv /\ WaiterHeard /\ [Next]_vars => WaiterHeard'
<1> SUFFICES ASSUME TypeOK, NumberInv, ConInv, WaiterHeard, [Next]_vars PROVE WaiterHeard'
  OBVIOUS
<1> USE ClientAssumption, RunningAt DEF WaiterHeard, calling
<1>0. \A t \in Callers : pc[t] # "idle" => con[t] \in Connections /\ con[t] <= made
  BY DEF TypeOK, ConInv, Connections
<1>1. ASSUME NEW t \in Callers, connect(t) PROVE WaiterHeard'
  <2>1. made + 1 \in Connections
    BY <1>1 DEF connect, Connections, TypeOK
  <2>2. \A u \in Callers : pc'[u] = "waiting" =>
          pc[u] = "waiting" /\ con'[u] = con[u] /\ con[u] # made + 1 /\ con[u] \in Connections
    BY <1>0, <1>1 DEF connect, TypeOK
  <2>3. \A d \in Connections \ {made + 1} : connection'[d] = connection[d]
    BY <1>1, <2>1, MoveOne DEF connect
  <2> QED
    BY <1>1, <2>2, <2>3 DEF connect
<1>2. ASSUME NEW t \in Callers, EvaluatePredicate(t) \/ SpuriousWakeup(t) PROVE WaiterHeard'
  BY <1>2 DEF EvaluatePredicate, SpuriousWakeup, TypeOK
<1>3. ASSUME NotifyAll PROVE WaiterHeard'
  BY <1>3 DEF NotifyAll
<1>4. ASSUME NEW c \in Connections, PeerCloses(c) \/ Ended(c) PROVE WaiterHeard'
  <2>1. /\ connection[c] \in {"open", "closing"}
        /\ \A d \in Connections \ {c} : connection'[d] = connection[d]
        /\ UNCHANGED <<pc, con, client>>
    BY <1>4, MoveOne DEF PeerCloses, Ended
  <2> QED
    BY <1>0, <2>1
<1>5. ASSUME NEW c \in Connections, HandshakeDone(c) PROVE WaiterHeard'
  <2>1. /\ client.at = "run" /\ client'.at = "opening" /\ client'.of = c
        /\ \A d \in Connections \ {c} : connection'[d] = connection[d]
        /\ UNCHANGED <<pc, con>>
    BY <1>5, MoveOne DEF HandshakeDone
  <2> QED
    BY <1>0, <2>1
<1>6. ASSUME NEW c \in Connections, HandshakeFails(c) PROVE WaiterHeard'
  <2>1. /\ connection'[c] = "failed"
        /\ \A d \in Connections \ {c} : connection'[d] = connection[d]
        /\ UNCHANGED <<pc, con, client>>
    BY <1>6, MoveOne DEF HandshakeFails
  <2> QED
    BY <1>0, <2>1
<1>7. CASE AssignHandle
  BY <1>7 DEF AssignHandle, TypeOK
<1>8. CASE RunReturns
  BY <1>8 DEF RunReturns
<1>9. CASE Join \/ UNCHANGED vars
  BY <1>9 DEF Join, vars
<1> QED
  BY <1>1, <1>2, <1>3, <1>4, <1>5, <1>6, <1>7, <1>8, <1>9
     DEF Next, Client, close, deactivate, CloseHandle, on_open, on_fail, on_close

\* A connect() that sleeps will be notified when its connection opens or fails.
THEOREM WaiterHeardHolds == Spec => []WaiterHeard
<1>1. Init => ConInv /\ WaiterHeard
  BY DEF Init, ConInv, WaiterHeard
<1>2. IInv => TypeOK /\ NumberInv
  BY DEF IInv
<1> QED
  BY <1>1, <1>2, ConStep, WaiterStep, Invariance, PTL DEF Spec

\* deactivate() leaves nothing behind that only the peer could end, and that would
\* keep run() and the join waiting: no connection is open or being opened any more,
\* unless a call had overtaken a callback.
DeactivateEnds ==
  deactivator # "idle" =>
    /\ \A t \in Callers : pc[t] = "idle"
    /\ hasty \/ \A c \in Connections : connection[c] \notin {"connecting", "open"}

\* A step preserves it: without calls nothing opens, and deactivate() closes what
\* is open, which by then is the connection of its handle.
LEMMA EndsStep == IInv /\ DeactivateEnds /\ [Next]_vars => DeactivateEnds'
<1> SUFFICES ASSUME IInv, DeactivateEnds, [Next]_vars PROVE DeactivateEnds'
  OBVIOUS
<1>0. TypeOK /\ NumberInv /\ (~hasty => OneAliveInv)
  BY DEF IInv
<1> USE DEF DeactivateEnds, calling
<1>1. ASSUME NEW t \in Callers, connect(t) \/ close(t) \/ EvaluatePredicate(t) \/ SpuriousWakeup(t)
      PROVE  DeactivateEnds'
  BY <1>0, <1>1 DEF connect, close, CloseHandle, EvaluatePredicate, SpuriousWakeup, TypeOK
<1>2. CASE deactivate
  <2>1. \A t \in Callers : pc'[t] = "idle"
    BY <1>0, <1>2 DEF deactivate, CloseHandle, NotifyAll, TypeOK
  <2>2. ASSUME ~hasty', NEW c \in Connections PROVE connection'[c] \notin {"connecting", "open"}
    <3>1. ~hasty /\ \A d \in Connections : ~Opening(d)
      BY <1>2, <2>2 DEF deactivate, CloseHandle
    <3>2. client.at \notin {"opening", "opened"}
      <4>1. client.at \in {"opening", "opened"} => client.of \in Connections
        BY <1>0, ClientAssumption DEF TypeOK, NumberInv, Connections
      <4>2. client.at \in {"opening", "opened"} =>
              client \in [at : {"opening", "opened"}, of : {client.of}]
        BY <1>0 DEF TypeOK
      <4> QED
        BY <3>1, <4>1, <4>2 DEF Opening
    <3>3. connection[c] = "open" => m_connection_hdl = c
      BY <1>0, <3>1, <3>2 DEF OneAliveInv, Alive, TypeOK
    <3>4. connection[c] # "connecting"
      BY <3>1 DEF Opening
    <3> QED
      BY <1>0, <1>2, <3>3, <3>4 DEF deactivate, CloseHandle, TypeOK
  <2> QED
    BY <2>1, <2>2
<1>3. ASSUME NEW c \in Connections,
             \/ PeerCloses(c) \/ Ended(c) \/ HandshakeDone(c) \/ HandshakeFails(c)
             \/ on_fail(c) \/ on_close(c)
      PROVE  DeactivateEnds'
  <2>1. /\ \A d \in Connections \ {c} : connection'[d] = connection[d]
        /\ \/ connection'[c] \in {"closing", "failed", "ended", "gone"}
           \/ connection[c] = "connecting"
        /\ UNCHANGED <<deactivator, hasty>>
    BY <1>0, <1>3, MoveOne
       DEF PeerCloses, Ended, HandshakeDone, HandshakeFails, on_fail, on_close
  <2>2. (\A t \in Callers : pc[t] = "idle") => \A t \in Callers : pc'[t] = "idle"
    BY <1>0, <1>3 DEF PeerCloses, Ended, HandshakeDone, HandshakeFails, on_fail, on_close,
                      NotifyAll, TypeOK
  <2> QED
    BY <2>1, <2>2
<1>4. CASE AssignHandle \/ RunReturns \/ Join \/ UNCHANGED vars
  BY <1>4 DEF AssignHandle, RunReturns, Join, vars
<1>5. CASE on_open
  BY <1>0, <1>5 DEF on_open, NotifyAll, TypeOK
<1> QED
  BY <1>1, <1>2, <1>3, <1>4, <1>5 DEF Next, Client

\* Once deactivate() has closed its handle, every connection is on its way out.
THEOREM DeactivateEndsHolds == Spec => []DeactivateEnds
<1>1. Init => DeactivateEnds
  BY DEF Init, DeactivateEnds
<1> QED
  BY <1>1, EndsStep, Invariance, PTL DEF Spec
=============================================================================
