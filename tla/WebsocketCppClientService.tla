---------------------- MODULE WebsocketCppClientService ----------------------
(***************************************************************************)
(* src/WebsocketCppClientService/WebsocketCppClientService.cpp: callers    *)
(* connect() and close(); one client thread runs the io_service and the    *)
(* callbacks on_open, on_fail and on_close.  m_connected is written under  *)
(* m_connectedMux by both sides, m_connection_hdl by on_open without it;   *)
(* connect() waits for its connection to leave the state connecting, which *)
(* websocketpp changes before, and outside the mutex of, the callback.     *)
(*                                                                         *)
(* Messages and pings go to m_connection_hdl and change nothing here.      *)
(***************************************************************************)
EXTENDS Naturals

CONSTANTS
  Callers,
  MaxConnects  \* bound: connections made

ASSUME ClientAssumption == MaxConnects \in Nat

VARIABLES
  m_connected,
  m_connection_hdl,  \* 0 before the first on_open
  made,              \* connections made so far; they are numbered
  connection,        \* the state of each of them
  client,            \* what the client thread is doing, and for which connection
  pc,                \* where each caller is in connect()
  con,               \* the connection each caller waits for
  deactivator,       \* where deactivate() is
  hasty              \* history: a call overtook a callback that was due

calling == <<pc, con>>
vars == <<m_connected, m_connection_hdl, made, connection, client, calling, deactivator, hasty>>

Connections == 1..MaxConnects
Running == [at |-> "run", of |-> 0]

TypeOK ==
  /\ m_connected \in BOOLEAN /\ hasty \in BOOLEAN
  /\ m_connection_hdl \in 0..made
  /\ made \in 0..MaxConnects
  /\ connection \in [Connections -> {"none", "connecting", "open", "failed", "closing", "ended",
                                     "gone"}]
  /\ client \in [at : {"run", "opening", "opened", "exited"}, of : 0..made]
  /\ pc \in [Callers -> {"idle", "evaluate", "waiting", "woken"}]
  /\ con \in [Callers -> 0..made]
  /\ deactivator \in {"idle", "join", "done"}

\* activate() has started the client thread, with perpetual work.
Init ==
  /\ m_connected = FALSE
  /\ m_connection_hdl = 0
  /\ made = 0
  /\ connection = [c \in Connections |-> "none"]
  /\ client = Running
  /\ pc = [t \in Callers |-> "idle"]
  /\ con = [t \in Callers |-> 0]
  /\ deactivator = "idle"
  /\ hasty = FALSE

\* m_connectedMux is held over a step only by connect(), up to its wait.
MutexFree == \A t \in Callers : pc[t] # "evaluate"

NotifyAll == pc' = [t \in Callers |-> IF pc[t] = "waiting" THEN "woken" ELSE pc[t]]

Alive(c) == connection[c] \notin {"none", "gone"}

\* on_open has not run yet.
Opening(c) == connection[c] = "connecting" \/ client \in [at : {"opening", "opened"}, of : {c}]

Move(c, state) == connection' = [connection EXCEPT ![c] = state]

-----------------------------------------------------------------------------
(* The callers.                                                            *)

\* Connected already, or for a bad URI, connect returns at once.
connect(t) ==
  /\ deactivator = "idle"
  /\ pc[t] = "idle"
  /\ MutexFree
  /\ ~m_connected
  /\ made < MaxConnects
  /\ made' = made + 1
  /\ Move(made + 1, "connecting")
  /\ con' = [con EXCEPT ![t] = made + 1]
  /\ pc' = [pc EXCEPT ![t] = "evaluate"]
  /\ hasty' = (hasty \/ \E c \in Connections : Alive(c))
  /\ UNCHANGED <<m_connected, m_connection_hdl, client, deactivator>>

EvaluatePredicate(t) ==
  /\ \/ pc[t] = "evaluate"
     \/ pc[t] = "woken" /\ MutexFree
  /\ pc' = [pc EXCEPT ![t] = IF connection[con[t]] = "connecting" THEN "waiting" ELSE "idle"]
  /\ UNCHANGED <<m_connected, m_connection_hdl, made, connection, client, con, deactivator, hasty>>

SpuriousWakeup(t) ==
  /\ pc[t] = "waiting"
  /\ pc' = [pc EXCEPT ![t] = "woken"]
  /\ UNCHANGED <<m_connected, m_connection_hdl, made, connection, client, con, deactivator, hasty>>

\* The body of close(): the handle is that of the last on_open, and only an
\* open connection can be closed.
CloseHandle ==
  /\ MutexFree
  /\ connection' = [c \in Connections |->
       IF c = m_connection_hdl /\ connection[c] = "open" THEN "closing" ELSE connection[c]]
  /\ m_connected' = FALSE
  /\ NotifyAll
  /\ hasty' = (hasty \/ \E c \in Connections : Opening(c))
  /\ UNCHANGED <<m_connection_hdl, made, client, con>>

close(t) ==
  /\ deactivator = "idle"
  /\ pc[t] = "idle"
  /\ CloseHandle
  /\ UNCHANGED deactivator

\* Mutant: the connection is left open.
deactivate_NoClose ==
  /\ deactivator = "idle"
  /\ \A t \in Callers : pc[t] = "idle"
  /\ deactivator' = "join"
  /\ hasty' = (hasty \/ \E c \in Connections : Opening(c))
  /\ UNCHANGED <<m_connected, m_connection_hdl, made, connection, client, calling>>

\* stop_perpetual and close; then the join.
deactivate ==
  /\ deactivator = "idle"
  /\ \A t \in Callers : pc[t] = "idle"
  /\ CloseHandle
  /\ deactivator' = "join"

Join ==
  /\ deactivator = "join"
  /\ client.at = "exited"
  /\ deactivator' = "done"
  /\ UNCHANGED <<m_connected, m_connection_hdl, made, connection, client, calling, hasty>>

-----------------------------------------------------------------------------
(* websocketpp and the peer.                                               *)

\* The state is open before on_open is called.
HandshakeDone(c) ==
  /\ client = Running
  /\ connection[c] = "connecting"
  /\ Move(c, "open")
  /\ client' = [at |-> "opening", of |-> c]
  /\ UNCHANGED <<m_connected, m_connection_hdl, made, calling, deactivator, hasty>>

\* Refused, rejected, or timed out.
HandshakeFails(c) ==
  /\ client = Running
  /\ connection[c] = "connecting"
  /\ Move(c, "failed")
  /\ UNCHANGED <<m_connected, m_connection_hdl, made, client, calling, deactivator, hasty>>

PeerCloses(c) ==
  /\ client = Running
  /\ connection[c] = "open"
  /\ Move(c, "closing")
  /\ UNCHANGED <<m_connected, m_connection_hdl, made, client, calling, deactivator, hasty>>

\* The closing handshake is over, or its timeout.
Ended(c) ==
  /\ connection[c] = "closing"
  /\ Move(c, "ended")
  /\ UNCHANGED <<m_connected, m_connection_hdl, made, client, calling, deactivator, hasty>>

-----------------------------------------------------------------------------
(* The client thread.                                                      *)

\* The handle is assigned before the mutex is taken.
AssignHandle ==
  /\ client.at = "opening"
  /\ m_connection_hdl' = client.of
  /\ client' = [client EXCEPT !.at = "opened"]
  /\ UNCHANGED <<m_connected, made, connection, calling, deactivator, hasty>>

on_open ==
  /\ client.at = "opened"
  /\ MutexFree
  /\ m_connected' = TRUE
  /\ NotifyAll
  /\ client' = Running
  /\ UNCHANGED <<m_connection_hdl, made, connection, con, deactivator, hasty>>

\* Mutant: nobody is notified.
on_fail_Silent(c) ==
  /\ client = Running
  /\ connection[c] = "failed"
  /\ MutexFree
  /\ m_connected' = FALSE
  /\ Move(c, "gone")
  /\ UNCHANGED <<m_connection_hdl, made, client, calling, deactivator, hasty>>

on_fail(c) ==
  /\ client = Running
  /\ connection[c] = "failed"
  /\ MutexFree
  /\ m_connected' = FALSE
  /\ NotifyAll
  /\ Move(c, "gone")
  /\ UNCHANGED <<m_connection_hdl, made, client, con, deactivator, hasty>>

\* Mutant: the flag stays set.
on_close_KeepFlag(c) ==
  /\ client = Running
  /\ connection[c] = "ended"
  /\ MutexFree
  /\ NotifyAll
  /\ Move(c, "gone")
  /\ UNCHANGED <<m_connected, m_connection_hdl, made, client, con, deactivator, hasty>>

on_close(c) ==
  /\ client = Running
  /\ connection[c] = "ended"
  /\ MutexFree
  /\ m_connected' = FALSE
  /\ NotifyAll
  /\ Move(c, "gone")
  /\ UNCHANGED <<m_connection_hdl, made, client, con, deactivator, hasty>>

\* run() returns when the perpetual work is given up and no connection is left.
RunReturns ==
  /\ client = Running
  /\ deactivator = "join"
  /\ \A c \in Connections : ~Alive(c)
  /\ client' = [client EXCEPT !.at = "exited"]
  /\ UNCHANGED <<m_connected, m_connection_hdl, made, connection, calling, deactivator, hasty>>

-----------------------------------------------------------------------------

Client ==
  \/ AssignHandle \/ on_open \/ RunReturns
  \/ \E c \in Connections : HandshakeDone(c) \/ HandshakeFails(c) \/ on_fail(c) \/ on_close(c)

Next ==
  \/ \E t \in Callers : connect(t) \/ EvaluatePredicate(t) \/ SpuriousWakeup(t) \/ close(t)
  \/ \E c \in Connections : PeerCloses(c) \/ Ended(c)
  \/ Client \/ deactivate \/ Join

Spec == Init /\ [][Next]_vars

\* Threads run, the io_service serves its events, and websocketpp bounds
\* handshakes by timeouts.  Nobody need call close() or deactivate().
FairSpec ==
  /\ Spec
  /\ \A t \in Callers : WF_vars(EvaluatePredicate(t))
  /\ WF_vars(Client)
  /\ WF_vars(Join \/ \E c \in Connections : Ended(c))

-----------------------------------------------------------------------------
(* Properties.                                                             *)

\* isConnected() tells the truth and close() acts on the right connection, once
\* the callbacks due have run, provided that no call overtook one: connect() while
\* an earlier connection is still on its way out (its on_close would clear the
\* flag of the new one), or close() before on_open (it closes the handle before).
ConnectedAgrees ==
  /\ TypeOK
  /\ hasty \/ \A c \in Connections :
       /\ connection[c] = "open" /\ ~Opening(c) => m_connected /\ m_connection_hdl = c
       /\ m_connected /\ m_connection_hdl = c => connection[c] # "gone"

\* A connect() that waits is woken when its connection opens or fails, although
\* websocketpp changes the state it waits for outside the mutex.
ConnectReturns == \A t \in Callers : pc[t] # "idle" ~> pc[t] = "idle"

\* deactivate() ends the client thread: every connection is closed by then or by
\* its close(), unless a call that overtook a callback has orphaned one.
DeactivateReturns == deactivator = "join" ~> deactivator = "done" \/ hasty
=============================================================================
