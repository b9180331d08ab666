---------------------------- MODULE MqttConnection ----------------------------
(***************************************************************************)
(* The connection of src/MqttService/MqttService.cpp: create(), connect(), *)
(* disconnect(), destroy() and the callbacks of connecting and             *)
(* disconnecting.  disconnect() replaces m_disconnect_promise_uptr, asks   *)
(* Paho to disconnect, and waits up to 5 s for onDisconnect() or           *)
(* onDisconnectFailure() to set the promise of that moment, whatever they  *)
(* answer.  No mutex protects the promise.                                 *)
(*                                                                         *)
(* Outside is the Paho client: it accepts a disconnect only of a connected *)
(* client, answers it some time or never, and reconnects by itself until   *)
(* it is told to disconnect.  Callers' handlers change nothing here.       *)
(***************************************************************************)
EXTENDS Naturals

CONSTANTS
  Threads,        \* the callers of the interface
  MaxDisconnects  \* bound: calls of disconnect, those of destroy included

ASSUME ConnectionAssumption == MaxDisconnects \in Nat \ {0}

VARIABLES
  m_client,                    \* whether there is a client
  m_connected,
  m_disconnect_promise_uptr,   \* the call whose promise it is; 0 for null
  retrieved, satisfied, broken,  \* promises whose future was got, that were set, destroyed before
  value,                       \* what each satisfied promise was set to
  link,                        \* the connection to the broker
  shouldBeConnected,           \* Paho reconnects
  commands,                    \* disconnects Paho has accepted and not answered
  calls,                       \* calls of disconnect so far; they are numbered
  pc,                          \* where each thread is in disconnect() or destroy()
  mine,                        \* the promise whose future it waits for
  terminated,                  \* a promise was set twice: uncaught in a Paho thread
  setBy,                       \* history: whose answer satisfied each promise
  overtaken,                   \* history: connect or disconnect was called while Disconnecting
  quiet                        \* history: a disconnect succeeded, and no connect was called since

promises == <<m_disconnect_promise_uptr, retrieved, satisfied, broken, value, setBy>>
paho == <<link, shouldBeConnected, commands>>
vars == <<m_client, m_connected, promises, paho, calls, pc, mine, terminated, overtaken, quiet>>

Calls == 1..MaxDisconnects

Places == [at : {"idle", "future", "ask", "wait"}, destroy : BOOLEAN]

TypeOK ==
  /\ m_client \in BOOLEAN /\ m_connected \in BOOLEAN /\ shouldBeConnected \in BOOLEAN
  /\ terminated \in BOOLEAN /\ overtaken \in BOOLEAN /\ quiet \in BOOLEAN
  /\ m_disconnect_promise_uptr \in 0..calls
  /\ retrieved \subseteq Calls /\ satisfied \subseteq Calls
  /\ broken \subseteq Calls /\ commands \subseteq Calls
  /\ value \in [Calls -> BOOLEAN]
  /\ link \in {"down", "connecting", "up"}
  /\ calls \in 0..MaxDisconnects
  /\ pc \in [Threads -> Places]
  /\ mine \in [Threads -> 0..MaxDisconnects]
  /\ setBy \in [Calls -> 0..MaxDisconnects]

Idle == [at |-> "idle", destroy |-> FALSE]

\* A disconnect is in progress, or was given up and may still be answered.
Disconnecting == commands # {} \/ \E t \in Threads : pc[t] # Idle

Init ==
  /\ m_client = FALSE
  /\ m_connected = FALSE
  /\ m_disconnect_promise_uptr = 0
  /\ retrieved = {} /\ satisfied = {} /\ broken = {}
  /\ value = [d \in Calls |-> FALSE]
  /\ link = "down"
  /\ shouldBeConnected = FALSE
  /\ commands = {}
  /\ calls = 0
  /\ pc = [t \in Threads |-> Idle]
  /\ mine = [t \in Threads |-> 0]
  /\ terminated = FALSE
  /\ setBy = [d \in Calls |-> 0]
  /\ overtaken = FALSE
  /\ quiet = FALSE

-----------------------------------------------------------------------------
(* The callers.                                                            *)

\* create() throws if there is a client.
create(t) ==
  /\ pc[t] = Idle
  /\ ~m_client
  /\ m_client' = TRUE
  /\ UNCHANGED <<m_connected, promises, paho, calls, pc, mine, terminated, overtaken, quiet>>

\* Without a client, or when Paho refuses because it is connecting, connect()
\* throws after it has cleared m_connected.
connect(t) ==
  /\ pc[t] = Idle
  /\ m_connected' = FALSE
  /\ link' = IF m_client /\ link = "down" THEN "connecting" ELSE link
  /\ quiet' = FALSE
  /\ overtaken' = (overtaken \/ Disconnecting)
  /\ UNCHANGED <<m_client, promises, shouldBeConnected, commands, calls, pc, mine, terminated>>

\* Mutant: one promise serves all calls.
Reset_Once(t, destroy) ==
  /\ pc[t] = Idle
  /\ calls < MaxDisconnects
  /\ calls' = calls + 1
  /\ m_disconnect_promise_uptr' =
       IF m_disconnect_promise_uptr = 0 THEN calls + 1 ELSE m_disconnect_promise_uptr
  /\ pc' = [pc EXCEPT ![t] = [at |-> "ask", destroy |-> destroy]]
  /\ mine' = [mine EXCEPT ![t] = m_disconnect_promise_uptr']
  /\ overtaken' = (overtaken \/ Disconnecting)
  /\ UNCHANGED <<m_client, m_connected, retrieved, satisfied, broken, value, paho, terminated,
                 setBy, quiet>>

\* The first line of disconnect(), called by itself or by destroy(): whoever
\* waits for the promise replaced is told that it is broken.
Reset(t, destroy) ==
  /\ pc[t] = Idle
  /\ calls < MaxDisconnects
  /\ calls' = calls + 1
  /\ m_disconnect_promise_uptr' = calls + 1
  /\ broken' = broken \cup ({m_disconnect_promise_uptr} \ (satisfied \cup {0}))
  /\ pc' = [pc EXCEPT ![t] = [at |-> "future", destroy |-> destroy]]
  /\ overtaken' = (overtaken \/ Disconnecting)
  /\ UNCHANGED <<m_client, m_connected, retrieved, satisfied, value, paho, mine, terminated,
                 setBy, quiet>>

\* get_future throws if another thread has got it: the call is over.
GetFuture(t) ==
  /\ pc[t].at = "future"
  /\ LET p == m_disconnect_promise_uptr IN
       IF p \in retrieved
       THEN pc' = [pc EXCEPT ![t] = Idle] /\ UNCHANGED <<retrieved, mine>>
       ELSE /\ retrieved' = retrieved \cup {p}
            /\ mine' = [mine EXCEPT ![t] = p]
            /\ pc' = [pc EXCEPT ![t].at = "ask"]
  /\ UNCHANGED <<m_client, m_connected, m_disconnect_promise_uptr, satisfied, broken, value, paho,
                 calls, terminated, setBy, overtaken, quiet>>

\* MQTTAsync_disconnect fails unless the client is connected; the failure is
\* logged, and waited for like an answer.
AskPaho(t) ==
  /\ pc[t].at = "ask"
  /\ shouldBeConnected' = FALSE
  /\ commands' = IF m_client /\ link = "up" THEN commands \cup {mine[t]} ELSE commands
  /\ pc' = [pc EXCEPT ![t].at = "wait"]
  /\ UNCHANGED <<m_client, m_connected, promises, link, calls, mine, terminated, overtaken, quiet>>

\* The end of disconnect(), with the rest of destroy().
Finish(t) ==
  /\ pc' = [pc EXCEPT ![t] = Idle]
  /\ IF pc[t].destroy
     THEN m_client' = FALSE /\ link' = "down" /\ shouldBeConnected' = FALSE /\ commands' = {}
     ELSE UNCHANGED <<m_client, paho>>
  /\ UNCHANGED <<m_connected, promises, calls, mine, terminated, overtaken>>

WaitReturns(t) ==
  /\ pc[t].at = "wait"
  /\ mine[t] \in satisfied \cup broken
  /\ quiet' = (mine[t] \in satisfied /\ value[mine[t]])
  /\ Finish(t)

WaitTimesOut(t) ==
  /\ pc[t].at = "wait"
  /\ quiet' = FALSE
  /\ Finish(t)

-----------------------------------------------------------------------------
(* The callbacks.                                                          *)

\* onDisconnect and onDisconnectFailure: set_value on the promise there is now.
SetPromise(d, success) ==
  LET p == m_disconnect_promise_uptr IN
  IF p \in satisfied
  THEN terminated' = TRUE /\ UNCHANGED promises
  ELSE /\ satisfied' = satisfied \cup {p}
       /\ value' = [value EXCEPT ![p] = success]
       /\ setBy' = [setBy EXCEPT ![p] = d]
       /\ UNCHANGED <<m_disconnect_promise_uptr, retrieved, broken, terminated>>

onDisconnect(d) ==
  /\ d \in commands
  /\ commands' = commands \ {d}
  /\ link' = "down"
  /\ SetPromise(d, TRUE)
  /\ UNCHANGED <<m_client, m_connected, shouldBeConnected, calls, pc, mine, overtaken, quiet>>

onDisconnectFailure(d) ==
  /\ d \in commands
  /\ commands' = commands \ {d}
  /\ SetPromise(d, FALSE)
  /\ UNCHANGED <<m_client, m_connected, link, shouldBeConnected, calls, pc, mine, overtaken, quiet>>

\* onConnect the first time, and connected every time.
connected ==
  /\ link = "connecting"
  /\ link' = "up"
  /\ shouldBeConnected' = TRUE
  /\ m_connected' = TRUE
  /\ UNCHANGED <<m_client, promises, commands, calls, pc, mine, terminated, overtaken, quiet>>

onConnectFailure ==
  /\ link = "connecting"
  /\ link' = "down"
  /\ m_connected' = FALSE
  /\ UNCHANGED <<m_client, promises, shouldBeConnected, commands, calls, pc, mine, terminated,
                 overtaken, quiet>>

connlost ==
  /\ link = "up"
  /\ link' = "down"
  /\ m_connected' = FALSE
  /\ UNCHANGED <<m_client, promises, shouldBeConnected, commands, calls, pc, mine, terminated,
                 overtaken, quiet>>

Reconnect ==
  /\ link = "down"
  /\ shouldBeConnected
  /\ link' = "connecting"
  /\ UNCHANGED <<m_client, m_connected, promises, shouldBeConnected, commands, calls, pc, mine,
                 terminated, overtaken, quiet>>

-----------------------------------------------------------------------------

Next ==
  /\ ~terminated
  /\ \/ \E t \in Threads :
          \/ create(t) \/ connect(t) \/ GetFuture(t) \/ AskPaho(t)
          \/ WaitReturns(t) \/ WaitTimesOut(t)
          \/ \E destroy \in BOOLEAN : Reset(t, destroy)
     \/ \E d \in Calls : onDisconnect(d) \/ onDisconnectFailure(d)
     \/ connected \/ onConnectFailure \/ connlost \/ Reconnect

Spec == Init /\ [][Next]_vars

-----------------------------------------------------------------------------
(* Properties.                                                             *)

\* Each disconnect() waits for the answer to its own request: nobody else's
\* answer sets its promise, and none sets a promise twice, which would end the
\* process from a Paho thread.  The exceptions all begin with a call that comes
\* before the last disconnect was answered: after its timeout, or from another thread.
AnswersOwn ==
  /\ TypeOK
  /\ ~overtaken => ~terminated /\ \A d \in satisfied : setBy[d] = d

\* When disconnect() returns on a successful answer the client is disconnected,
\* and stays so, automatic reconnection notwithstanding, until connect() is called
\* again; unless another call overtook it.
StaysDown == quiet /\ ~overtaken => link # "up"
=============================================================================
