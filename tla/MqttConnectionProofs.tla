------------------------- MODULE MqttConnectionProofs -------------------------
(***************************************************************************)
(* Theorems about MqttConnection, for any set of callers and any number of *)
(* disconnects.                                                            *)
(***************************************************************************)
EXTENDS MqttConnection, TLAPS

\* Of the calls made so far the last one's promise is the one there is.
PromiseInv ==
  /\ m_disconnect_promise_uptr = calls
  /\ satisfied \subseteq 1..calls
  /\ calls = 0 => commands = {} /\ \A t \in Threads : pc[t] = Idle
  /\ \A t \in Threads : pc[t].at \in {"ask", "wait"} => mine[t] # 0

\* As long as nobody has overtaken a disconnect, one thread disconnects at a time,
\* its promise is the last, and Paho has no other request than its.
TurnInv ==
  /\ \A t, u \in Threads : pc[t] # Idle /\ pc[u] # Idle => t = u
  /\ commands \subseteq {calls} \ satisfied
  /\ \A t \in Threads :
       /\ pc[t].at \in {"future", "ask"} => commands = {} /\ calls \notin satisfied
       /\ pc[t].at \in {"ask", "wait"} => mine[t] = calls
  /\ \A d \in satisfied : setBy[d] = d
  /\ ~terminated

\* A disconnect that Paho has accepted or answered keeps the client from
\* connecting again.
DownInv ==
  /\ commands # {} => link # "connecting" /\ ~shouldBeConnected
  /\ quiet => link = "down" /\ ~shouldBeConnected
  /\ \A t \in Threads :
       pc[t].at = "wait" /\ calls \in satisfied /\ value[calls] =>
         link = "down" /\ ~shouldBeConnected

IInv == TypeOK /\ PromiseInv /\ (~overtaken => TurnInv /\ DownInv)

-----------------------------------------------------------------------------

\* Initially there has been no call.
LEMMA InitIInv == Init => IInv
<1> SUFFICES ASSUME Init PROVE IInv
  OBVIOUS
<1>1. TypeOK
  <2>1. pc \in [Threads -> Places] /\ mine \in [Threads -> 0..MaxDisconnects]
    BY ConnectionAssumption DEF Init, Places, Idle
  <2>2. value \in [Calls -> BOOLEAN] /\ setBy \in [Calls -> 0..MaxDisconnects]
    BY ConnectionAssumption DEF Init
  <2>3. calls \in 0..MaxDisconnects /\ m_disconnect_promise_uptr \in 0..calls
    BY ConnectionAssumption DEF Init
  <2> QED
    BY <2>1, <2>2, <2>3, Zenon DEF Init, TypeOK
<1> QED
  BY <1>1 DEF Init, IInv, PromiseInv, TurnInv, DownInv, Idle

\* What the callbacks of a disconnect do to the promise.
LEMMA SetPromiseTyped ==
  ASSUME TypeOK, PromiseInv, commands # {}, NEW d \in Calls, NEW success \in BOOLEAN,
         SetPromise(d, success)
  PROVE  /\ calls \in Calls
         /\ satisfied' \in SUBSET Calls /\ satisfied' \subseteq 1..calls
         /\ value' \in [Calls -> BOOLEAN]
         /\ setBy' \in [Calls -> 0..MaxDisconnects]
         /\ terminated' \in BOOLEAN
         /\ UNCHANGED <<m_disconnect_promise_uptr, retrieved, broken>>
<1>1. calls \in Calls
  <2>1. calls \in 0..MaxDisconnects /\ calls # 0
    BY Zenon DEF TypeOK, PromiseInv
  <2> QED
    BY <2>1, ConnectionAssumption DEF Calls
<1>2. value' \in [Calls -> BOOLEAN]
  BY DEF TypeOK, SetPromise, promises
<1>3. setBy' \in [Calls -> 0..MaxDisconnects]
  BY DEF TypeOK, SetPromise, Calls, promises
<1>4. /\ satisfied' \in {satisfied, satisfied \cup {calls}}
      /\ terminated' \in BOOLEAN
      /\ UNCHANGED <<m_disconnect_promise_uptr, retrieved, broken>>
  BY DEF TypeOK, PromiseInv, SetPromise, promises
<1>5. satisfied' \in SUBSET Calls /\ satisfied' \subseteq 1..calls
  BY <1>1, <1>4, ConnectionAssumption DEF TypeOK, PromiseInv, Calls
<1> QED
  BY <1>1, <1>2, <1>3, <1>4, <1>5

\* A thread that is in no call.
LEMMA IdleTyped == Idle \in Places /\ Idle.at = "idle"
BY DEF Idle, Places

\* A thread moves from one place to another.
LEMMA Advance ==
  ASSUME NEW t \in Threads, NEW step \in {"idle", "future", "ask", "wait"},
         pc \in [Threads -> Places]
  PROVE  /\ [pc EXCEPT ![t].at = step] \in [Threads -> Places]
         /\ [pc EXCEPT ![t].at = step][t].at = step
         /\ [pc EXCEPT ![t].at = step][t].destroy = pc[t].destroy
         /\ \A u \in Threads \ {t} : [pc EXCEPT ![t].at = step][u] = pc[u]
BY DEF Places

\* A step preserves the types and the numbering of the promises.
LEMMA TypeStep == TypeOK /\ PromiseInv /\ [Next]_vars => TypeOK' /\ PromiseInv'
<1> SUFFICES ASSUME TypeOK, PromiseInv, [Next]_vars PROVE TypeOK' /\ PromiseInv'
  OBVIOUS
<1> USE ConnectionAssumption DEF promises, paho
<1>1. ASSUME NEW t \in Threads, create(t) PROVE TypeOK' /\ PromiseInv'
  BY <1>1 DEF create, TypeOK, PromiseInv
<1>2. ASSUME NEW t \in Threads, connect(t) PROVE TypeOK' /\ PromiseInv'
  BY <1>2 DEF connect, TypeOK, PromiseInv, Disconnecting
<1>3. ASSUME NEW t \in Threads, NEW destroy \in BOOLEAN, Reset(t, destroy)
      PROVE  TypeOK' /\ PromiseInv'
  <2>1. /\ broken' \in SUBSET Calls
        /\ calls' \in Calls /\ calls' # 0
        /\ overtaken' \in BOOLEAN
    BY <1>3 DEF Reset, TypeOK, PromiseInv, Calls, Disconnecting
  <2>2. pc' \in [Threads -> Places]
    BY <1>3 DEF Reset, TypeOK, Places
  <2>3. TypeOK'
    BY <1>3, <2>1, <2>2 DEF Reset, TypeOK, Calls
  <2>4. PromiseInv'
    BY <1>3, <2>1 DEF Reset, TypeOK, PromiseInv
  <2> QED
    BY <2>3, <2>4
<1>4. ASSUME NEW t \in Threads, GetFuture(t) PROVE TypeOK' /\ PromiseInv'
  <2>1. calls \in Calls
    BY <1>4 DEF GetFuture, PromiseInv, TypeOK, Calls, Idle
  <2>2. CASE m_disconnect_promise_uptr \in retrieved
    <3>1. pc' \in [Threads -> Places] /\ pc'[t] = Idle /\ \A u \in Threads \ {t} : pc'[u] = pc[u]
      BY <1>4, <2>2, IdleTyped DEF GetFuture, TypeOK
    <3>2. TypeOK'
      BY <1>4, <2>2, <3>1 DEF GetFuture, TypeOK
    <3> QED
      BY <1>4, <2>2, <3>1, <3>2 DEF GetFuture, PromiseInv, Idle
  <2>3. CASE m_disconnect_promise_uptr \notin retrieved
    <3>1. pc' = [pc EXCEPT ![t].at = "ask"] /\ pc \in [Threads -> Places]
      BY <1>4, <2>3 DEF GetFuture, TypeOK
    <3>2. pc' \in [Threads -> Places]
      BY <3>1, Advance
    <3>3. TypeOK'
      BY <1>4, <2>1, <2>3, <3>2 DEF GetFuture, TypeOK, PromiseInv, Calls
    <3> QED
      BY <1>4, <2>1, <2>3, <3>1, <3>3, Advance DEF GetFuture, TypeOK, PromiseInv, Calls
  <2> QED
    BY <2>2, <2>3
<1>5. ASSUME NEW t \in Threads, AskPaho(t) PROVE TypeOK' /\ PromiseInv'
  <2>1. pc' = [pc EXCEPT ![t].at = "wait"] /\ pc \in [Threads -> Places]
    BY <1>5 DEF AskPaho, TypeOK
  <2>2. mine[t] \in Calls
    BY <1>5 DEF AskPaho, TypeOK, PromiseInv, Calls
  <2>3. pc' \in [Threads -> Places]
    BY <2>1, Advance
  <2>4. TypeOK'
    BY <1>5, <2>2, <2>3 DEF AskPaho, TypeOK
  <2> QED
    BY <1>5, <2>1, <2>4, Advance DEF AskPaho, PromiseInv, Idle
<1>6. ASSUME NEW t \in Threads, WaitReturns(t) \/ WaitTimesOut(t) PROVE TypeOK' /\ PromiseInv'
  <2>1. Finish(t) /\ quiet' \in BOOLEAN
    BY <1>6 DEF WaitReturns, WaitTimesOut
  <2>2. pc' \in [Threads -> Places] /\ pc'[t] = Idle /\ \A u \in Threads \ {t} : pc'[u] = pc[u]
    BY <2>1, IdleTyped DEF Finish, TypeOK
  <2>3. TypeOK'
    BY <2>1, <2>2 DEF Finish, TypeOK
  <2> QED
    BY <2>1, <2>2, <2>3 DEF Finish, PromiseInv, Idle
<1>7. ASSUME NEW d \in Calls, onDisconnect(d) \/ onDisconnectFailure(d)
      PROVE  TypeOK' /\ PromiseInv'
  <2>1. PICK success \in BOOLEAN : SetPromise(d, success)
    BY <1>7 DEF onDisconnect, onDisconnectFailure
  <2>2. /\ d \in commands
        /\ commands' = commands \ {d}
        /\ link' \in {link, "down"}
        /\ UNCHANGED <<m_client, m_connected, shouldBeConnected, calls, pc, mine, overtaken, quiet>>
    BY <1>7 DEF onDisconnect, onDisconnectFailure
  <2> QED
    BY <2>1, <2>2, SetPromiseTyped DEF TypeOK, PromiseInv
<1>8. CASE connected \/ onConnectFailure \/ connlost \/ Reconnect
  BY <1>8 DEF connected, onConnectFailure, connlost, Reconnect, TypeOK, PromiseInv
<1>9. CASE UNCHANGED vars
  BY <1>9 DEF vars, TypeOK, PromiseInv
<1> QED
  BY <1>1, <1>2, <1>3, <1>4, <1>5, <1>6, <1>7, <1>8, <1>9 DEF Next

-----------------------------------------------------------------------------

\* A call that begins while no other is in progress has its turn.
LEMMA ResetKeeps ==
  ASSUME IInv, TypeOK', NEW t \in Threads, NEW destroy \in BOOLEAN, Reset(t, destroy), ~overtaken'
  PROVE  TurnInv' /\ DownInv'
<1> USE ConnectionAssumption DEF promises, paho
<1>1. /\ commands = {} /\ commands' = {} /\ \A u \in Threads : pc[u] = Idle
      /\ ~overtaken
  BY DEF Reset, Disconnecting
<1>2. calls + 1 \notin satisfied /\ calls' = calls + 1 /\ satisfied' = satisfied
  BY DEF Reset, IInv, PromiseInv, TypeOK
<1>3. /\ pc'[t] = [at |-> "future", destroy |-> destroy]
      /\ \A u \in Threads \ {t} : pc'[u] = Idle
  BY <1>1 DEF Reset, IInv, TypeOK
<1>4. TurnInv'
  BY <1>1, <1>2, <1>3, IdleTyped DEF Reset, IInv, TurnInv
<1>5. DownInv'
  BY <1>1, <1>2, <1>3, IdleTyped DEF Reset, IInv, DownInv
<1> QED
  BY <1>4, <1>5

\* While it is its turn a call goes on with its own promise.
LEMMA GetFutureKeeps ==
  ASSUME IInv, TypeOK', NEW t \in Threads, GetFuture(t), ~overtaken'
  PROVE  TurnInv' /\ DownInv'
<1> USE ConnectionAssumption DEF promises, paho
<1>1. TurnInv /\ DownInv /\ pc \in [Threads -> Places] /\ m_disconnect_promise_uptr = calls
  BY DEF GetFuture, IInv, TypeOK, PromiseInv
<1>2. /\ \A u \in Threads \ {t} : pc'[u] = pc[u] /\ mine'[u] = mine[u]
      /\ pc'[t] = Idle \/ (pc'[t].at = "ask" /\ mine'[t] = calls)
      /\ pc[t].at = "future" /\ pc[t] # Idle
  <2>1. pc[t].at = "future" /\ pc[t] # Idle
    BY IdleTyped DEF GetFuture
  <2>2. CASE m_disconnect_promise_uptr \in retrieved
    BY <1>1, <2>1, <2>2 DEF GetFuture
  <2>3. CASE m_disconnect_promise_uptr \notin retrieved
    <3>1. pc' = [pc EXCEPT ![t].at = "ask"] /\ mine' = [mine EXCEPT ![t] = calls]
      BY <1>1, <2>3 DEF GetFuture
    <3>2. mine \in [Threads -> 0..MaxDisconnects]
      BY DEF IInv, TypeOK
    <3> QED
      BY <1>1, <2>1, <3>1, <3>2, Advance
  <2> QED
    BY <2>2, <2>3
<1>3. UNCHANGED <<calls, satisfied, setBy, terminated, commands, value, link, shouldBeConnected, quiet>>
  BY DEF GetFuture
<1>4. TurnInv'
  BY <1>1, <1>2, <1>3, IdleTyped DEF TurnInv
<1>5. DownInv'
  BY <1>1, <1>2, <1>3, IdleTyped DEF DownInv
<1> QED
  BY <1>4, <1>5

\* It hands Paho its own request.
LEMMA AskPahoKeeps ==
  ASSUME IInv, TypeOK', NEW t \in Threads, AskPaho(t), ~overtaken'
  PROVE  TurnInv' /\ DownInv'
<1> USE ConnectionAssumption DEF promises, paho
<1>1. TurnInv /\ DownInv /\ pc \in [Threads -> Places]
  BY DEF AskPaho, IInv, TypeOK
<1>2. /\ \A u \in Threads \ {t} : pc'[u] = pc[u]
      /\ pc'[t].at = "wait" /\ pc'[t] # Idle
      /\ pc[t].at = "ask" /\ pc[t] # Idle
  BY <1>1, IdleTyped, Advance DEF AskPaho
<1>3. UNCHANGED <<calls, satisfied, setBy, terminated, mine, value, link, quiet>>
  BY DEF AskPaho
<1>4. /\ \A u \in Threads \ {t} : pc'[u] = Idle
      /\ mine[t] = calls /\ calls \notin satisfied /\ commands = {}
  BY <1>1, <1>2 DEF TurnInv
<1>5. /\ ~shouldBeConnected' /\ commands' \subseteq {calls}
      /\ commands' # {} => link = "up"
  BY <1>4 DEF AskPaho
<1>6. TurnInv'
  BY <1>1, <1>2, <1>3, <1>4, <1>5, IdleTyped DEF TurnInv
<1>7. DownInv'
  BY <1>1, <1>2, <1>3, <1>4, <1>5, IdleTyped DEF DownInv
<1> QED
  BY <1>6, <1>7

\* Returning ends its turn; with success, the client is down.
LEMMA FinishKeeps ==
  ASSUME IInv, TypeOK', NEW t \in Threads, WaitReturns(t) \/ WaitTimesOut(t), ~overtaken'
  PROVE  TurnInv' /\ DownInv'
<1> USE ConnectionAssumption DEF promises, paho
<1>1. Finish(t) /\ pc[t].at = "wait"
  BY DEF WaitReturns, WaitTimesOut
<1>2. TurnInv /\ DownInv /\ pc \in [Threads -> Places]
  BY <1>1 DEF Finish, IInv, TypeOK
<1>3. pc'[t] = Idle /\ \A u \in Threads \ {t} : pc'[u] = pc[u]
  BY <1>1, <1>2 DEF Finish
<1>4. UNCHANGED <<calls, satisfied, setBy, terminated, mine, value>>
  BY <1>1 DEF Finish
<1>5. /\ commands' \in {commands, {}}
      /\ \/ link' = "down" /\ ~shouldBeConnected'
         \/ UNCHANGED <<link, shouldBeConnected>>
  BY <1>1 DEF Finish
<1>6. quiet' => link' = "down" /\ ~shouldBeConnected'
  <2>1. mine[t] = calls
    BY <1>1, <1>2 DEF TurnInv
  <2>2. quiet' => calls \in satisfied /\ value[calls]
    BY <2>1 DEF WaitReturns, WaitTimesOut
  <2> QED
    BY <1>1, <1>2, <1>5, <2>2 DEF DownInv
<1>7. TurnInv'
  BY <1>2, <1>3, <1>4, <1>5, IdleTyped DEF TurnInv
<1>8. DownInv'
  BY <1>2, <1>3, <1>4, <1>5, <1>6, IdleTyped DEF DownInv
<1> QED
  BY <1>7, <1>8

\* The answer to the request of the call whose turn it is sets its promise.
LEMMA AnswerKeeps ==
  ASSUME IInv, TypeOK', NEW d \in Calls, onDisconnect(d) \/ onDisconnectFailure(d), ~overtaken'
  PROVE  TurnInv' /\ DownInv'
<1>1. /\ d \in commands /\ commands' = commands \ {d}
      /\ UNCHANGED <<m_client, m_connected, shouldBeConnected, calls, pc, mine, overtaken, quiet>>
      /\ link' \in {link, "down"}
  BY DEF onDisconnect, onDisconnectFailure
<1>2. TurnInv /\ DownInv /\ m_disconnect_promise_uptr = calls
  BY <1>1 DEF IInv, PromiseInv
<1>3. d = calls /\ calls \notin satisfied /\ commands' = {} /\ ~shouldBeConnected
  BY <1>1, <1>2 DEF TurnInv, DownInv
<1>4. /\ satisfied' = satisfied \cup {calls}
      /\ setBy' = [setBy EXCEPT ![calls] = calls]
      /\ UNCHANGED terminated
  BY <1>2, <1>3 DEF onDisconnect, onDisconnectFailure, SetPromise
<1>5. value'[calls] => link' = "down"
  BY <1>2, <1>3 DEF onDisconnect, onDisconnectFailure, SetPromise, IInv, TypeOK
<1>6. \A e \in satisfied' : setBy'[e] = e
  BY <1>2, <1>3, <1>4 DEF TurnInv, IInv, TypeOK
<1>7. TurnInv'
  BY <1>1, <1>2, <1>3, <1>4, <1>6 DEF TurnInv
<1>8. DownInv'
  BY <1>1, <1>2, <1>3, <1>4, <1>5 DEF DownInv
<1> QED
  BY <1>7, <1>8

\* A step preserves the invariant.
LEMMA IInvStep == IInv /\ [Next]_vars => IInv'
<1> SUFFICES ASSUME IInv, [Next]_vars PROVE IInv'
  OBVIOUS
<1>0. TypeOK' /\ PromiseInv'
  BY TypeStep DEF IInv
<1> SUFFICES ASSUME ~overtaken' PROVE TurnInv' /\ DownInv'
  BY <1>0 DEF IInv
<1> USE <1>0
<1>1. ASSUME NEW t \in Threads, create(t) PROVE TurnInv' /\ DownInv'
  BY <1>1 DEF create, IInv, TurnInv, DownInv, promises, paho
<1>2. ASSUME NEW t \in Threads, connect(t) PROVE TurnInv' /\ DownInv'
  <2>1. commands = {} /\ (\A u \in Threads : pc[u] = Idle) /\ ~overtaken /\ ~quiet'
    BY <1>2 DEF connect, Disconnecting
  <2> QED
    BY <1>2, <2>1, IdleTyped DEF connect, IInv, TurnInv, DownInv, promises
<1>3. ASSUME NEW t \in Threads, NEW destroy \in BOOLEAN, Reset(t, destroy)
      PROVE  TurnInv' /\ DownInv'
  BY <1>3, ResetKeeps
<1>4. ASSUME NEW t \in Threads, GetFuture(t) PROVE TurnInv' /\ DownInv'
  BY <1>4, GetFutureKeeps
<1>5. ASSUME NEW t \in Threads, AskPaho(t) PROVE TurnInv' /\ DownInv'
  BY <1>5, AskPahoKeeps
<1>6. ASSUME NEW t \in Threads, WaitReturns(t) \/ WaitTimesOut(t) PROVE TurnInv' /\ DownInv'
  BY <1>6, FinishKeeps
<1>7. ASSUME NEW d \in Calls, onDisconnect(d) \/ onDisconnectFailure(d)
      PROVE  TurnInv' /\ DownInv'
  BY <1>7, AnswerKeeps
<1>8. CASE connected
  BY <1>8 DEF connected, IInv, TurnInv, DownInv, promises
<1>9. CASE onConnectFailure \/ connlost
  BY <1>9 DEF onConnectFailure, connlost, IInv, TurnInv, DownInv, promises
<1>10. CASE Reconnect
  BY <1>10 DEF Reconnect, IInv, TurnInv, DownInv, promises
<1>11. CASE UNCHANGED vars
  BY <1>11 DEF vars, IInv, TurnInv, DownInv, promises, paho
<1> QED
  BY <1>1, <1>2, <1>3, <1>4, <1>5, <1>6, <1>7, <1>8, <1>9, <1>10, <1>11 DEF Next

\* The invariant holds in every state.
LEMMA Invariance == Spec => []IInv
BY InitIInv, IInvStep, PTL DEF Spec

-----------------------------------------------------------------------------

\* Unless one call overtakes another, the answer to a disconnect() sets the promise
\* of that disconnect(), and no promise is set twice.
THEOREM AnswersOwnHolds == Spec => []AnswersOwn
<1>1. IInv => AnswersOwn
  BY DEF IInv, TurnInv, AnswersOwn
<1> QED
  BY <1>1, Invariance, PTL

\* Unless one call overtakes another, the client is down after a successful
\* disconnect() until the next connect().
THEOREM StaysDownHolds == Spec => []StaysDown
<1>1. IInv => StaysDown
  BY DEF IInv, DownInv, StaysDown
<1> QED
  BY <1>1, Invariance, PTL
=============================================================================
