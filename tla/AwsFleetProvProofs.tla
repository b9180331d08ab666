-------------------------- MODULE AwsFleetProvProofs --------------------------
(***************************************************************************)
(* Theorems about AwsFleetProv, for any numbers of dialogues, crashes,     *)
(* losses of the connection and repeated answers.                          *)
(***************************************************************************)
EXTENDS AwsFleetProv, TLAPS

\* The steps of a stage; each needs the ones before it.
StageSteps == {"subscribe", "subscribeOther", "awaitAccepted", "awaitRejected", "publish",
               "awaitSent", "awaitAnswer"}

\* Where the worker and the client's thread can be.  Files are written from a
\* message handler, which stays registered meanwhile; a new process has nothing.
PlaceInv ==
  /\ worker.at = "idle" => worker.n = 0
  /\ worker.at # "idle" => frame # 0
  /\ worker.at \in StageSteps => worker.n \in Stages
  /\ worker.at = "unsubscribe" => worker.n \in 1..4
  /\ worker.at \in {"create", "connect", "wait"} => promise = NoPromises
  /\ worker.at \in Dialogue \cup {"connect", "wait"} => client
  /\ worker.at \in Dialogue => frame = dialogue
  /\ paho.at = "keys" => paho.n \in 1..7 /\ handler[<<1, "accepted">>] # 0
  /\ paho.at = "register" => paho.n \in 1..3 /\ handler[<<2, "accepted">>] # 0
  /\ instance = "down" =>
       /\ worker = Idle /\ paho = Idle /\ handler = NoHandlers /\ promise = NoPromises
       /\ ~client /\ link = "down" /\ pending = {} /\ answer = NoAnswers
  /\ \A s \in Stages : answer[s] # "none" => dialogue # 0

\* Message handlers are those of the last dialogue, which is either going on or
\* has left the client behind, so that no other can begin in this process.
HandlerInv ==
  /\ \A t \in Topics : handler[t] # 0 =>
       /\ handler[t] = dialogue
       /\ worker.at \in Dialogue \/ (client /\ worker.at \in {"idle", "create"})
  /\ worker.at = "unsubscribe" => \A i \in 1..4 : i > worker.n => handler[Topic[i]] = 0

\* The steps of stage s at which the result of p can be due.
AwaitedAt(p) ==
  IF p = "accepted" THEN {"subscribeOther", "awaitAccepted"}
  ELSE IF p = "rejected" THEN {"awaitAccepted", "awaitRejected"}
  ELSE {"awaitSent"}

\* The steps of stage s at which p has not been asked for.
UnaskedAt(p) ==
  IF p = "accepted" THEN {"subscribe"}
  ELSE IF p = "rejected" THEN {"subscribe", "subscribeOther"}
  ELSE {"subscribe", "subscribeOther", "awaitAccepted", "awaitRejected", "publish"}

\* The requests whose results are due or were dropped.
Made == pending \cup missed

\* Unless an exception ended a run, each result that is due or was dropped has its
\* promise, not set yet, in the run that is at the step before or in the wait for it.
PendingInv ==
  ~threw =>
    /\ ~dangling
    /\ worker.at # "cancel"
    /\ worker.at \in {"idle", "create"} => ~client
    /\ pending \cap missed = {}
    /\ \A q \in Made :
         /\ q[3] = frame
         /\ promise[q[1]][q[2]] = "unset"
         /\ worker.n = q[1] /\ worker.at \in AwaitedAt(q[2])
    /\ worker.at \in StageSteps => \A s \in Stages, p \in Results :
         worker.n < s \/ (worker.n = s /\ worker.at \in UnaskedAt(p)) => promise[s][p] = "unset"

\* As long as no run gave up waiting for its connection and no connection was lost,
\* a connection is made once, and its run waits for it until onConnect has told it.
ConnectInv ==
  ~timedOut /\ losses = 0 =>
    /\ ~late
    /\ link = "down" => ~reconnecting
    /\ link = "connecting" => paho.at # "onConnect" /\ onConnect \in {0, frame}
    /\ link = "connecting" \/ paho.at = "onConnect" => worker.at = "wait" /\ ~connected
    /\ paho.at = "onConnect" => paho.n = frame
    /\ worker.at \in {"create", "connect"} => ~connected

\* The dialogue has its keys, and may register them.
Second ==
  \/ promise[1]["answer"] = "true"
  \/ worker.at \in StageSteps /\ worker.n = 2
  \/ worker.at = "unsubscribe"
  \/ answer[2] # "none"
  \/ paho.at = "register"

\* In the second stage the certificate files are of this dialogue and complete, but
\* for those that a repeated answer makes the client's thread write again.
KeysInv ==
  /\ paho.at = "keys" => \A i \in 1..3 :
       /\ paho.n > i => Certificates[i] \in exists
       /\ paho.n > i + 3 => file[Certificates[i]] = dialogue
  /\ paho.at = "keys" /\ paho.n > 1 => overwritten \/ "provision" \notin exists
  /\ Second => \A i \in 1..3 :
       /\ Certificates[i] \in exists
       /\ file[Certificates[i]] = dialogue \/ (paho.at = "keys" /\ paho.n \in (i + 1)..(i + 3))

\* A provision file comes after the certificate files and is of their generation,
\* which is registered; it is empty only while it is being written.
ProvisionInv ==
  /\ answer[2] = "accepted" \/ paho.at = "register" => dialogue \in registered
  /\ paho.at = "register" /\ paho.n > 1 => "provision" \in exists
  /\ paho.at = "register" /\ paho.n = 3 => file["provision"] # 0
  /\ ~torn /\ ~overwritten /\ "provision" \in exists =>
       /\ exists = Files
       /\ \E g \in registered :
            /\ \A i \in 1..3 : file[Certificates[i]] = g
            /\ \/ file["provision"] = g
               \/ file["provision"] = 0 /\ paho.at = "register" /\ paho.n = 2
  /\ promise[2]["answer"] = "true" \/ worker.at = "unsubscribe" =>
       "provision" \in exists /\ m_topicPrefix

\* Who was told of finished provisioning loses it to a new dialogue only with the
\* keys, that is, before that dialogue is in its second stage.
RenewInv ==
  /\ ProvisionedInv
  /\ m_isProvisioned /\ ~torn /\ ~overwritten /\
       (worker.at \in Dialogue \/ \E t \in Topics : handler[t] # 0) => ~Second

IInv ==
  /\ TypeOK /\ PlaceInv /\ HandlerInv /\ PendingInv /\ ConnectInv
  /\ KeysInv /\ ProvisionInv /\ RenewInv

-----------------------------------------------------------------------------

\* What the variables begin with is typed.
LEMMA Beginnings ==
  /\ {MaxDialogues, MaxCrashes, MaxLosses, MaxDuplicates} \subseteq Nat
  /\ NoPromises \in Promises
  /\ Idle \in Places /\ Idle \in PahoPlaces /\ Idle.at = "idle" /\ Idle.n = 0
  /\ NoHandlers \in [Topics -> 0..MaxDialogues]
  /\ NoAnswers \in Answers
<1>1. NoPromises \in Promises
  BY DEF NoPromises, Promises
<1>2. Idle \in Places /\ Idle \in PahoPlaces /\ Idle.at = "idle" /\ Idle.n = 0
  BY DEF Idle, At, Places, PahoPlaces
<1>3. NoHandlers \in [Topics -> 0..MaxDialogues] /\ NoAnswers \in Answers
  BY AwsAssumption DEF NoHandlers, NoAnswers, Answers
<1> QED
  BY <1>1, <1>2, <1>3, AwsAssumption

\* Initially nothing runs and there are no files.
LEMMA InitIInv == Init => IInv
<1> SUFFICES ASSUME Init PROVE IInv
  OBVIOUS
<1>1. TypeOK
  <2>0. /\ MaxDialogues \in Nat /\ MaxCrashes \in Nat /\ MaxLosses \in Nat /\ MaxDuplicates \in Nat
        /\ 0 \in 0..MaxDialogues
    BY Beginnings
  <2>1. DiskType
    BY <2>0 DEF Init, DiskType
  <2>2. RunType
    BY <2>0, Beginnings, Zenon DEF Init, RunType
  <2>3. MqttType
    BY <2>0, Beginnings, Zenon DEF Init, MqttType
  <2>4. HistoryType
    <3>1. 0 \in 0..MaxCrashes /\ 0 \in 0..MaxLosses /\ 0 \in 0..MaxDuplicates
      BY <2>0
    <3> QED
      BY <3>1, Zenon DEF Init, HistoryType
  <2> QED
    BY <2>1, <2>2, <2>3, <2>4 DEF TypeOK
<1>2. worker.at = "idle" /\ worker.n = 0 /\ paho.at = "idle" /\ \A t \in Topics : handler[t] = 0
  BY DEF Init, Idle, At, NoHandlers
<1>3. /\ promise[1]["answer"] = "unset" /\ promise[2]["answer"] = "unset"
      /\ \A s \in Stages : answer[s] = "none"
  BY DEF Init, NoPromises, NoAnswers, Stages
<1>4. PlaceInv
  BY <1>2, <1>3 DEF Init, PlaceInv, StageSteps, Dialogue
<1>5. HandlerInv /\ PendingInv /\ ConnectInv
  BY <1>2 DEF Init, HandlerInv, PendingInv, Made, ConnectInv, StageSteps, Dialogue
<1>6. KeysInv /\ ProvisionInv /\ RenewInv
  BY <1>2, <1>3 DEF Init, KeysInv, ProvisionInv, RenewInv, ProvisionedInv, Second, StageSteps,
                    Dialogue, Stages
<1> QED
  BY <1>1, <1>4, <1>5, <1>6 DEF IInv

\* What a callback does to the promises: it sets one that is not set, and only
\* while its dialogue goes on.
LEMMA Set ==
  ASSUME RunType, HistoryType, NEW s \in Stages, NEW p \in Results \cup {"answer"},
         NEW result \in {"true", "false"}, NEW f, SetPromise(s, p, result, f)
  PROVE  /\ promise' \in Promises
         /\ dangling' \in BOOLEAN
         /\ f = frame /\ worker.at \in Trying => dangling' = dangling
         /\ worker.at \notin Trying => promise' = promise
         /\ \A s2 \in Stages, p2 \in Results \cup {"answer"} :
              \/ promise'[s2][p2] = promise[s2][p2]
              \/ s2 = s /\ p2 = p /\ promise'[s2][p2] = result
         /\ f = frame /\ worker.at \in Trying => promise'[s][p] # "unset"
<1>1. CASE f = frame /\ worker.at \in Trying
  <2>1. dangling' = dangling
    BY <1>1 DEF SetPromise
  <2>2. CASE promise[s][p] = "unset"
    <3>1. promise' = [promise EXCEPT ![s][p] = result]
      BY <1>1, <2>2 DEF SetPromise
    <3>2. /\ promise' \in Promises
          /\ \A s2 \in Stages, p2 \in Results \cup {"answer"} :
               promise'[s2][p2] = IF s2 = s /\ p2 = p THEN result ELSE promise[s2][p2]
      BY <3>1 DEF RunType, Promises
    <3> QED
      BY <1>1, <2>1, <3>2 DEF HistoryType
  <2>3. CASE promise[s][p] # "unset"
    <3>1. promise' = promise
      BY <1>1, <2>3 DEF SetPromise
    <3> QED
      BY <1>1, <2>1, <2>3, <3>1 DEF HistoryType, RunType
  <2> QED
    BY <2>2, <2>3
<1>2. CASE ~(f = frame /\ worker.at \in Trying)
  BY <1>2 DEF SetPromise, RunType
<1> QED
  BY <1>1, <1>2

-----------------------------------------------------------------------------

\* What a step leaves alone keeps its type.
LEMMA TypeFrames ==
  ASSUME TypeOK
  PROVE  /\ UNCHANGED <<disk, registered, instance, data>> => DiskType'
         /\ UNCHANGED <<run, promise>> => RunType'
         /\ UNCHANGED <<mqtt, handler, pending, answer, paho>> => MqttType'
         /\ UNCHANGED others /\ threw' \in BOOLEAN /\ missed' \in SUBSET Requests => HistoryType'
         /\ UNCHANGED history => HistoryType'
<1>1. UNCHANGED <<disk, registered, instance, data>> => DiskType'
  BY DEF TypeOK, DiskType, disk, data
<1>2. UNCHANGED <<run, promise>> => RunType'
  BY DEF TypeOK, RunType, run
<1>3. UNCHANGED <<mqtt, handler, pending, answer, paho>> => MqttType'
  BY DEF TypeOK, MqttType, mqtt
<1>4. UNCHANGED others /\ threw' \in BOOLEAN /\ missed' \in SUBSET Requests => HistoryType'
  BY DEF TypeOK, HistoryType, others, bounds
<1>5. UNCHANGED history => HistoryType'
  BY <1>4 DEF TypeOK, HistoryType, history
<1> QED
  BY <1>1, <1>2, <1>3, <1>4, <1>5

\* What asking for something adds is typed.
LEMMA RequestType ==
  ASSUME TypeOK, worker.n \in Stages, frame \in 1..MaxDialogues, NEW p \in Results, Request(p)
  PROVE  pending' \in SUBSET Requests /\ missed' \in SUBSET Requests /\ subscribed' \in SUBSET Topics
<1>1. <<worker.n, p, frame>> \in Requests
  BY DEF Requests
<1>2. Granted(worker.n, p) \in SUBSET Topics
  BY DEF Granted, TypeOK, MqttType, Topics, Results
<1>3. pending \in SUBSET Requests /\ missed \in SUBSET Requests /\ subscribed \in SUBSET Topics
  BY DEF TypeOK, MqttType, HistoryType
<1> QED
  BY <1>1, <1>2, <1>3 DEF Request

\* A step keeps the types.
LEMMA TypeStep == TypeOK /\ PlaceInv /\ [Next]_vars => TypeOK'
<1> SUFFICES ASSUME TypeOK, PlaceInv, [Next]_vars PROVE TypeOK'
  OBVIOUS
<1> USE TypeFrames DEF TypeOK
<1>0. /\ MaxDialogues \in Nat /\ MaxCrashes \in Nat /\ MaxLosses \in Nat /\ MaxDuplicates \in Nat
      /\ 0 \in 0..MaxDialogues
  BY Beginnings
<1>1. CASE activate
  <2>1. DiskType'
    BY <1>1 DEF activate, DiskType, exploreProvisionFile, disk
  <2> QED
    BY <1>1, <2>1 DEF activate
<1>2. CASE launchProvisioning
  <2>1. worker' \in Places /\ frame' \in 0..MaxDialogues
    BY <1>0, <1>2 DEF launchProvisioning, RunType, Places, At
  <2>2. RunType'
    BY <1>2, <2>1, Beginnings, Zenon DEF launchProvisioning, RunType
  <2> QED
    BY <1>2, <2>2 DEF launchProvisioning
<1>3. CASE deactivate
  <2>1. DiskType'
    BY <1>3 DEF deactivate, DiskType, disk, data
  <2>0. pending' \in SUBSET Requests
    BY <1>3 DEF deactivate, LoseLink, MqttType
  <2>2. MqttType'
    BY <1>0, <1>3, <2>0 DEF deactivate, LoseLink, MqttType
  <2>3. HistoryType'
    BY <1>3 DEF deactivate, LoseLink, HistoryType, bounds
  <2> QED
    BY <1>3, <2>1, <2>2, <2>3 DEF deactivate
<1>4. CASE Join
  <2>1. DiskType'
    BY <1>4 DEF Join, DiskType, disk, data
  <2> QED
    BY <1>4, <2>1 DEF Join
<1>5. CASE Crash
  <2>1. DiskType'
    BY <1>5 DEF Crash, DiskType, disk
  <2>2. RunType'
    BY <1>5, Beginnings, Zenon DEF Crash, RunType
  <2>3. MqttType'
    BY <1>0, <1>5, Beginnings, Zenon DEF Crash, MqttType
  <2>4. HistoryType'
    BY <1>0, <1>5 DEF Crash, HistoryType
  <2> QED
    BY <2>1, <2>2, <2>3, <2>4
<1>6. CASE create \/ connect \/ Release
  <2>1. RunType'
    BY <1>6 DEF create, connect, Release, RunType, Throw, Proceed, Goto, At, Places
  <2>2. MqttType'
    BY <1>0, <1>6 DEF create, connect, Release, MqttType, RunType
  <2>3. HistoryType'
    BY <1>6 DEF create, connect, Release, Throw, Proceed, history, HistoryType
  <2> QED
    BY <1>6, <2>1, <2>2, <2>3 DEF create, connect, Release
<1>7. CASE NotConnected
  <2>1. RunType'
    BY <1>7 DEF NotConnected, RunType, Goto, At, Places
  <2>2. DiskType'
    BY <1>7 DEF NotConnected, DiskType, disk
  <2>3. HistoryType'
    BY <1>7 DEF NotConnected, HistoryType, bounds
  <2> QED
    BY <1>7, <2>1, <2>2, <2>3 DEF NotConnected
<1>8. CASE ConnectedInTime
  <2>1. RunType'
    BY <1>8 DEF ConnectedInTime, RunType, At, Dialogue, Places
  <2>2. MqttType'
    BY <1>8 DEF ConnectedInTime, MqttType, NoAnswers, Answers, mqtt
  <2> QED
    BY <1>8, <2>1, <2>2 DEF ConnectedInTime
<1>9. ASSUME NEW verdict \in Verdicts, NEW at \in StageSteps, NEW next \in Dialogue,
             SubscribeTo(verdict, at, next)
      PROVE  TypeOK'
  <2>1. worker.n \in Stages /\ frame \in 1..MaxDialogues
    BY <1>9 DEF SubscribeTo, PlaceInv, StageSteps, RunType
  <2>2. RunType'
    BY <1>9, <2>1 DEF SubscribeTo, Request, Throw, Proceed, RunType, Goto, At, Dialogue, Places
  <2>3. handler' \in [Topics -> 0..MaxDialogues]
    BY <1>0, <1>9, <2>1 DEF SubscribeTo, MqttType, Topics
  <2>4. /\ pending' \in SUBSET Requests /\ missed' \in SUBSET Requests /\ subscribed' \in SUBSET Topics
        /\ threw' \in BOOLEAN
    <3>1. CASE Request(verdict) /\ Proceed(next, worker.n)
      BY <2>1, <3>1, RequestType DEF Results, Proceed, HistoryType
    <3>2. CASE Throw("cancel") /\ UNCHANGED <<pending, missed, subscribed>>
      BY <3>2 DEF Throw, MqttType, HistoryType
    <3> QED
      BY <1>9, <3>1, <3>2 DEF SubscribeTo
  <2>5. MqttType'
    BY <1>9, <2>3, <2>4 DEF SubscribeTo, MqttType
  <2>6. HistoryType'
    BY <1>9, <2>4 DEF SubscribeTo
  <2> QED
    BY <1>9, <2>2, <2>5, <2>6 DEF SubscribeTo
<1>10. CASE AwaitAccepted \/ AwaitRejected \/ AwaitSent \/ AwaitAnswer
  <2>1. RunType'
    BY <1>10 DEF AwaitAccepted, AwaitRejected, AwaitSent, AwaitAnswer, Get, RunType, Throw,
                 Proceed, Goto, At,
                 Dialogue, Places
  <2>2. HistoryType'
    BY <1>10 DEF AwaitAccepted, AwaitRejected, AwaitSent, AwaitAnswer, Get, Throw, Proceed,
                 HistoryType
  <2> QED
    BY <1>10, <2>1, <2>2 DEF AwaitAccepted, AwaitRejected, AwaitSent, AwaitAnswer, Get
<1>11. CASE publish
  <2>1. worker.n \in Stages /\ frame \in 1..MaxDialogues
    BY <1>11 DEF publish, PlaceInv, StageSteps, RunType
  <2>2. RunType'
    BY <1>11 DEF publish, RunType, Goto, At, Dialogue, Places
  <2>3. /\ pending' \in SUBSET Requests /\ missed' \in SUBSET Requests /\ subscribed' \in SUBSET Topics
        /\ answer' \in Answers
    <3>1. CASE Request("sent") /\ answer' = [answer EXCEPT ![worker.n] = "asked"]
      BY <2>1, <3>1, RequestType DEF Results, MqttType, Answers
    <3>2. CASE UNCHANGED <<pending, missed, subscribed, answer>>
      BY <3>2 DEF MqttType, HistoryType
    <3> QED
      BY <1>11, <3>1, <3>2 DEF publish
  <2>4. MqttType'
    BY <1>11, <2>3 DEF publish, MqttType
  <2>5. HistoryType'
    BY <1>11, <2>3 DEF publish, HistoryType
  <2> QED
    BY <1>11, <2>2, <2>4, <2>5 DEF publish
<1>12. CASE unsubscribe \/ Cancel
  <2>1. RunType'
    BY <1>12 DEF unsubscribe, Cancel, Throw, Proceed, RunType, Goto, At, Dialogue, Places, PlaceInv
  <2>2. handler' \in [Topics -> 0..MaxDialogues] /\ subscribed' \in SUBSET Topics
    <3>1. CASE UNCHANGED <<handler, subscribed>>
      BY <3>1 DEF MqttType
    <3>2. ASSUME NEW topics, RemoveTopics(topics)
          PROVE  handler' \in [Topics -> 0..MaxDialogues] /\ subscribed' \in SUBSET Topics
      BY <1>0, <3>2 DEF RemoveTopics, MqttType
    <3> QED
      BY <1>12, <3>1, <3>2 DEF unsubscribe, Cancel, Throw, Proceed
  <2>3. MqttType'
    BY <1>12, <2>2 DEF unsubscribe, Cancel, Throw, Proceed, MqttType
  <2>4. DiskType'
    BY <1>12 DEF unsubscribe, Cancel, DiskType, disk, data
  <2>5. HistoryType'
    BY <1>12 DEF unsubscribe, Cancel, Throw, Proceed, HistoryType, history
  <2> QED
    BY <2>1, <2>3, <2>4, <2>5
<1>13. CASE Connected \/ OnConnect
  <2>1. MqttType'
    BY <1>13 DEF Connected, OnConnect, MqttType, PahoPlaces, Idle, At, mqtt
  <2>2. RunType'
    BY <1>13 DEF Connected, OnConnect, RunType, run
  <2>3. HistoryType'
    BY <1>13 DEF Connected, OnConnect, HistoryType, bounds
  <2> QED
    BY <1>13, <2>1, <2>2, <2>3 DEF Connected, OnConnect
<1>14. CASE ConnectionLost \/ Reconnect
  <2>1. MqttType'
    BY <1>14 DEF ConnectionLost, Reconnect, LoseLink, MqttType
  <2>2. HistoryType'
    <3>1. lossy' \in BOOLEAN
      BY <1>14 DEF ConnectionLost, Reconnect, LoseLink, HistoryType, history, others, bounds
    <3>2. losses' \in 0..MaxLosses
      BY <1>0, <1>14 DEF ConnectionLost, Reconnect, HistoryType, history, others, bounds
    <3> QED
      BY <1>14, <3>1, <3>2 DEF ConnectionLost, Reconnect, HistoryType, history, others, bounds
  <2> QED
    BY <1>14, <2>1, <2>2 DEF ConnectionLost, Reconnect
<1>15. ASSUME NEW s \in Stages, NEW p \in Results, NEW f \in 1..MaxDialogues, Result(s, p, f)
       PROVE  TypeOK'
  <2>1. promise' \in Promises /\ dangling' \in BOOLEAN
    BY <1>15, Set DEF Result
  <2>2. RunType' /\ HistoryType'
    BY <1>15, <2>1 DEF Result, RunType, HistoryType, run, bounds
  <2>3. subscribed' \in SUBSET Topics
    BY <1>15 DEF Result, Granted, MqttType, Topics, Results
  <2>4. MqttType'
    BY <1>15, <2>3 DEF Result, MqttType
  <2> QED
    BY <1>15, <2>2, <2>4 DEF Result
<1>16. ASSUME NEW s \in Stages, NEW verdict \in Verdicts, Answer(s, verdict) PROVE TypeOK'
  <2>1. dialogue \in 1..MaxDialogues
    BY <1>16 DEF Answer, PlaceInv, RunType
  <2>2. DiskType'
    BY <1>16, <2>1 DEF Answer, DiskType, disk, data
  <2>3. MqttType'
    BY <1>16 DEF Answer, MqttType, Answers, mqtt
  <2> QED
    BY <1>16, <2>2, <2>3 DEF Answer
<1>17. ASSUME NEW s \in Stages, Rejected(s) PROVE TypeOK'
  <2>1. promise' \in Promises /\ dangling' \in BOOLEAN
    BY <1>17, Set DEF Rejected
  <2>2. RunType'
    BY <1>17, <2>1 DEF Rejected, RunType, run
  <2>3. HistoryType'
    BY <1>0, <1>17, <2>1 DEF Rejected, Delivered, HistoryType
  <2>4. MqttType'
    BY <1>17 DEF Rejected, Delivered, MqttType, Answers, mqtt
  <2> QED
    BY <1>17, <2>2, <2>3, <2>4 DEF Rejected
<1>18. ASSUME NEW s \in Stages, Accepted(s) PROVE TypeOK'
  <2>1. HistoryType'
    BY <1>0, <1>18 DEF Accepted, Delivered, HistoryType
  <2>2. MqttType'
    BY <1>18 DEF Accepted, Delivered, MqttType, Answers, PahoPlaces, At, mqtt
  <2> QED
    BY <1>18, <2>1, <2>2 DEF Accepted
<1>19. CASE SaveKeys
  <2>1. promise' \in Promises /\ dangling' \in BOOLEAN
    <3>1. CASE UNCHANGED <<promise, dangling>>
      BY <3>1 DEF RunType, HistoryType
    <3>2. CASE SetPromise(1, "answer", "true", handler[<<1, "accepted">>])
      BY <3>2, Set DEF Stages
    <3> QED
      BY <1>19, <3>1, <3>2 DEF SaveKeys
  <2>2. RunType' /\ HistoryType'
    BY <1>19, <2>1 DEF SaveKeys, RunType, HistoryType, run, bounds
  <2>3. paho' \in PahoPlaces
    BY <1>19 DEF SaveKeys, MqttType, PahoPlaces, At, Idle
  <2>4. MqttType'
    BY <1>19, <2>3 DEF SaveKeys, MqttType, mqtt
  <2>5. file' \in [Files -> 0..MaxDialogues] /\ exists' \in SUBSET Files
    <3>1. CASE UNCHANGED disk
      BY <3>1 DEF DiskType, disk
    <3>2. ASSUME NEW f \in Files, Open(f) \/ Close(f)
          PROVE  file' \in [Files -> 0..MaxDialogues] /\ exists' \in SUBSET Files
      BY <1>0, <3>2 DEF Open, Close, DiskType, RunType
    <3>3. \A i \in 1..3 : Certificates[i] \in Files
      BY DEF Certificates, Files
    <3> QED
      BY <1>19, <3>1, <3>2, <3>3 DEF SaveKeys
  <2>6. DiskType'
    BY <1>19, <2>5 DEF SaveKeys, DiskType, data
  <2> QED
    BY <2>2, <2>4, <2>6
<1>20. CASE SaveProvision
  <2>1. promise' \in Promises /\ dangling' \in BOOLEAN
    <3>1. CASE UNCHANGED <<promise, dangling>>
      BY <3>1 DEF RunType, HistoryType
    <3>2. CASE SetPromise(2, "answer", "true", handler[<<2, "accepted">>])
      BY <3>2, Set DEF Stages
    <3> QED
      BY <1>20, <3>1, <3>2 DEF SaveProvision
  <2>2. RunType' /\ HistoryType'
    BY <1>20, <2>1 DEF SaveProvision, RunType, HistoryType, run, bounds
  <2>3. paho' \in PahoPlaces
    BY <1>20 DEF SaveProvision, MqttType, PahoPlaces, At, Idle
  <2>4. MqttType'
    BY <1>20, <2>3 DEF SaveProvision, MqttType, mqtt
  <2>5. file' \in [Files -> 0..MaxDialogues] /\ exists' \in SUBSET Files
    <3>1. CASE UNCHANGED disk
      BY <3>1 DEF DiskType, disk
    <3>2. CASE Open("provision") \/ Close("provision")
      BY <1>0, <3>2 DEF Open, Close, Files, DiskType, RunType
    <3> QED
      BY <1>20, <3>1, <3>2 DEF SaveProvision
  <2>6. DiskType'
    BY <1>20, <2>5 DEF SaveProvision, DiskType, exploreProvisionFile
  <2> QED
    BY <2>2, <2>4, <2>6
<1>21. CASE UNCHANGED vars
  BY <1>21 DEF vars
<1> QED
  BY <1>1, <1>2, <1>3, <1>4, <1>5, <1>6, <1>7, <1>8, <1>9, <1>10, <1>11, <1>12, <1>13, <1>14,
     <1>15, <1>16, <1>17, <1>18, <1>19, <1>20, <1>21
     DEF Next, Worker, PahoThread, Cloud, subscribe, Verdicts, StageSteps, Dialogue, Results

-----------------------------------------------------------------------------

\* A process that is down does nothing but start.
LEMMA DownStarts ==
  TypeOK /\ PlaceInv /\ instance = "down" /\ [Next]_vars => activate \/ UNCHANGED vars
<1> SUFFICES ASSUME TypeOK, PlaceInv, instance = "down", [Next]_vars, ~activate, ~UNCHANGED vars
             PROVE  FALSE
  OBVIOUS
<1>1. /\ worker.at = "idle" /\ paho.at = "idle" /\ ~client /\ link = "down" /\ pending = {}
      /\ \A s \in Stages : answer[s] = "none"
  BY Beginnings DEF PlaceInv, NoAnswers
<1>2. ~(launchProvisioning \/ deactivate \/ Join \/ Crash)
  BY DEF launchProvisioning, deactivate, Join, Crash
<1>3. ~(create \/ connect \/ ConnectedInTime \/ NotConnected \/ Release \/ subscribe)
  BY <1>1 DEF create, connect, ConnectedInTime, NotConnected, Release, subscribe, SubscribeTo
<1>4. ~(AwaitAccepted \/ AwaitRejected \/ AwaitSent \/ AwaitAnswer)
  BY <1>1 DEF AwaitAccepted, AwaitRejected, AwaitSent, AwaitAnswer, Get
<1>5. ~(publish \/ unsubscribe \/ Cancel)
  BY <1>1 DEF publish, unsubscribe, Cancel
<1>6. ~(OnConnect \/ SaveKeys \/ SaveProvision)
  BY <1>1 DEF OnConnect, SaveKeys, SaveProvision
<1>7. ASSUME NEW s \in Stages PROVE ~(Accepted(s) \/ Rejected(s))
  BY <1>1 DEF Accepted, Rejected, Forwarded
<1>8. ASSUME NEW s \in Stages, NEW p \in Results, NEW f \in 1..MaxDialogues PROVE ~Result(s, p, f)
  BY <1>1 DEF Result
<1>9. ASSUME NEW s \in Stages, NEW verdict \in Verdicts PROVE ~Answer(s, verdict)
  BY <1>1 DEF Answer
<1>10. ~(Connected \/ ConnectionLost \/ Reconnect)
  BY <1>1 DEF Connected, ConnectionLost, Reconnect
<1> QED
  BY <1>2, <1>3, <1>4, <1>5, <1>6, <1>7, <1>8, <1>9, <1>10 DEF Next, Worker, PahoThread, Cloud

\* Worker and client thread keep to their places.
LEMMA PlaceStep == TypeOK /\ PlaceInv /\ [Next]_vars => PlaceInv'
<1> SUFFICES ASSUME TypeOK, PlaceInv, [Next]_vars PROVE PlaceInv'
  OBVIOUS
<1> USE DEF disk, data, run, mqtt, PlaceInv
<1>0. CASE instance = "down"
  BY <1>0, DownStarts DEF activate, vars
<1> SUFFICES ASSUME instance # "down" PROVE PlaceInv'
  BY <1>0
<1> USE DEF Dialogue, StageSteps
<1>1. CASE activate \/ UNCHANGED vars
  BY <1>1 DEF activate, vars
<1>2. CASE launchProvisioning
  BY <1>2 DEF launchProvisioning, At, TypeOK, RunType
<1>3. CASE deactivate \/ Join
  BY <1>3 DEF deactivate, Join
<1>4. CASE Crash
  <2>1. \A s \in Stages : answer'[s] = "none"
    BY <1>4 DEF Crash, NoAnswers
  <2> QED
    BY <1>4, <2>1, Beginnings DEF Crash
<1>5. CASE create \/ connect \/ ConnectedInTime \/ NotConnected \/ Release
  <2>1. CASE create
    BY <2>1 DEF create, Goto, At
  <2>2. CASE connect
    BY <2>2 DEF connect, Throw, Proceed, Goto, At
  <2>3. CASE ConnectedInTime
    BY <2>3 DEF ConnectedInTime, At, Stages, NoAnswers
  <2>4. CASE NotConnected
    BY <2>4 DEF NotConnected, Goto, At
  <2>5. CASE Release
    BY <2>5 DEF Release, Goto, At
  <2> QED
    BY <1>5, <2>1, <2>2, <2>3, <2>4, <2>5
<1>6. CASE subscribe
  <2>1. /\ worker.at \in {"subscribe", "subscribeOther"}
        /\ \/ worker' = [at |-> "cancel", n |-> 0]
           \/ \E at \in {"subscribeOther", "awaitAccepted"} : worker' = [at |-> at, n |-> worker.n]
    BY <1>6 DEF subscribe, SubscribeTo, Request, Throw, Proceed, Goto, At
  <2>2. UNCHANGED <<promise, client, paho, instance, answer, dialogue, frame>> /\ MapFree
    BY <1>6 DEF subscribe, SubscribeTo, Request, Throw, Proceed, Goto
  <2> QED
    BY <2>1, <2>2 DEF MapFree
<1>7. CASE AwaitAccepted \/ AwaitRejected \/ AwaitSent \/ AwaitAnswer
  <2>1. /\ worker.at \in {"awaitAccepted", "awaitRejected", "awaitSent", "awaitAnswer"}
        /\ UNCHANGED <<promise, client, paho, handler, instance, answer, dialogue, frame>>
    BY <1>7 DEF AwaitAccepted, AwaitRejected, AwaitSent, AwaitAnswer, Get, Throw, Proceed, Goto
  <2>2. \/ worker' = [at |-> "cancel", n |-> 0]
        \/ worker' = [at |-> "subscribe", n |-> 2]
        \/ worker' = [at |-> "unsubscribe", n |-> 4]
        \/ \E at \in {"awaitRejected", "publish", "awaitAnswer"} : worker' = [at |-> at, n |-> worker.n]
    BY <1>7 DEF AwaitAccepted, AwaitRejected, AwaitSent, AwaitAnswer, Get, Throw, Proceed, Goto, At
  <2> QED
    BY <2>1, <2>2 DEF Stages
<1>8. CASE publish
  <2>1. /\ worker.at = "publish" /\ worker.n \in Stages
        /\ UNCHANGED <<promise, client, paho, handler, instance, dialogue, frame>>
        /\ worker' = [at |-> "awaitSent", n |-> worker.n]
        /\ answer' = answer \/ answer' = [answer EXCEPT ![worker.n] = "asked"]
    BY <1>8 DEF publish, Goto, At
  <2>2. \A s \in Stages : answer'[s] # "none" => s = worker.n \/ answer[s] # "none"
    BY <2>1 DEF TypeOK, MqttType, Answers
  <2>3. dialogue # 0
    BY <2>1
  <2> QED
    BY <2>1, <2>2, <2>3
<1>9. CASE unsubscribe \/ Cancel
  <2>1. /\ worker.at \in {"unsubscribe", "cancel"} /\ MapFree
        /\ UNCHANGED <<promise, client, paho, instance, answer, dialogue, frame>>
        /\ \/ worker' = [at |-> "cancel", n |-> 0]
           \/ worker' = [at |-> "release", n |-> 0]
           \/ worker' = [at |-> "idle", n |-> 0]
           \/ /\ worker.at = "unsubscribe" /\ worker.n > 1
              /\ worker' = [at |-> "unsubscribe", n |-> worker.n - 1]
    BY <1>9 DEF unsubscribe, Cancel, Throw, Proceed, Goto, At
  <2> QED
    BY <2>1 DEF MapFree
<1>10. CASE Connected \/ OnConnect
  <2>1. /\ paho'.at \in {"idle", "onConnect"}
        /\ UNCHANGED <<worker, frame, dialogue, promise, client, handler, answer, instance>>
    BY <1>10, Beginnings DEF Connected, OnConnect, At
  <2> QED
    BY <2>1
<1>11. CASE ConnectionLost \/ Reconnect
  BY <1>11 DEF ConnectionLost, Reconnect, LoseLink
<1>12. ASSUME NEW s \in Stages, NEW p \in Results \cup {"answer"}, NEW result \in {"true", "false"},
              NEW f, SetPromise(s, p, result, f)
       PROVE  worker.at \in {"create", "connect", "wait"} => promise' = promise
  BY <1>12, Set DEF TypeOK, Trying
<1>13. ASSUME NEW s \in Stages, NEW p \in Results, NEW f \in 1..MaxDialogues, Result(s, p, f)
       PROVE  PlaceInv'
  BY <1>12, <1>13 DEF Result
<1>14. ASSUME NEW s \in Stages, NEW verdict \in Verdicts, Answer(s, verdict) PROVE PlaceInv'
  BY <1>14 DEF Answer, TypeOK, MqttType, Answers
<1>15. ASSUME NEW s \in Stages, Rejected(s) \/ Accepted(s) PROVE PlaceInv'
  <2>1. \A s2 \in Stages : answer'[s2] \in {"none", answer[s2]}
    BY <1>15 DEF Rejected, Accepted, Delivered, TypeOK, MqttType, Answers
  <2>2. worker.at \in {"create", "connect", "wait"} => promise' = promise
    BY <1>12, <1>15 DEF Rejected, Accepted
  <2>3. CASE Rejected(s)
    BY <2>1, <2>2, <2>3 DEF Rejected
  <2>4. CASE Accepted(s)
    BY <2>1, <2>2, <2>4 DEF Accepted, Forwarded, At, Stages
  <2> QED
    BY <1>15, <2>3, <2>4
<1>16. CASE SaveKeys \/ SaveProvision
  <2>1. worker.at \in {"create", "connect", "wait"} => promise' = promise
    BY <1>12, <1>16 DEF SaveKeys, SaveProvision, Stages
  <2>2. /\ UNCHANGED <<worker, frame, dialogue, client, handler, answer, instance>>
        /\ \/ paho' = Idle
           \/ paho.at = "keys" /\ paho.n \in 1..6 /\ paho' = [at |-> "keys", n |-> paho.n + 1]
           \/ paho.at = "register" /\ paho.n \in 1..2 /\ paho' = [at |-> "register", n |-> paho.n + 1]
    BY <1>16 DEF SaveKeys, SaveProvision, At
  <2> QED
    BY <2>1, <2>2, Beginnings
<1> QED
  BY <1>1, <1>2, <1>3, <1>4, <1>5, <1>6, <1>7, <1>8, <1>9, <1>10, <1>11, <1>13, <1>14, <1>15, <1>16
     DEF Next, Worker, PahoThread, Cloud

\* Only a dialogue registers message handlers, and they are gone before the next.
LEMMA HandlerStep == TypeOK /\ PlaceInv /\ HandlerInv /\ [Next]_vars => HandlerInv'
<1> SUFFICES ASSUME TypeOK, PlaceInv, HandlerInv, [Next]_vars PROVE HandlerInv'
  OBVIOUS
<1> USE DEF run, mqtt
<1>0. ASSUME worker.at \in {"connect", "wait", "release"} \/ (worker.at \in {"idle", "create"} /\ ~client)
      PROVE  \A t \in Topics : handler[t] = 0
  BY <1>0 DEF HandlerInv, Dialogue
<1>1. CASE UNCHANGED <<worker, client, handler, dialogue>>
  BY <1>1 DEF HandlerInv
<1>2. CASE launchProvisioning
  BY <1>2, Beginnings DEF launchProvisioning, HandlerInv, Dialogue, At
<1>3. CASE Crash
  BY <1>3, Beginnings DEF Crash, HandlerInv, Dialogue, NoHandlers
<1>4. CASE create \/ connect \/ NotConnected \/ Release
  <2>1. /\ UNCHANGED <<handler, dialogue>>
        /\ \/ worker.at \in {"connect", "wait", "release"} /\ worker'.at # "unsubscribe"
           \/ worker.at = "create" /\ ~client /\ worker'.at # "unsubscribe"
           \/ worker.at = "create" /\ client' = client /\ worker'.at = "idle"
    BY <1>4 DEF create, connect, NotConnected, Release, Throw, Proceed, Goto, At
  <2> QED
    BY <1>0, <2>1 DEF HandlerInv, Dialogue
<1>5. CASE ConnectedInTime
  BY <1>0, <1>5 DEF ConnectedInTime, HandlerInv, Dialogue, At
<1>6. CASE subscribe
  <2>1. /\ worker.at \in {"subscribe", "subscribeOther"} /\ frame = dialogue
        /\ worker'.at \in {"subscribeOther", "awaitAccepted", "cancel"} /\ UNCHANGED dialogue
        /\ \/ handler' = handler
           \/ \E t \in Topics : handler' = [handler EXCEPT ![t] = frame]
    BY <1>6
       DEF subscribe, SubscribeTo, Request, Throw, Proceed, Goto, At, PlaceInv, StageSteps, Topics,
           Verdicts, Dialogue
  <2> QED
    BY <2>1 DEF HandlerInv, Dialogue, TypeOK, MqttType
<1>7. CASE AwaitAccepted \/ AwaitRejected \/ AwaitSent \/ AwaitAnswer \/ publish
  <2>1. /\ worker.at \in Dialogue /\ UNCHANGED <<handler, dialogue>>
        /\ worker'.at \in Dialogue /\ (worker'.at = "unsubscribe" => worker'.n = 4)
    BY <1>7 DEF AwaitAccepted, AwaitRejected, AwaitSent, AwaitAnswer, publish, Get, Throw, Proceed,
                Goto, At,
                Dialogue
  <2> QED
    BY <2>1 DEF HandlerInv
<1>8. CASE unsubscribe
  <2>1. CASE link # "up"
    BY <1>8, <2>1 DEF unsubscribe, Throw, Proceed, Goto, At, HandlerInv, Dialogue
  <2>2. CASE link = "up"
    <3>0. RemoveTopics({Topic[worker.n]}) /\ UNCHANGED dialogue /\ worker.at = "unsubscribe"
      BY <1>8, <2>2 DEF unsubscribe, Proceed, Goto
    <3>1. \A t \in Topics : handler'[t] = IF t = Topic[worker.n] THEN 0 ELSE handler[t]
      BY <3>0 DEF RemoveTopics
    <3>2. \A i \in 1..4 : Topic[i] \in Topics
      BY DEF Topic, Topics, Stages, Verdicts
    <3>3. \A i \in 1..4 : i > worker.n - 1 => handler'[Topic[i]] = 0
      BY <3>0, <3>1, <3>2 DEF HandlerInv, TypeOK, RunType, Places
    <3>4. \A t \in Topics : handler'[t] # 0 => handler'[t] = dialogue
      BY <3>0, <3>1 DEF HandlerInv
    <3>5. CASE worker.n > 1
      <4>1. worker'.at = "unsubscribe" /\ worker'.n = worker.n - 1
        BY <1>8, <2>2, <3>5 DEF unsubscribe, Proceed, Goto, At
      <4> QED
        BY <3>0, <3>3, <3>4, <4>1 DEF HandlerInv, Dialogue
    <3>6. CASE worker.n <= 1
      <4>1. \A i \in 1..4 : handler'[Topic[i]] = 0
        BY <3>0, <3>3, <3>6 DEF PlaceInv
      <4>2. \A t \in Topics : \E i \in 1..4 : t = Topic[i]
        BY DEF Topic, Topics, Stages, Verdicts
      <4> QED
        BY <3>0, <4>1, <4>2, <3>2 DEF HandlerInv
    <3> QED
      BY <3>5, <3>6 DEF TypeOK, RunType, Places
  <2> QED
    BY <2>1, <2>2
<1>9. CASE Cancel
  <2>1. /\ worker.at = "cancel" /\ worker'.at = "idle" /\ UNCHANGED <<client, dialogue>> /\ client
        /\ \E topics : RemoveTopics(topics)
    BY <1>9 DEF Cancel, Goto, At, PlaceInv, Dialogue
  <2> QED
    BY <2>1 DEF RemoveTopics, HandlerInv
<1>10. ASSUME activate \/ deactivate \/ Join \/ Connected \/ OnConnect \/ ConnectionLost \/ Reconnect
       PROVE  UNCHANGED <<worker, client, handler, dialogue>>
  BY <1>10 DEF activate, deactivate, Join, Connected, OnConnect, ConnectionLost, Reconnect
<1>11. ASSUME NEW s \in Stages, NEW p \in Results, NEW f \in 1..MaxDialogues, Result(s, p, f)
       PROVE  UNCHANGED <<worker, client, handler, dialogue>>
  BY <1>11 DEF Result
<1>12. ASSUME NEW s \in Stages, NEW verdict \in Verdicts,
              Answer(s, verdict) \/ Rejected(s) \/ Accepted(s)
       PROVE  UNCHANGED <<worker, client, handler, dialogue>>
  BY <1>12 DEF Answer, Rejected, Accepted
<1>13. ASSUME SaveKeys \/ SaveProvision \/ UNCHANGED vars
       PROVE  UNCHANGED <<worker, client, handler, dialogue>>
  BY <1>13 DEF SaveKeys, SaveProvision, vars
<1> QED
  BY <1>1, <1>2, <1>3, <1>4, <1>5, <1>6, <1>7, <1>8, <1>9, <1>10, <1>11, <1>12, <1>13
     DEF Next, Worker, PahoThread, Cloud, Verdicts

\* As long as no exception ended a dialogue, a message handler is one of the run
\* that is in its dialogue.
LEMMA HandlerAlive ==
  ASSUME TypeOK, PlaceInv, HandlerInv, PendingInv, ~threw, NEW t \in Topics, handler[t] # 0
  PROVE  handler[t] = frame /\ worker.at \in Trying
BY DEF PlaceInv, HandlerInv, PendingInv, Trying

\* What a result that is due or was dropped tells of the worker.
LEMMA DueAt ==
  ASSUME PendingInv, ~threw, NEW q \in Made
  PROVE  /\ q[3] = frame /\ promise[q[1]][q[2]] = "unset" /\ worker.at \in Trying
         /\ worker.n = q[1] /\ worker.at \in AwaitedAt(q[2])
         /\ worker.at \in {"subscribeOther", "awaitAccepted", "awaitRejected", "awaitSent"}
BY DEF PendingInv, AwaitedAt, Trying, Dialogue

\* An answer changes no promise that a subscription or a publish waits for.
LEMMA AnswerKeeps ==
  ASSUME TypeOK, PlaceInv, HandlerInv, PendingInv, ~threw, UNCHANGED <<worker, frame, client, pending, missed>>,
         NEW s \in Stages, NEW verdict \in Verdicts, NEW result \in {"true", "false"},
         handler[<<s, verdict>>] # 0, SetPromise(s, "answer", result, handler[<<s, verdict>>])
  PROVE  PendingInv'
<1>1. dangling' = dangling /\ \A s2 \in Stages, p2 \in Results : promise'[s2][p2] = promise[s2][p2]
  <2>1. handler[<<s, verdict>>] = frame /\ worker.at \in Trying
    BY HandlerAlive DEF Topics
  <2> QED
    BY <2>1, Set DEF TypeOK, Results, Verdicts
<1>2. \A q \in Made : q[1] \in Stages /\ q[2] \in Results
  BY DEF TypeOK, MqttType, HistoryType, Requests, Made
<1> QED
  BY <1>1, <1>2 DEF PendingInv, Results, Made

\* That an exception ended a dialogue is not forgotten.
LEMMA ThrewStays == [Next]_vars /\ threw => threw'
<1> SUFFICES ASSUME [Next]_vars, threw PROVE threw'
  OBVIOUS
<1> USE DEF history, others, bounds
<1>1. ASSUME activate \/ launchProvisioning \/ deactivate \/ Join \/ Crash PROVE threw'
  BY <1>1 DEF activate, launchProvisioning, deactivate, Join, Crash
<1>2. ASSUME create \/ connect \/ ConnectedInTime \/ NotConnected \/ Release \/ subscribe PROVE threw'
  BY <1>2 DEF create, connect, ConnectedInTime, NotConnected, Release, subscribe, SubscribeTo,
              Throw, Proceed
<1>3. ASSUME AwaitAccepted \/ AwaitRejected \/ AwaitSent \/ AwaitAnswer PROVE threw'
  BY <1>3 DEF AwaitAccepted, AwaitRejected, AwaitSent, AwaitAnswer, Get, Throw, Proceed
<1>4. ASSUME publish \/ unsubscribe \/ Cancel \/ OnConnect \/ SaveKeys \/ SaveProvision PROVE threw'
  BY <1>4 DEF publish, unsubscribe, Cancel, Throw, Proceed, OnConnect, SaveKeys, SaveProvision
<1>5. ASSUME NEW s \in Stages, Accepted(s) \/ Rejected(s) PROVE threw'
  BY <1>5 DEF Accepted, Rejected
<1>6. ASSUME NEW s \in Stages, NEW p \in Results, NEW f \in 1..MaxDialogues, Result(s, p, f) PROVE threw'
  BY <1>6 DEF Result
<1>7. ASSUME NEW s \in Stages, NEW verdict \in Verdicts, Answer(s, verdict) PROVE threw'
  BY <1>7 DEF Answer
<1>8. ASSUME Connected \/ ConnectionLost \/ Reconnect \/ UNCHANGED vars PROVE threw'
  BY <1>8 DEF Connected, ConnectionLost, Reconnect, vars
<1> QED
  BY <1>1, <1>2, <1>3, <1>4, <1>5, <1>6, <1>7, <1>8 DEF Next, Worker, PahoThread, Cloud

\* While all is well, what is due is due to a run that waits for it.
LEMMA PendingStep == TypeOK /\ PlaceInv /\ HandlerInv /\ PendingInv /\ [Next]_vars => PendingInv'
<1> SUFFICES ASSUME TypeOK, PlaceInv, HandlerInv, PendingInv, [Next]_vars PROVE PendingInv'
  OBVIOUS
<1> SUFFICES ASSUME ~threw, ~threw' PROVE PendingInv'
  BY ThrewStays, Zenon DEF PendingInv
<1> USE DEF run, mqtt, history, others, bounds
<1>0. /\ worker.at \in {"idle", "create", "connect", "wait", "release", "subscribe", "publish",
                        "awaitAnswer", "unsubscribe"} => Made = {}
      /\ ~dangling
  BY DueAt DEF PendingInv
<1>1. CASE /\ pending' \subseteq pending /\ missed' = missed
           /\ UNCHANGED <<worker, frame, client, promise, dangling>>
  BY <1>1 DEF PendingInv, Made
<1>2. ASSUME Made' = {}, dangling' = dangling, worker'.at \notin StageSteps \cup {"cancel"},
             worker'.at \in {"idle", "create"} => ~client'
      PROVE  PendingInv'
  BY <1>0, <1>2 DEF PendingInv, Made
<1>3. CASE launchProvisioning
  BY <1>0, <1>2, <1>3, Beginnings DEF launchProvisioning, At, StageSteps, PendingInv, Made
<1>4. CASE Crash
  <2>1. Made' = {} /\ dangling' = dangling /\ ~client'
    BY <1>4 DEF Crash, Made
  <2>2. worker'.at = "idle"
    BY <1>4, Beginnings DEF Crash
  <2> QED
    BY <1>2, <2>1, <2>2 DEF StageSteps
<1>5. CASE create \/ connect \/ Release
  <2>1. CASE create
    <3>1. Made' = {} /\ dangling' = dangling
      BY <1>0, <2>1 DEF create, At, Made
    <3>2. /\ worker'.at \in {"connect", "idle"}
          /\ worker'.at = "idle" => client' = client
      BY <2>1 DEF create, Goto, At
    <3>3. worker.at = "create" /\ (worker'.at = "idle" => ~client')
      BY <2>1, <3>2 DEF create, PendingInv
    <3> QED
      BY <1>2, <3>1, <3>2, <3>3 DEF StageSteps
  <2>2. CASE connect
    <3>1. Made' = {} /\ dangling' = dangling
      BY <1>0, <2>2 DEF connect, At, Made
    <3>2. worker'.at = "wait"
      BY <2>2 DEF connect, Throw, Proceed, Goto, At
    <3> QED
      BY <1>2, <3>1, <3>2 DEF StageSteps
  <2>3. CASE Release
    <3>1. Made' = {} /\ dangling' = dangling
      BY <1>0, <2>3 DEF Release, At, Made
    <3>2. worker'.at = "idle" /\ ~client'
      BY <2>3 DEF Release, Goto, At
    <3> QED
      BY <1>2, <3>1, <3>2 DEF StageSteps
  <2> QED
    BY <1>5, <2>1, <2>2, <2>3
<1>6. CASE NotConnected
  BY <1>0, <1>2, <1>6 DEF NotConnected, Goto, At, StageSteps, PendingInv, Made
<1>7. CASE ConnectedInTime
  <2>1. \A s \in Stages, p \in Results : promise'[s][p] = "unset"
    BY <1>7 DEF ConnectedInTime, PlaceInv, NoPromises
  <2> QED
    BY <1>0, <1>7, <2>1 DEF ConnectedInTime, At, PendingInv, Made
<1>8. CASE subscribe
  <2>1. PICK v \in Verdicts :
          /\ \/ v = "accepted" /\ worker.at = "subscribe"
             \/ v = "rejected" /\ worker.at = "subscribeOther"
          /\ UNCHANGED <<frame, client, promise, dangling>>
          /\ \/ pending' = pending \cup {<<worker.n, v, frame>>} /\ missed' = missed
             \/ missed' = missed \cup {<<worker.n, v, frame>>} /\ pending' = pending
          /\ worker' = [at |-> IF v = "accepted" THEN "subscribeOther" ELSE "awaitAccepted",
                        n |-> worker.n]
    BY <1>8 DEF subscribe, SubscribeTo, Request, Throw, Proceed, Goto, At, Verdicts
  <2>2. promise[worker.n][v] = "unset" /\ worker.n \in Stages
    BY <2>1 DEF PendingInv, PlaceInv, StageSteps, UnaskedAt, Results, Verdicts
  <2>3. ASSUME NEW q \in Made
        PROVE  q[3] = frame /\ promise[q[1]][q[2]] = "unset" /\ worker.n = q[1]
               /\ q[2] = "accepted" /\ v = "rejected"
    BY <2>1, DueAt, <1>0 DEF AwaitedAt
  <2>4. ASSUME NEW q \in Made'
        PROVE  q[3] = frame /\ promise[q[1]][q[2]] = "unset" /\ worker'.n = q[1]
               /\ worker'.at \in AwaitedAt(q[2])
    <3>1. q \in Made \/ q = <<worker.n, v, frame>>
      BY <2>1 DEF Made
    <3> QED
      BY <2>1, <2>2, <2>3, <3>1 DEF AwaitedAt
  <2>5. \A s \in Stages, p \in Results :
          worker'.n < s \/ (worker'.n = s /\ worker'.at \in UnaskedAt(p)) => promise[s][p] = "unset"
    BY <2>1 DEF PendingInv, StageSteps, UnaskedAt
  <2>6. pending' \cap missed' = {}
    <3>1. <<worker.n, v, frame>> \notin Made
      BY <2>3
    <3> QED
      BY <2>1, <3>1 DEF PendingInv, Made
  <2> QED
    BY <1>0, <2>1, <2>4, <2>5, <2>6 DEF PendingInv
<1>9. CASE AwaitAccepted \/ AwaitRejected \/ AwaitSent
  <2>1. PICK p \in Results :
          /\ \/ p = "accepted" /\ worker.at = "awaitAccepted"
             \/ p = "rejected" /\ worker.at = "awaitRejected"
             \/ p = "sent" /\ worker.at = "awaitSent"
          /\ promise[worker.n][p] # "unset"
          /\ UNCHANGED <<frame, client, promise, dangling, pending, missed>>
          /\ worker' = [at |-> IF p = "accepted" THEN "awaitRejected"
                               ELSE IF p = "rejected" THEN "publish" ELSE "awaitAnswer",
                        n |-> worker.n]
    BY <1>9 DEF AwaitAccepted, AwaitRejected, AwaitSent, Get, Throw, Proceed, Goto, At, Results,
                Verdicts
  <2>2. ASSUME NEW q \in Made
        PROVE  q[3] = frame /\ promise[q[1]][q[2]] = "unset" /\ worker.n = q[1]
               /\ p = "accepted" /\ q[2] = "rejected"
    <3>1. /\ q[3] = frame /\ promise[q[1]][q[2]] = "unset"
          /\ worker.n = q[1] /\ worker.at \in AwaitedAt(q[2])
      BY <2>1, DueAt
    <3>2. q[2] # p
      BY <2>1, <3>1
    <3>3. q[2] \in {"accepted", "rejected", "sent"}
      BY DEF TypeOK, MqttType, HistoryType, Made, Requests, Results, Verdicts
    <3> QED
      BY <2>1, <3>1, <3>2, <3>3 DEF AwaitedAt
  <2>3. \A s \in Stages, r \in Results :
          worker'.n < s \/ (worker'.n = s /\ worker'.at \in UnaskedAt(r)) => promise[s][r] = "unset"
    BY <2>1 DEF PendingInv, StageSteps, UnaskedAt
  <2> QED
    BY <1>0, <2>1, <2>2, <2>3 DEF PendingInv, AwaitedAt, Made
<1>10. CASE AwaitAnswer
  <2>1. /\ Made = {} /\ UNCHANGED <<frame, client, promise, dangling, pending, missed>>
        /\ worker.at = "awaitAnswer" /\ worker.n \in Stages
        /\ \/ worker'.at = "unsubscribe"
           \/ worker.n = 1 /\ worker' = [at |-> "subscribe", n |-> 2]
    BY <1>0, <1>10 DEF AwaitAnswer, Get, Throw, Proceed, Goto, At, PlaceInv, StageSteps
  <2>2. CASE worker'.at # "subscribe"
    BY <1>2, <2>1, <2>2 DEF StageSteps, Made
  <2>3. CASE worker'.at = "subscribe"
    BY <1>0, <2>1, <2>3 DEF PendingInv, StageSteps, Stages, Made
  <2> QED
    BY <2>2, <2>3
<1>11. CASE publish
  <2>1. /\ worker.at = "publish" /\ Made = {} /\ worker.n \in Stages
        /\ UNCHANGED <<frame, client, promise, dangling>>
        /\ Made' \subseteq {<<worker.n, "sent", frame>>} /\ pending' \cap missed' = {}
        /\ worker' = [at |-> "awaitSent", n |-> worker.n]
    BY <1>0, <1>11 DEF publish, Request, Goto, At, PlaceInv, StageSteps, Made
  <2>2. promise[worker.n]["sent"] = "unset"
    BY <2>1 DEF PendingInv, StageSteps, UnaskedAt, Results
  <2>3. \A s \in Stages, r \in Results :
          worker'.n < s \/ (worker'.n = s /\ worker'.at \in UnaskedAt(r)) => promise[s][r] = "unset"
    BY <2>1 DEF PendingInv, StageSteps, UnaskedAt
  <2> QED
    BY <1>0, <2>1, <2>2, <2>3 DEF PendingInv, AwaitedAt
<1>12. CASE unsubscribe
  <2>1. /\ Made' = {} /\ dangling' = dangling
        /\ worker'.at \in {"unsubscribe", "release"}
    BY <1>0, <1>12 DEF unsubscribe, Throw, Proceed, Goto, At, Made
  <2> QED
    BY <1>2, <2>1 DEF StageSteps
<1>13. ASSUME NEW s \in Stages, NEW p \in Results, NEW f \in 1..MaxDialogues, Result(s, p, f)
       PROVE  PendingInv'
  <2>1. /\ <<s, p, f>> \in pending /\ pending' = pending \ {<<s, p, f>>}
        /\ UNCHANGED <<worker, frame, client, missed>>
        /\ \E result \in {"true", "false"} : SetPromise(s, p, result, f)
    BY <1>13 DEF Result
  <2>2. f = frame /\ worker.at \in Trying /\ worker.n = s /\ worker.at \in AwaitedAt(p)
    BY <2>1, DueAt DEF Made
  <2>3. /\ dangling' = dangling
        /\ \A s2 \in Stages, p2 \in Results : promise'[s2][p2] = promise[s2][p2] \/ (s2 = s /\ p2 = p)
    BY <2>1, <2>2, Set DEF TypeOK
  <2>4. ASSUME NEW q \in Made' PROVE promise'[q[1]][q[2]] = "unset"
    <3>1. q \in Made /\ q # <<s, p, f>>
      BY <2>1 DEF PendingInv, Made
    <3>2. q[3] = f /\ promise[q[1]][q[2]] = "unset"
      BY <2>2, <3>1, DueAt
    <3>3. q[1] \in Stages /\ q[2] \in Results /\ q = <<q[1], q[2], q[3]>>
      BY <3>1 DEF TypeOK, MqttType, HistoryType, Made, Requests
    <3> QED
      BY <2>3, <3>1, <3>2, <3>3
  <2>5. ASSUME worker.at \in StageSteps, NEW s2 \in Stages, NEW p2 \in Results,
               worker.n < s2 \/ (worker.n = s2 /\ worker.at \in UnaskedAt(p2))
        PROVE  promise'[s2][p2] = "unset"
    <3>1. worker.n = s /\ worker.at \in AwaitedAt(p)
      BY <2>2
    <3>2. ~(s2 = s /\ p2 = p)
      BY <2>5, <3>1 DEF AwaitedAt, UnaskedAt, Stages
    <3> QED
      BY <2>3, <2>5, <3>2 DEF PendingInv
  <2> QED
    BY <1>0, <2>1, <2>3, <2>4, <2>5 DEF PendingInv, Made
<1>14. ASSUME NEW s \in Stages, Rejected(s) PROVE PendingInv'
  BY <1>14, AnswerKeeps DEF Rejected, Forwarded, Verdicts
<1>15. CASE SaveKeys
  <2>1. CASE UNCHANGED <<promise, dangling>>
    BY <1>1, <1>15, <2>1 DEF SaveKeys
  <2>2. CASE SetPromise(1, "answer", "true", handler[<<1, "accepted">>])
    BY <1>15, <2>2, AnswerKeeps DEF SaveKeys, PlaceInv, Stages, Verdicts
  <2> QED
    BY <1>15, <2>1, <2>2 DEF SaveKeys
<1>16. CASE SaveProvision
  <2>1. CASE UNCHANGED <<promise, dangling>>
    BY <1>1, <1>16, <2>1 DEF SaveProvision
  <2>2. CASE SetPromise(2, "answer", "true", handler[<<2, "accepted">>])
    BY <1>16, <2>2, AnswerKeeps DEF SaveProvision, PlaceInv, Stages, Verdicts
  <2> QED
    BY <1>16, <2>1, <2>2 DEF SaveProvision
<1>17. ASSUME activate \/ deactivate \/ Join \/ Connected \/ OnConnect \/ ConnectionLost \/ Reconnect
              \/ UNCHANGED vars
       PROVE  /\ pending' \subseteq pending /\ missed' = missed
              /\ UNCHANGED <<worker, frame, client, promise, dangling>>
  BY <1>17
     DEF activate, deactivate, Join, Connected, OnConnect, ConnectionLost, Reconnect, LoseLink, vars
<1>18. ASSUME NEW s \in Stages, NEW verdict \in Verdicts, Answer(s, verdict) \/ Accepted(s)
       PROVE  /\ pending' \subseteq pending /\ missed' = missed
              /\ UNCHANGED <<worker, frame, client, promise, dangling>>
  BY <1>18 DEF Answer, Accepted
<1>19. ~Cancel
  BY DEF Cancel, PendingInv
<1> QED
  BY <1>1, <1>3, <1>4, <1>5, <1>6, <1>7, <1>8, <1>9, <1>10, <1>11, <1>12, <1>13, <1>14, <1>15,
     <1>16, <1>17, <1>18, <1>19
     DEF Next, Worker, PahoThread, Cloud, Verdicts

\* A connection that is made once is made for the run that waits for it.
LEMMA ConnectStep == TypeOK /\ ConnectInv /\ [Next]_vars => ConnectInv'
<1> SUFFICES ASSUME TypeOK, ConnectInv, [Next]_vars, ~timedOut', losses' = 0 PROVE ConnectInv'
  BY DEF ConnectInv
<1> USE DEF run, mqtt, history, others, bounds
<1>1. /\ losses \in 0..MaxLosses /\ MaxLosses \in Nat
      /\ timedOut \in BOOLEAN /\ late \in BOOLEAN /\ connected \in BOOLEAN
  BY AwsAssumption DEF TypeOK, HistoryType, RunType
<1>2. ASSUME activate \/ Join \/ UNCHANGED vars PROVE ConnectInv'
  BY <1>2 DEF activate, Join, vars, ConnectInv
<1>3. CASE launchProvisioning
  BY <1>3 DEF launchProvisioning, Idle, At, ConnectInv
<1>4. CASE deactivate \/ Crash
  BY <1>4 DEF deactivate, LoseLink, Crash, Idle, At, ConnectInv
<1>5. CASE create \/ connect \/ ConnectedInTime \/ Release
  BY <1>5 DEF create, connect, ConnectedInTime, Release, Throw, Proceed, Goto, At, ConnectInv
<1>6. ~NotConnected
  BY DEF NotConnected
<1>7. CASE subscribe
  BY <1>7 DEF subscribe, SubscribeTo, Throw, Proceed, Goto, At, ConnectInv
<1>8. CASE AwaitAccepted \/ AwaitRejected \/ AwaitSent \/ AwaitAnswer
  BY <1>8 DEF AwaitAccepted, AwaitRejected, AwaitSent, AwaitAnswer, Get, Throw, Proceed, Goto, At,
              ConnectInv
<1>9. CASE publish \/ unsubscribe \/ Cancel
  BY <1>9 DEF publish, unsubscribe, Cancel, Throw, Proceed, Goto, At, ConnectInv
<1>10. CASE Connected \/ OnConnect
  BY <1>10 DEF Connected, OnConnect, Idle, At, ConnectInv
<1>11. ~ConnectionLost
  BY <1>1 DEF ConnectionLost
<1>12. ~Reconnect
  BY DEF Reconnect, ConnectInv
<1>13. ASSUME SaveKeys \/ SaveProvision PROVE ConnectInv'
  BY <1>13 DEF SaveKeys, SaveProvision, Idle, At, ConnectInv
<1>14. ASSUME NEW s \in Stages, Accepted(s) \/ Rejected(s) PROVE ConnectInv'
  BY <1>14 DEF Accepted, Rejected, Delivered, At, ConnectInv
<1>15. ASSUME NEW s \in Stages, NEW p \in Results, NEW f \in 1..MaxDialogues, Result(s, p, f)
       PROVE  ConnectInv'
  BY <1>15 DEF Result, ConnectInv
<1>16. ASSUME NEW s \in Stages, NEW verdict \in Verdicts, Answer(s, verdict) PROVE ConnectInv'
  BY <1>16 DEF Answer, ConnectInv
<1> QED
  BY <1>2, <1>3, <1>4, <1>5, <1>6, <1>7, <1>8, <1>9, <1>10, <1>11, <1>12, <1>13, <1>14, <1>15, <1>16
     DEF Next, Worker, PahoThread, Cloud

-----------------------------------------------------------------------------

\* What the other steps have in common: files stay, and no dialogue begins or
\* reaches its second stage.
Elsewhere ==
  /\ UNCHANGED <<file, exists, torn, overwritten, dialogue, m_topicPrefix>>
  /\ UNCHANGED m_isProvisioned \/ NotConnected \/ unsubscribe
  /\ registered \subseteq registered'
  /\ answer'[2] = "accepted" => answer[2] = "accepted" \/ dialogue \in registered'
  /\ promise'[2]["answer"] = "true" => promise[2]["answer"] = "true"
  /\ worker'.at = "unsubscribe" => worker.at = "unsubscribe" \/ promise[2]["answer"] = "true"
  /\ Second' => Second
  /\ worker'.at \in Dialogue => worker.at \in Dialogue
  /\ \A t \in Topics : handler'[t] # 0 => worker.at \in Dialogue \/ handler[t] # 0
  /\ \/ paho' = paho
     \/ paho.at \notin {"keys", "register"} /\ paho'.at \in {"idle", "onConnect"}
     \/ paho.at \notin {"keys", "register"} /\ paho' = [at |-> "keys", n |-> 1]
     \/ /\ paho.at \notin {"keys", "register"} /\ paho' = [at |-> "register", n |-> 1]
        /\ answer[2] = "accepted"

\* The steps that the proofs about the files need not look at one by one.
LEMMA MostElsewhere ==
  TypeOK /\ PlaceInv /\ [Next]_vars =>
    activate \/ Crash \/ ConnectedInTime \/ SaveKeys \/ SaveProvision \/ Elsewhere
<1> SUFFICES ASSUME TypeOK, PlaceInv, [Next]_vars,
                    ~(activate \/ Crash \/ ConnectedInTime \/ SaveKeys \/ SaveProvision)
             PROVE  Elsewhere
  OBVIOUS
<1> USE DEF disk, data, run, mqtt, history, others, bounds
<1>1. CASE deactivate \/ Join \/ ConnectionLost \/ Reconnect \/ UNCHANGED vars
  BY <1>1 DEF deactivate, Join, ConnectionLost, Reconnect, LoseLink, vars, Elsewhere, Second
<1>2. CASE launchProvisioning
  <2>1. promise'[1]["answer"] = "unset" /\ promise'[2]["answer"] = "unset"
    BY <1>2 DEF launchProvisioning, NoPromises, Stages
  <2> QED
    BY <1>2, <2>1 DEF launchProvisioning, At, Dialogue, StageSteps, Elsewhere, Second
<1>3. CASE create \/ connect \/ Release
  <2>1. worker'.at \in {"connect", "wait", "idle"}
    BY <1>3 DEF create, connect, Release, Throw, Proceed, Goto, At
  <2> QED
    BY <1>3, <2>1 DEF create, connect, Release, Throw, Proceed, Goto, Dialogue, StageSteps,
                      Elsewhere, Second
<1>4. CASE NotConnected
  BY <1>4 DEF NotConnected, Goto, At, Dialogue, StageSteps, Elsewhere, Second
<1>5. CASE subscribe
  <2>1. /\ worker.at \in {"subscribe", "subscribeOther"}
        /\ \/ worker'.at = "cancel"
           \/ worker'.at \in {"subscribeOther", "awaitAccepted"} /\ worker'.n = worker.n
    BY <1>5 DEF subscribe, SubscribeTo, Request, Throw, Proceed, Goto, At
  <2>2. UNCHANGED <<file, exists, torn, overwritten, dialogue, m_topicPrefix, m_isProvisioned,
                    registered, answer, promise, paho>>
    BY <1>5 DEF subscribe, SubscribeTo, Request, Throw, Proceed, Goto
  <2> QED
    BY <2>1, <2>2 DEF Dialogue, StageSteps, Elsewhere, Second
<1>6. CASE AwaitAccepted \/ AwaitRejected \/ AwaitSent \/ AwaitAnswer
  <2>1. UNCHANGED <<file, exists, torn, overwritten, dialogue, m_topicPrefix, m_isProvisioned,
                    registered, answer, promise, paho, handler>>
    BY <1>6 DEF AwaitAccepted, AwaitRejected, AwaitSent, AwaitAnswer, Get, Throw, Proceed, Goto
  <2>2. /\ worker.at \in {"awaitAccepted", "awaitRejected", "awaitSent", "awaitAnswer"}
        /\ \/ worker'.at = "cancel"
           \/ worker'.at \in StageSteps /\ worker'.n = worker.n
           \/ /\ worker.at = "awaitAnswer" /\ promise[worker.n]["answer"] \notin {"unset", "false"}
              /\ \/ worker.n = 1 /\ worker'.at = "subscribe"
                 \/ worker.n # 1 /\ worker'.at = "unsubscribe"
    BY <1>6
       DEF AwaitAccepted, AwaitRejected, AwaitSent, AwaitAnswer, Get, Throw, Proceed, Goto, At,
           StageSteps
  <2>3. worker.n \in Stages /\ promise[worker.n]["answer"] \in {"unset", "true", "false"}
    BY <2>2 DEF TypeOK, RunType, Promises, PlaceInv, StageSteps
  <2> QED
    BY <2>1, <2>2, <2>3 DEF Dialogue, StageSteps, Stages, Elsewhere, Second
<1>7. CASE publish
  <2>1. /\ worker.at = "publish" /\ worker'.at \in {"cancel", "awaitSent"}
        /\ worker'.at = "awaitSent" => worker'.n = worker.n
        /\ answer' = answer \/ answer' = [answer EXCEPT ![worker.n] = "asked"]
    BY <1>7 DEF publish, Request, Throw, Proceed, Goto, At
  <2>2. UNCHANGED <<file, exists, torn, overwritten, dialogue, m_topicPrefix, m_isProvisioned,
                    registered, promise, paho, handler>>
    BY <1>7 DEF publish, Request, Throw, Proceed, Goto
  <2>3. answer'[2] # "accepted" \/ answer'[2] = answer[2]
    BY <2>1 DEF TypeOK, MqttType, Answers, Stages
  <2>4. answer'[2] # "none" => worker.n = 2 \/ answer[2] # "none"
    BY <2>1 DEF TypeOK, MqttType, Answers, Stages
  <2> QED
    BY <2>1, <2>2, <2>3, <2>4 DEF Dialogue, StageSteps, Elsewhere, Second
<1>8. CASE unsubscribe \/ Cancel
  <2>1. /\ UNCHANGED <<file, exists, torn, overwritten, dialogue, m_topicPrefix, registered, answer,
                       promise, paho>>
        /\ UNCHANGED m_isProvisioned \/ unsubscribe
    BY <1>8 DEF unsubscribe, Cancel, Throw, Proceed, Goto
  <2>2. /\ worker.at \in {"unsubscribe", "cancel"}
        /\ worker'.at \in {"unsubscribe", "release", "cancel", "idle"}
        /\ worker'.at = "unsubscribe" => worker.at = "unsubscribe"
    BY <1>8 DEF unsubscribe, Cancel, Throw, Proceed, Goto, At
  <2> QED
    BY <2>1, <2>2 DEF Dialogue, StageSteps, Elsewhere, Second
<1>9. CASE Connected \/ OnConnect
  <2>1. paho.at \notin {"keys", "register"} /\ paho'.at \in {"idle", "onConnect"}
    BY <1>9, Beginnings DEF Connected, OnConnect, At
  <2> QED
    BY <1>9, <2>1 DEF Connected, OnConnect, Elsewhere, Second
<1>10. ASSUME NEW s \in Stages, NEW p \in Results \cup {"answer"}, NEW result \in {"true", "false"},
              NEW f, SetPromise(s, p, result, f), p # "answer" \/ result # "true"
       PROVE  \A s2 \in Stages : promise'[s2]["answer"] = "true" => promise[s2]["answer"] = "true"
  BY <1>10, Set DEF TypeOK
<1>11. ASSUME NEW s \in Stages, NEW p \in Results, NEW f \in 1..MaxDialogues, Result(s, p, f)
       PROVE  Elsewhere
  <2>1. \A s2 \in Stages : promise'[s2]["answer"] = "true" => promise[s2]["answer"] = "true"
    BY <1>10, <1>11 DEF Result, Results, Verdicts
  <2> QED
    BY <1>11, <2>1 DEF Result, Elsewhere, Second, Stages
<1>12. ASSUME NEW s \in Stages, NEW verdict \in Verdicts, Answer(s, verdict) PROVE Elsewhere
  <2>1. answer'[2] = answer[2] \/ (s = 2 /\ answer'[2] = verdict /\ answer[2] = "asked")
    BY <1>12 DEF Answer, TypeOK, MqttType, Answers, Stages
  <2>2. answer'[2] = "accepted" => answer[2] = "accepted" \/ dialogue \in registered'
    BY <1>12, <2>1 DEF Answer
  <2> QED
    BY <1>12, <2>1, <2>2 DEF Answer, Elsewhere, Second
<1>13. ASSUME NEW s \in Stages, Rejected(s) PROVE Elsewhere
  <2>1. \A s2 \in Stages : promise'[s2]["answer"] = "true" => promise[s2]["answer"] = "true"
    BY <1>10, <1>13 DEF Rejected
  <2>2. answer'[2] = answer[2] \/ answer'[2] = "none"
    BY <1>13 DEF Rejected, Delivered, TypeOK, MqttType, Answers, Stages
  <2> QED
    BY <1>13, <2>1, <2>2 DEF Rejected, Elsewhere, Second, Stages
<1>14. ASSUME NEW s \in Stages, Accepted(s) PROVE Elsewhere
  <2>1. answer'[2] = answer[2] \/ answer'[2] = "none"
    BY <1>14 DEF Accepted, Delivered, TypeOK, MqttType, Answers, Stages
  <2>2. /\ paho.at = "idle" /\ answer[s] = "accepted"
        /\ \/ s = 1 /\ paho' = [at |-> "keys", n |-> 1]
           \/ s = 2 /\ paho' = [at |-> "register", n |-> 1]
    BY <1>14, Beginnings DEF Accepted, Forwarded, At, Stages
  <2> QED
    BY <1>14, <2>1, <2>2 DEF Accepted, Elsewhere, Second
<1> QED
  BY <1>1, <1>2, <1>3, <1>4, <1>5, <1>6, <1>7, <1>8, <1>9, <1>11, <1>12, <1>13, <1>14
     DEF Next, Worker, PahoThread, Cloud

\* The files have different names.
LEMMA FileNames ==
  /\ \A i, j \in 1..3 : Certificates[i] = Certificates[j] => i = j
  /\ \A i \in 1..3 : Certificates[i] \in Files \ {"provision"}
  /\ \A f \in Files : f = "provision" \/ \E i \in 1..3 : f = Certificates[i]
BY DEF Certificates, Files

\* A new dialogue, and a new process, has no keys yet.
LEMMA BeginFirst ==
  ASSUME TypeOK, PlaceInv, HandlerInv, Crash \/ ConnectedInTime
  PROVE  /\ ~Second' /\ paho'.at \notin {"keys", "register"} /\ answer'[2] = "none"
         /\ promise'[2]["answer"] = "unset" /\ worker'.at # "unsubscribe"
         /\ UNCHANGED <<file, exists, overwritten, registered>>
<1> USE DEF disk, history, others, bounds
<1>1. /\ answer'[2] = "none"
      /\ promise'[1]["answer"] = "unset" /\ promise'[2]["answer"] = "unset"
      /\ UNCHANGED <<file, exists, overwritten, registered>>
  BY DEF Crash, ConnectedInTime, PlaceInv, NoAnswers, NoPromises, Stages
<1>2. paho'.at \notin {"keys", "register"}
  <2>1. CASE Crash
    BY <2>1, Beginnings DEF Crash
  <2>2. CASE ConnectedInTime
    <3>1. worker.at = "wait" /\ paho' = paho
      BY <2>2 DEF ConnectedInTime
    <3>2. \A t \in Topics : handler[t] = 0
      BY <3>1 DEF HandlerInv, Dialogue
    <3> QED
      BY <3>1, <3>2 DEF PlaceInv, Topics, Stages, Verdicts
  <2> QED
    BY <2>1, <2>2
<1>3. worker'.at = "idle" \/ (worker'.at = "subscribe" /\ worker'.n = 1)
  BY Beginnings DEF Crash, ConnectedInTime, At
<1> QED
  BY <1>1, <1>2, <1>3 DEF Second, StageSteps

\* Starting changes nothing but what the component knows.
LEMMA ActivateKnows ==
  ASSUME PlaceInv, activate
  PROVE  /\ UNCHANGED <<file, exists, torn, overwritten, dialogue, registered, paho, promise, answer,
                        worker, handler>>
         /\ worker.at = "idle" /\ paho.at = "idle" /\ \A t \in Topics : handler[t] = 0
         /\ promise[1]["answer"] = "unset" /\ promise[2]["answer"] = "unset" /\ answer[2] = "none"
         /\ m_isProvisioned' <=> exists = Files
         /\ m_topicPrefix' <=> exists = Files /\ file["provision"] # 0
<1>1. /\ worker = Idle /\ paho = Idle /\ handler = NoHandlers /\ promise = NoPromises
      /\ answer = NoAnswers
  BY DEF PlaceInv, activate
<1>2. /\ worker.at = "idle" /\ paho.at = "idle" /\ \A t \in Topics : handler[t] = 0
      /\ promise[1]["answer"] = "unset" /\ promise[2]["answer"] = "unset" /\ answer[2] = "none"
  BY <1>1, Beginnings DEF NoHandlers, NoPromises, NoAnswers, Stages
<1> QED
  BY <1>2 DEF activate, exploreProvisionFile, disk, run, history, others, bounds

\* Certificate files are complete before the second stage and stay so.
LEMMA KeysStep == TypeOK /\ PlaceInv /\ HandlerInv /\ KeysInv /\ [Next]_vars => KeysInv'
<1> SUFFICES ASSUME TypeOK, PlaceInv, HandlerInv, KeysInv, [Next]_vars PROVE KeysInv'
  OBVIOUS
<1>1. CASE activate
  BY <1>1, ActivateKnows DEF KeysInv, Second
<1>2. CASE Crash \/ ConnectedInTime
  BY <1>2, BeginFirst DEF KeysInv
<1>3. CASE SaveKeys
  <2>1. /\ paho.at = "keys" /\ paho.n \in 1..7
        /\ UNCHANGED <<worker, dialogue, answer>>
        /\ paho.n # 7 => paho' = [at |-> "keys", n |-> paho.n + 1] /\ promise' = promise
        /\ paho.n = 7 => paho' = Idle /\ UNCHANGED <<file, exists, overwritten>>
    BY <1>3 DEF SaveKeys, PlaceInv, run, At, disk
  <2>2. CASE paho.n \in 1..3
    <3>1. /\ exists' = exists \cup {Certificates[paho.n]}
          /\ \A f \in Files : file'[f] = IF f = Certificates[paho.n] THEN 0 ELSE file[f]
          /\ overwritten' = (overwritten \/ "provision" \in exists)
      BY <1>3, <2>2 DEF SaveKeys, Open, TypeOK, DiskType
    <3>2. /\ overwritten' \/ "provision" \notin exists'
          /\ paho'.at = "keys" /\ paho'.n = paho.n + 1 /\ (Second' => Second)
      <4>1. Certificates[paho.n] # "provision"
        BY <2>2, FileNames
      <4>2. overwritten' \/ "provision" \notin exists'
        BY <3>1, <4>1
      <4>3. paho' = [at |-> "keys", n |-> paho.n + 1] /\ promise' = promise
        BY <2>1, <2>2
      <4>4. paho'.at = "keys" /\ paho'.n = paho.n + 1
        BY <4>3
      <4>5. Second' => Second
        BY <2>1, <4>3, <4>4 DEF Second
      <4> QED
        BY <4>2, <4>4, <4>5
    <3>3. \A i \in 1..3 : paho'.n > i => Certificates[i] \in exists'
      BY <2>1, <2>2, <3>1, <3>2 DEF KeysInv
    <3>4. ASSUME Second, NEW i \in 1..3
          PROVE  /\ Certificates[i] \in exists'
                 /\ file'[Certificates[i]] = dialogue \/ paho'.n \in (i + 1)..(i + 3)
      <4>1. CASE i = paho.n
        BY <2>2, <3>1, <3>2, <4>1
      <4>2. CASE i # paho.n
        BY <2>1, <2>2, <3>1, <3>2, <3>4, <4>2, FileNames DEF KeysInv
      <4> QED
        BY <4>1, <4>2
    <3> QED
      BY <2>1, <2>2, <3>2, <3>3, <3>4 DEF KeysInv
  <2>3. CASE paho.n \in 4..6
    <3>1. /\ UNCHANGED <<exists, overwritten>>
          /\ \A f \in Files : file'[f] = IF f = Certificates[paho.n - 3] THEN dialogue ELSE file[f]
      BY <1>3, <2>3 DEF SaveKeys, Close, TypeOK, DiskType
    <3>2. paho'.at = "keys" /\ paho'.n = paho.n + 1 /\ (Second' => Second) /\ paho.n - 3 \in 1..3
      BY <2>1, <2>3 DEF Second
    <3>3. ASSUME NEW i \in 1..3, paho'.n > i + 3 PROVE file'[Certificates[i]] = dialogue
      BY <2>1, <2>3, <3>1, <3>2, <3>3, FileNames DEF KeysInv
    <3>4. ASSUME Second, NEW i \in 1..3
          PROVE  /\ Certificates[i] \in exists'
                 /\ file'[Certificates[i]] = dialogue \/ paho'.n \in (i + 1)..(i + 3)
      BY <2>1, <2>3, <3>1, <3>2, <3>4, FileNames DEF KeysInv
    <3>5. \A i \in 1..3 : Certificates[i] \in exists'
      BY <2>1, <2>3, <3>1 DEF KeysInv
    <3> QED
      BY <2>1, <2>3, <3>1, <3>2, <3>3, <3>4, <3>5 DEF KeysInv
  <2>4. CASE paho.n = 7
    <3>1. \A i \in 1..3 : Certificates[i] \in exists /\ file[Certificates[i]] = dialogue
      BY <2>1, <2>4 DEF KeysInv
    <3> QED
      BY <2>1, <2>4, <3>1, Beginnings DEF KeysInv
  <2> QED
    BY <2>1, <2>2, <2>3, <2>4
<1>4. CASE SaveProvision
  <2>1. /\ paho.at = "register" /\ paho'.at \in {"register", "idle"}
        /\ UNCHANGED <<dialogue, overwritten>> /\ exists \subseteq exists'
        /\ \A i \in 1..3 : file'[Certificates[i]] = file[Certificates[i]]
    <3>1. UNCHANGED disk \/ Open("provision") \/ Close("provision")
      BY <1>4 DEF SaveProvision
    <3>2. exists \subseteq exists' /\ \A i \in 1..3 : file'[Certificates[i]] = file[Certificates[i]]
      BY <3>1, FileNames DEF disk, Open, Close, TypeOK, DiskType
    <3> QED
      BY <1>4, <3>2, Beginnings DEF SaveProvision, run, At
  <2>2. Second
    BY <2>1 DEF Second
  <2> QED
    BY <2>1, <2>2 DEF KeysInv
<1>5. CASE Elsewhere
  <2>1. CASE paho' = paho
    BY <1>5, <2>1 DEF Elsewhere, KeysInv
  <2>2. CASE paho.at # "keys" /\ (paho'.at # "keys" \/ paho'.n = 1)
    BY <1>5, <2>2 DEF Elsewhere, KeysInv
  <2> QED
    BY <1>5, <2>1, <2>2 DEF Elsewhere
<1> QED
  BY <1>1, <1>2, <1>3, <1>4, <1>5, MostElsewhere

\* A provision file is written over complete certificate files of its generation.
LEMMA ProvisionStep ==
  TypeOK /\ PlaceInv /\ HandlerInv /\ KeysInv /\ ProvisionInv /\ [Next]_vars => ProvisionInv'
<1> SUFFICES ASSUME TypeOK, PlaceInv, HandlerInv, KeysInv, ProvisionInv, [Next]_vars
             PROVE  ProvisionInv'
  OBVIOUS
<1>1. CASE activate
  BY <1>1, ActivateKnows DEF ProvisionInv
<1>2. CASE Crash \/ ConnectedInTime
  <2>1. /\ ~Second' /\ paho'.at \notin {"keys", "register"} /\ answer'[2] = "none"
        /\ promise'[2]["answer"] = "unset" /\ worker'.at # "unsubscribe"
        /\ UNCHANGED <<file, exists, overwritten, registered>>
    BY <1>2, BeginFirst
  <2>2. CASE Crash
    <3>1. ~torn' => ~torn /\ \A f \in exists : file[f] # 0
      BY <2>2 DEF Crash
    <3> QED
      BY <2>1, <3>1 DEF ProvisionInv
  <2>3. CASE ConnectedInTime
    <3>1. torn' = torn /\ paho' = paho
      BY <2>3 DEF ConnectedInTime, history, others, bounds
    <3> QED
      BY <2>1, <3>1 DEF ProvisionInv
  <2> QED
    BY <1>2, <2>2, <2>3
<1>3. CASE SaveKeys
  <2>1. /\ paho.at = "keys" /\ paho.n \in 1..7 /\ paho'.at \in {"keys", "idle"}
        /\ UNCHANGED <<worker, dialogue, answer, registered, torn, m_topicPrefix>>
    BY <1>3, Beginnings DEF SaveKeys, PlaceInv, run, data, At
  <2>2. promise'[2]["answer"] = promise[2]["answer"]
    <3>1. CASE SetPromise(1, "answer", "true", handler[<<1, "accepted">>])
      BY <3>1, Set DEF TypeOK, Stages
    <3> QED
      BY <1>3, <3>1 DEF SaveKeys
  <2>3. exists \subseteq exists'
    BY <1>3 DEF SaveKeys, Open, Close, disk
  <2>4. CASE paho.n = 7
    <3>1. UNCHANGED <<file, exists, overwritten>>
      BY <1>3, <2>4 DEF SaveKeys, disk
    <3> QED
      BY <2>1, <2>2, <3>1 DEF ProvisionInv
  <2>5. CASE paho.n # 7
    <3>1. overwritten' \/ "provision" \notin exists'
      <4>1. CASE paho.n \in 1..3
        <5>1. /\ exists' = exists \cup {Certificates[paho.n]} /\ Certificates[paho.n] # "provision"
              /\ overwritten' = (overwritten \/ "provision" \in exists)
          BY <1>3, <4>1, FileNames DEF SaveKeys, Open
        <5> QED
          BY <5>1
      <4>2. CASE paho.n \in 4..6
        BY <1>3, <2>1, <4>2 DEF SaveKeys, Close, KeysInv
      <4> QED
        BY <2>1, <2>5, <4>1, <4>2
    <3> QED
      BY <2>1, <2>2, <2>3, <3>1 DEF ProvisionInv
  <2> QED
    BY <2>4, <2>5
<1>4. CASE SaveProvision
  <2>1. /\ paho.at = "register" /\ paho.n \in 1..3 /\ dialogue \in registered /\ dialogue # 0
        /\ UNCHANGED <<worker, dialogue, answer, registered, torn, overwritten>>
    BY <1>4 DEF SaveProvision, PlaceInv, ProvisionInv, TypeOK, DiskType, run
  <2>2. \A i \in 1..3 : Certificates[i] \in exists /\ file[Certificates[i]] = dialogue
    BY <2>1 DEF KeysInv, Second
  <2>3. CASE paho.n = 1
    <3>1. /\ exists' = exists \cup {"provision"} /\ file'["provision"] = 0
          /\ \A i \in 1..3 : file'[Certificates[i]] = dialogue
          /\ paho' = [at |-> "register", n |-> 2] /\ UNCHANGED <<promise, m_topicPrefix>>
      BY <1>4, <2>1, <2>2, <2>3, FileNames DEF SaveProvision, Open, At, TypeOK, DiskType, Files
    <3>2. exists' = Files
      <4>1. exists' \subseteq Files
        BY <3>1 DEF TypeOK, DiskType, Files
      <4>2. \A f \in Files : f \in exists'
        BY <2>2, <3>1, FileNames
      <4> QED
        BY <4>1, <4>2
    <3> QED
      BY <2>1, <3>1, <3>2 DEF ProvisionInv
  <2>4. CASE paho.n = 2
    <3>1. /\ exists' = exists /\ file'["provision"] = dialogue
          /\ \A i \in 1..3 : file'[Certificates[i]] = dialogue
          /\ paho' = [at |-> "register", n |-> 3] /\ UNCHANGED <<promise, m_topicPrefix>>
      BY <1>4, <2>1, <2>2, <2>4, FileNames DEF SaveProvision, Close, At, TypeOK, DiskType, Files
    <3>2. "provision" \in exists
      BY <2>1, <2>4 DEF ProvisionInv
    <3>3. exists' = Files
      BY <2>2, <3>1, <3>2, FileNames DEF TypeOK, DiskType
    <3> QED
      BY <2>1, <3>1, <3>2, <3>3 DEF ProvisionInv
  <2>5. CASE paho.n = 3
    <3>1. /\ UNCHANGED <<file, exists>> /\ paho' = Idle
          /\ m_topicPrefix' = (file["provision"] # 0)
      BY <1>4, <2>1, <2>5 DEF SaveProvision, disk, exploreProvisionFile
    <3>2. "provision" \in exists /\ file["provision"] # 0
      BY <2>1, <2>5 DEF ProvisionInv
    <3>3. m_topicPrefix'
      BY <3>1, <3>2
    <3> QED
      BY <2>1, <2>5, <3>1, <3>2, <3>3, Beginnings DEF ProvisionInv
  <2> QED
    BY <2>1, <2>3, <2>4, <2>5
<1>5. CASE Elsewhere
  <2>1. CASE paho' = paho
    BY <1>5, <2>1 DEF Elsewhere, ProvisionInv
  <2>2. CASE /\ paho.at # "register" /\ paho'.at = "register" => paho'.n = 1 /\ answer[2] = "accepted"
    BY <1>5, <2>2 DEF Elsewhere, ProvisionInv
  <2> QED
    BY <1>5, <2>1, <2>2 DEF Elsewhere
<1> QED
  BY <1>1, <1>2, <1>3, <1>4, <1>5, MostElsewhere

\* Who is told of success finds the files of one generation as long as no new
\* dialogue touches them.
LEMMA RenewStep ==
  TypeOK /\ PlaceInv /\ HandlerInv /\ HandlerInv' /\ KeysInv /\ ProvisionInv /\ RenewInv /\ [Next]_vars
    => RenewInv'
<1> SUFFICES ASSUME TypeOK, PlaceInv, HandlerInv, HandlerInv', KeysInv, ProvisionInv, RenewInv,
                    [Next]_vars
             PROVE  RenewInv'
  OBVIOUS
<1>0. ASSUME exists = Files, ~torn, ~overwritten, paho.at # "register"
      PROVE  \E g \in registered : \A f \in Files : file[f] = g
  BY <1>0, FileNames DEF ProvisionInv, Files
<1>1. CASE activate
  <2>1. ASSUME exists = Files, ~torn, ~overwritten
        PROVE  \E g \in registered : (\A f \in Files : file[f] = g) /\ g # 0
    BY <1>0, <1>1, <2>1, ActivateKnows DEF TypeOK, DiskType
  <2>2. ProvisionedInv'
    BY <1>1, <2>1, ActivateKnows DEF ProvisionedInv, Files
  <2> QED
    BY <1>1, <2>2, ActivateKnows DEF RenewInv, Dialogue
<1>2. CASE Crash \/ NotConnected
  <2>1. ~m_isProvisioned'
    BY <1>2 DEF Crash, NotConnected
  <2> QED
    BY <2>1 DEF RenewInv, ProvisionedInv
<1>3. CASE ConnectedInTime
  <2>1. ~Second'
    BY <1>3, BeginFirst
  <2>2. UNCHANGED <<m_isProvisioned, m_topicPrefix, torn, overwritten, exists, file, registered>>
    BY <1>3 DEF ConnectedInTime, data, disk, history, others, bounds
  <2> QED
    BY <2>1, <2>2 DEF RenewInv, ProvisionedInv
<1>4. CASE SaveKeys
  <2>1. /\ paho.at = "keys" /\ paho.n \in 1..7
        /\ UNCHANGED <<m_isProvisioned, torn>>
        /\ \/ overwritten' = (overwritten \/ "provision" \in exists)
           \/ paho.n > 1 /\ overwritten' = overwritten
    BY <1>4 DEF SaveKeys, PlaceInv, data
  <2>2. m_isProvisioned /\ ~torn /\ ~overwritten => "provision" \in exists
    BY DEF RenewInv, ProvisionedInv, Files
  <2>3. (overwritten => overwritten') /\ ("provision" \in exists => overwritten')
    <3>1. CASE overwritten' = (overwritten \/ "provision" \in exists)
      BY <3>1
    <3>2. CASE paho.n > 1 /\ overwritten' = overwritten
      BY <2>1, <3>2 DEF KeysInv
    <3> QED
      BY <2>1, <3>1, <3>2
  <2>4. m_isProvisioned' /\ ~torn' => overwritten'
    BY <2>1, <2>2, <2>3
  <2> QED
    BY <2>4 DEF RenewInv, ProvisionedInv
<1>5. CASE SaveProvision
  <2>1. /\ paho.at = "register" /\ handler[<<2, "accepted">>] # 0
        /\ UNCHANGED <<m_isProvisioned, torn, overwritten>>
    BY <1>5 DEF SaveProvision, PlaceInv
  <2>2. ~(m_isProvisioned /\ ~torn /\ ~overwritten)
    BY <2>1 DEF RenewInv, Second, Topics, Stages, Verdicts
  <2> QED
    BY <2>1, <2>2 DEF RenewInv, ProvisionedInv
<1>6. CASE Elsewhere /\ UNCHANGED m_isProvisioned
  BY <1>6 DEF Elsewhere, RenewInv, ProvisionedInv
<1>7. CASE Elsewhere /\ unsubscribe /\ m_isProvisioned' # m_isProvisioned
  <2>1. /\ worker.at = "unsubscribe" /\ paho.at # "register" /\ worker'.at = "release"
    BY <1>7 DEF unsubscribe, Throw, Proceed, Goto, At, MapFree
  <2>2. (exists = Files /\ m_topicPrefix) \/ torn \/ overwritten
    BY <2>1 DEF ProvisionInv
  <2>3. ProvisionedInv'
    BY <1>0, <1>7, <2>1, <2>2 DEF Elsewhere, ProvisionedInv
  <2>4. worker'.at \notin Dialogue /\ \A t \in Topics : handler'[t] = 0
    BY <2>1 DEF HandlerInv, Dialogue
  <2> QED
    BY <2>3, <2>4 DEF RenewInv
<1> QED
  BY <1>1, <1>2, <1>3, <1>4, <1>5, <1>6, <1>7, MostElsewhere DEF Elsewhere

-----------------------------------------------------------------------------

\* The invariant holds in every reachable state.
LEMMA Invariance == Spec => []IInv
<1>1. IInv /\ [Next]_vars => IInv'
  BY TypeStep, PlaceStep, HandlerStep, PendingStep, ConnectStep, KeysStep, ProvisionStep, RenewStep,
     Zenon
     DEF IInv
<1> QED
  BY InitIInv, <1>1, PTL DEF Spec

\* Who is told that provisioning was done finds the four files complete and of one
\* registered generation, whatever crashed when, but for a file that a crash tore and
\* keys that a later dialogue replaced.
THEOREM ProvisionedHolds == Spec => []ProvisionedInv
<1>1. IInv => ProvisionedInv
  BY DEF IInv, RenewInv
<1> QED
  BY Invariance, <1>1, PTL

\* No callback of a dialogue uses promises that are gone unless an exception ended a
\* run, and no onConnect the stack of a run that is over unless one gave up waiting for
\* its connection or a connection was lost.
THEOREM FramesAliveHolds == Spec => []FramesAlive
<1>1. IInv => FramesAlive
  <2>1. ASSUME IInv PROVE ~threw => ~dangling
    BY <2>1, Zenon DEF IInv, PendingInv
  <2>2. ASSUME IInv, ~timedOut, losses = 0 PROVE ~late
    BY <2>2, Zenon DEF IInv, ConnectInv
  <2>3. ASSUME IInv PROVE losses = 0 \/ losses > 0
    BY <2>3, AwsAssumption DEF IInv, TypeOK, HistoryType
  <2> QED
    BY <2>1, <2>2, <2>3 DEF FramesAlive, IInv, TypeOK, HistoryType
<1> QED
  BY Invariance, <1>1, PTL

\* A run of worker() that ends without an exception cleans up for the next one.
THEOREM CleanEndHolds == Spec => []CleanEnd
<1>1. ASSUME IInv, worker = Idle, ~threw
      PROVE  ~client /\ handler = NoHandlers /\ pending = {} /\ missed = {}
  <2>1. worker.at = "idle" /\ ~client
    BY <1>1, Beginnings DEF IInv, PendingInv
  <2>2. \A t \in Topics : handler[t] = 0
    BY <1>1, <2>1 DEF IInv, HandlerInv, Dialogue
  <2>3. handler = NoHandlers
    BY <1>1, <2>2 DEF IInv, TypeOK, MqttType, NoHandlers
  <2>4. pending = {} /\ missed = {}
    BY <1>1, <2>1, DueAt DEF IInv, Made
  <2> QED
    BY <2>1, <2>3, <2>4
<1>2. IInv => CleanEnd
  BY <1>1 DEF IInv, CleanEnd
<1> QED
  BY Invariance, <1>2, PTL

-----------------------------------------------------------------------------
(* What worker() waits for.                                                *)

\* The waits of worker() have no timeout.  Unless the connection was lost under the
\* dialogue, each is for something set already or on its way: the result is due, or
\* the service has yet to decide, or its answer will reach the message handler of this
\* run, or that handler is at work.  The one exception are results that came before
\* MqttService had filed who waits for them.  What is on its way can still be held up
\* for ever by an onConnect that waits for the mutex of worker().
AwaitedIsDue ==
  ~lossy =>
    /\ \A p \in Results :
         worker.at = WaitFor[p] =>
           \/ promise[worker.n][p] # "unset"
           \/ <<worker.n, p, frame>> \in pending \cup missed
    /\ worker.at = "awaitAnswer" =>
         \/ promise[worker.n]["answer"] # "unset"
         \/ answer[worker.n] = "asked"
         \/ \E verdict \in Verdicts :
              /\ answer[worker.n] = verdict
              /\ link = "up" /\ <<worker.n, verdict>> \in subscribed
              /\ handler[<<worker.n, verdict>>] = frame
         \/ paho.at = IF worker.n = 1 THEN "keys" ELSE "register"

\* Nothing is due to a run or was dropped, and no promise of it set, that it has not asked for.
AskedInv ==
  /\ \A q \in Made : q[3] <= frame
  /\ worker.at \in {"create", "connect", "wait"} => \A q \in Made : q[3] # frame
  /\ worker.at \in StageSteps => \A s \in Stages, p \in Results :
       worker.n < s \/ (worker.n = s /\ worker.at \in UnaskedAt(p)) =>
         promise[s][p] = "unset" /\ <<s, p, frame>> \notin Made

\* Without a loss the connection stays up from the first subscription on, what was
\* asked for is due until it comes or was dropped, a subscription that was confirmed is served, and
\* the request of the stage stands until its answer has reached the promise.
DueInv ==
  worker.at \in StageSteps /\ ~lossy =>
    /\ worker.at # "subscribe" \/ worker.n = 2 => link = "up"
    /\ \A p \in Results : worker.at \notin UnaskedAt(p) =>
         promise[worker.n][p] # "unset" \/ <<worker.n, p, frame>> \in Made
    /\ \A v \in Verdicts : worker.at \notin UnaskedAt(v) =>
         /\ handler[<<worker.n, v>>] = frame
         /\ promise[worker.n][v] = "true" => <<worker.n, v>> \in subscribed
    /\ worker.at = "awaitRejected" => promise[worker.n]["accepted"] # "unset"
    /\ worker.at \in {"publish", "awaitSent", "awaitAnswer"} =>
         \A v \in Verdicts : promise[worker.n][v] = "true"
    /\ worker.at \in {"awaitSent", "awaitAnswer"} =>
         \/ promise[worker.n]["answer"] # "unset"
         \/ answer[worker.n] # "none"
         \/ paho.at = IF worker.n = 1 THEN "keys" ELSE "register"

\* How the worker goes on from one wait to the next.
LEMMA AwaitSteps ==
  ASSUME AwaitAccepted \/ AwaitRejected \/ AwaitSent \/ AwaitAnswer
  PROVE  /\ UNCHANGED <<frame, lossy, promise, pending, missed, handler, subscribed, link, answer, paho>>
         /\ \/ worker'.at \notin StageSteps \cup {"create", "connect", "wait"}
            \/ /\ worker.at = "awaitAccepted" /\ promise[worker.n]["accepted"] # "unset"
               /\ worker' = At("awaitRejected", worker.n)
            \/ /\ worker.at = "awaitRejected" /\ promise[worker.n]["rejected"] # "unset"
               /\ \A v \in Verdicts : promise[worker.n][v] # "false"
               /\ worker' = At("publish", worker.n)
            \/ worker.at = "awaitSent" /\ worker' = At("awaitAnswer", worker.n)
            \/ worker.at = "awaitAnswer" /\ worker.n = 1 /\ worker' = At("subscribe", 2)
BY DEF AwaitAccepted, AwaitRejected, AwaitSent, AwaitAnswer, Get, Throw, Proceed, Goto, At,
       StageSteps, history, others, bounds, mqtt

\* What subscribe and publish ask for.
LEMMA AskSteps ==
  ASSUME PlaceInv, subscribe \/ publish
  PROVE  /\ UNCHANGED <<frame, lossy, promise, link, paho>> /\ subscribed \subseteq subscribed'
         /\ \/ worker'.at \notin StageSteps \cup {"create", "connect", "wait"} /\ Made' = Made
            \/ /\ worker.at = "publish" /\ worker'.at = "awaitSent" /\ link # "up" /\ Made' = Made
               /\ worker.n \in Stages /\ worker'.n = worker.n /\ UNCHANGED <<handler, answer>>
            \/ /\ link = "up" /\ worker.n \in Stages /\ worker'.n = worker.n
               /\ \E p \in Results :
                    /\ Made' = Made \cup {<<worker.n, p, frame>>}
                    /\ \/ /\ p = "accepted" /\ worker.at = "subscribe" /\ answer' = answer
                          /\ worker'.at = "subscribeOther"
                          /\ handler' = [handler EXCEPT ![<<worker.n, p>>] = frame]
                       \/ /\ p = "rejected" /\ worker.at = "subscribeOther" /\ answer' = answer
                          /\ worker'.at = "awaitAccepted"
                          /\ handler' = [handler EXCEPT ![<<worker.n, p>>] = frame]
                       \/ /\ p = "sent" /\ worker.at = "publish" /\ handler' = handler
                          /\ worker'.at = "awaitSent"
                          /\ answer' = [answer EXCEPT ![worker.n] = "asked"]
<1> USE DEF others, bounds, Results, Verdicts
<1>1. ASSUME NEW p, Request(p)
      PROVE  Made' = Made \cup {<<worker.n, p, frame>>} /\ subscribed \subseteq subscribed'
  BY <1>1 DEF Request, Granted, Made
<1>2. ASSUME UNCHANGED <<pending, missed>> PROVE Made' = Made
  BY <1>2 DEF Made
<1>3. CASE SubscribeTo("accepted", "subscribe", "subscribeOther")
  BY <1>1, <1>2, <1>3 DEF SubscribeTo, Throw, Proceed, Goto, At, StageSteps, PlaceInv
<1>4. CASE SubscribeTo("rejected", "subscribeOther", "awaitAccepted")
  BY <1>1, <1>2, <1>4 DEF SubscribeTo, Throw, Proceed, Goto, At, StageSteps, PlaceInv
<1>5. CASE publish
  BY <1>1, <1>2, <1>5 DEF publish, Goto, At, StageSteps, PlaceInv
<1> QED
  BY <1>3, <1>4, <1>5 DEF subscribe

\* What a due result does: it is due no longer, and it sets its promise unless it
\* comes too late for it.
ResultComes(s, p, f) ==
  /\ UNCHANGED <<worker, frame, handler, link, answer, paho, lossy, missed>>
  /\ <<s, p, f>> \in pending /\ pending' = pending \ {<<s, p, f>>}
  /\ subscribed \subseteq subscribed'
  /\ \A s2 \in Stages, p2 \in Results \cup {"answer"} :
       \/ promise'[s2][p2] = promise[s2][p2]
       \/ /\ s2 = s /\ p2 = p /\ f = frame /\ promise'[s2][p2] # "unset"
          /\ p # "sent" /\ promise'[s2][p2] = "true" => <<s, p>> \in subscribed'
          /\ promise[s2][p2] = "unset"
  /\ f = frame /\ worker.at \in Trying => promise'[s][p] # "unset"

LEMMA ResultStep ==
  ASSUME TypeOK, NEW s \in Stages, NEW p \in Results, NEW f \in 1..MaxDialogues, Result(s, p, f)
  PROVE  ResultComes(s, p, f)
<1> USE DEF ResultComes
<1>1. /\ UNCHANGED <<worker, frame, handler, link, answer, paho, lossy, missed>>
      /\ <<s, p, f>> \in pending /\ pending' = pending \ {<<s, p, f>>}
      /\ subscribed \subseteq subscribed'
  BY DEF Result, Granted, run
<1>2. PICK result \in {"true", "false"} :
        /\ SetPromise(s, p, result, f)
        /\ (p # "sent" /\ result = "true" => <<s, p>> \in subscribed')
  BY DEF Result, Granted
<1>3. CASE promise' = promise
  BY <1>1, <1>2, <1>3, Set DEF TypeOK
<1>4. CASE promise' # promise
  <2>1. f = frame /\ promise[s][p] = "unset" /\ worker.at \in Trying
    BY <1>2, <1>4 DEF SetPromise
  <2>2. /\ promise'[s][p] # "unset"
        /\ \A s2 \in Stages, p2 \in Results \cup {"answer"} :
             \/ promise'[s2][p2] = promise[s2][p2]
             \/ s2 = s /\ p2 = p /\ promise'[s2][p2] = result
    BY <1>2, <2>1, Set DEF TypeOK
  <2> QED
    BY <1>1, <1>2, <2>1, <2>2
<1> QED
  BY <1>3, <1>4

\* What the other callbacks of the dialogue do: an answer stays the one to come until
\* its message handler works on it, and its promise is set when that is done.
AnswerGoesOn ==
  /\ UNCHANGED <<worker, frame, handler, subscribed, pending, missed, link, lossy>>
  /\ \A s \in Stages, p \in Results : promise'[s][p] = promise[s][p]
  /\ \A s \in Stages : promise[s]["answer"] # "unset" => promise'[s]["answer"] # "unset"
  /\ worker.at \in Trying => \A s \in Stages :
       LET at == IF s = 1 THEN "keys" ELSE "register"
       IN  \/ promise'[s]["answer"] # "unset"
           \/ answer'[s] = answer[s] /\ (paho.at = at => paho'.at = at)
           \/ paho'.at = at

LEMMA AnswerStep ==
  ASSUME TypeOK, PlaceInv, HandlerInv,
         SaveKeys \/ SaveProvision \/ \E s \in Stages : Accepted(s) \/ Rejected(s)
  PROVE  AnswerGoesOn
<1> USE DEF AnswerGoesOn
<1> USE DEF history, others, bounds, mqtt, run
<1>0. ASSUME NEW s \in Stages, NEW v \in Verdicts, handler[<<s, v>>] # 0, worker.at \in Trying
      PROVE  handler[<<s, v>>] = frame
  BY <1>0 DEF HandlerInv, PlaceInv, Topics, Trying
<1>1. ASSUME NEW s \in Stages, NEW result \in {"true", "false"}, NEW f,
             SetPromise(s, "answer", result, f)
      PROVE  /\ \A s2 \in Stages, p2 \in Results : promise'[s2][p2] = promise[s2][p2]
             /\ \A s2 \in Stages :
                  promise[s2]["answer"] # "unset" => promise'[s2]["answer"] # "unset"
             /\ f = frame /\ worker.at \in Trying => promise'[s]["answer"] # "unset"
  BY <1>1, Set DEF TypeOK, Results, Verdicts
<1>2. CASE SaveKeys
  <2>1. UNCHANGED <<worker, frame, handler, subscribed, pending, missed, link, lossy, answer>>
    BY <1>2 DEF SaveKeys
  <2>2. CASE paho.n # 7
    BY <1>2, <2>1, <2>2 DEF SaveKeys, At
  <2>3. CASE paho.n = 7
    <3>1. paho.at = "keys" /\ SetPromise(1, "answer", "true", handler[<<1, "accepted">>])
          /\ handler[<<1, "accepted">>] # 0 /\ 1 \in Stages /\ "accepted" \in Verdicts
      BY <1>2, <2>3 DEF SaveKeys, PlaceInv, Stages, Verdicts
    <3> QED
      BY <1>0, <1>1, <2>1, <3>1 DEF Stages
  <2> QED
    BY <2>2, <2>3
<1>3. CASE SaveProvision
  <2>1. UNCHANGED <<worker, frame, handler, subscribed, pending, missed, link, lossy, answer>>
    BY <1>3 DEF SaveProvision
  <2>2. CASE paho.n # 3
    BY <1>3, <2>1, <2>2 DEF SaveProvision, At
  <2>3. CASE paho.n = 3
    <3>1. paho.at = "register" /\ SetPromise(2, "answer", "true", handler[<<2, "accepted">>])
          /\ handler[<<2, "accepted">>] # 0 /\ 2 \in Stages /\ "accepted" \in Verdicts
      BY <1>3, <2>3 DEF SaveProvision, PlaceInv, Stages, Verdicts
    <3> QED
      BY <1>0, <1>1, <2>1, <3>1 DEF Stages
  <2> QED
    BY <2>2, <2>3
<1>4. ASSUME NEW s \in Stages, Delivered(s) PROVE \A s2 \in Stages \ {s} : answer'[s2] = answer[s2]
  BY <1>4 DEF Delivered, TypeOK, MqttType, Answers
<1>5. ASSUME NEW s \in Stages, Rejected(s) PROVE AnswerGoesOn
  <2>1. /\ UNCHANGED <<worker, frame, handler, subscribed, pending, missed, link, lossy, paho>>
        /\ SetPromise(s, "answer", "false", handler[<<s, "rejected">>])
        /\ handler[<<s, "rejected">>] # 0 /\ "rejected" \in Verdicts
    BY <1>5 DEF Rejected, Forwarded, Verdicts
  <2>2. \A s2 \in Stages \ {s} : answer'[s2] = answer[s2]
    BY <1>4, <1>5 DEF Rejected
  <2> QED
    BY <1>0, <1>1, <2>1, <2>2
<1>6. ASSUME NEW s \in Stages, Accepted(s) PROVE AnswerGoesOn
  <2>1. /\ UNCHANGED <<worker, frame, handler, subscribed, pending, missed, link, lossy, promise>>
        /\ paho.at = "idle" /\ paho'.at = IF s = 1 THEN "keys" ELSE "register"
    BY <1>6, Beginnings DEF Accepted, Forwarded, At
  <2>2. \A s2 \in Stages \ {s} : answer'[s2] = answer[s2]
    BY <1>4, <1>6 DEF Accepted
  <2> QED
    BY <2>1, <2>2
<1> QED
  BY <1>2, <1>3, <1>5, <1>6

\* The other steps of a run neither ask nor answer.
LEMMA CalmSteps ==
  ASSUME TypeOK, [Next]_vars,
         ~(AwaitAccepted \/ AwaitRejected \/ AwaitSent \/ AwaitAnswer \/ subscribe \/ publish),
         ~(launchProvisioning \/ connect \/ create \/ ConnectedInTime \/ SaveKeys \/ SaveProvision),
         \A s \in Stages : ~(Accepted(s) \/ Rejected(s)),
         \A s \in Stages, p \in Results, f \in 1..MaxDialogues : ~Result(s, p, f)
  PROVE  \/ Made' \subseteq Made /\ frame' = frame
            /\ worker'.at \notin StageSteps \cup {"create", "connect", "wait"}
         \/ /\ UNCHANGED <<worker, frame, promise, handler>> /\ Made' \subseteq Made
            /\ \/ worker.at \in Dialogue => lossy'
               \/ /\ UNCHANGED <<Made, subscribed, lossy>>
                  /\ link' = link \/ link # "up"
                  /\ \A s \in Stages : answer[s] # "none" => answer'[s] # "none"
                  /\ paho' = paho \/ paho.at \notin {"keys", "register"}
<1> USE DEF history, others, bounds, mqtt, run, Made
<1>1. CASE activate \/ Join \/ Connected \/ OnConnect \/ Reconnect \/ UNCHANGED vars
  BY <1>1, Beginnings DEF activate, Join, Connected, OnConnect, Reconnect, vars
<1>2. CASE deactivate \/ ConnectionLost
  BY <1>2 DEF deactivate, ConnectionLost, LoseLink
<1>3. CASE Crash \/ NotConnected \/ Release
  BY <1>3, Beginnings DEF Crash, NotConnected, Release, Goto, At, StageSteps
<1>4. CASE unsubscribe \/ Cancel
  BY <1>4, Beginnings DEF unsubscribe, Cancel, Throw, Proceed, Goto, At, StageSteps
<1>5. ASSUME NEW s \in Stages, NEW verdict \in Verdicts, Answer(s, verdict)
      PROVE  /\ UNCHANGED <<worker, frame, promise, handler, pending, missed, subscribed, lossy, link, paho>>
             /\ \A s2 \in Stages : answer[s2] # "none" => answer'[s2] # "none"
  BY <1>5 DEF Answer, TypeOK, MqttType, Answers, Verdicts
<1> QED
  BY <1>1, <1>2, <1>3, <1>4, <1>5 DEF Next, Worker, PahoThread, Cloud

\* A run asks for a thing once, and what is due to earlier runs is not its own.
LEMMA AskedStep == TypeOK /\ PlaceInv /\ HandlerInv /\ AskedInv /\ [Next]_vars => AskedInv'
<1> SUFFICES ASSUME TypeOK, PlaceInv, HandlerInv, AskedInv, [Next]_vars PROVE AskedInv'
  OBVIOUS
<1>0. /\ frame \in Nat
      /\ \A q \in Made : q[1] \in Stages /\ q[2] \in Results /\ q[3] \in Nat
      /\ worker.at \in StageSteps => worker.n \in Stages
  BY AwsAssumption DEF TypeOK, RunType, MqttType, HistoryType, Made, Requests, PlaceInv
<1>1. ASSUME UNCHANGED <<worker, frame, promise>>, Made' \subseteq Made PROVE AskedInv'
  BY <1>1 DEF AskedInv
<1>2. ASSUME frame' = frame, Made' \subseteq Made,
             worker'.at \notin StageSteps \cup {"create", "connect", "wait"}
      PROVE  AskedInv'
  BY <1>2 DEF AskedInv
<1>3. CASE launchProvisioning
  <2>1. frame' = frame + 1 /\ worker'.at = "create" /\ Made' = Made
    BY <1>3 DEF launchProvisioning, At, Made, history
  <2>2. \A q \in Made : q[3] <= frame' /\ q[3] # frame'
    BY <1>0, <2>1 DEF AskedInv
  <2> QED
    BY <2>1, <2>2 DEF AskedInv, StageSteps
<1>4. CASE connect \/ create
  BY <1>2, <1>4 DEF connect, create, Throw, Proceed, Goto, At, StageSteps, AskedInv, Made, history
<1>5. CASE ConnectedInTime
  <2>1. /\ worker.at = "wait" /\ UNCHANGED <<Made, frame>> /\ worker'.at = "subscribe"
        /\ promise' = NoPromises
    BY <1>5 DEF ConnectedInTime, At, PlaceInv, mqtt, Made, history
  <2>2. \A s \in Stages, p \in Results : promise'[s][p] = "unset" /\ <<s, p, frame>> \notin Made
    BY <2>1 DEF AskedInv, NoPromises
  <2> QED
    BY <2>1, <2>2 DEF AskedInv
<1>6. CASE AwaitAccepted \/ AwaitRejected \/ AwaitSent \/ AwaitAnswer
  BY <1>0, <1>2, <1>6, AwaitSteps DEF AskedInv, Made, At, StageSteps, UnaskedAt, Results, Verdicts,
                                      Stages
<1>7. CASE subscribe \/ publish
  <2>1. CASE worker'.at \notin StageSteps \cup {"create", "connect", "wait"} /\ Made' = Made
    BY <1>2, <1>7, <2>1, AskSteps
  <2>2. CASE worker.at = "publish" /\ worker'.at = "awaitSent" /\ Made' = Made
    <3>1. UNCHANGED <<frame, promise>> /\ worker'.n = worker.n
      BY <1>7, <2>2, AskSteps DEF StageSteps
    <3> QED
      BY <2>2, <3>1 DEF AskedInv, UnaskedAt, StageSteps
  <2>3. ASSUME NEW p \in Results, Made' = Made \cup {<<worker.n, p, frame>>}, worker.n \in Stages,
               worker'.n = worker.n,
               \/ p = "accepted" /\ worker.at = "subscribe" /\ worker'.at = "subscribeOther"
               \/ p = "rejected" /\ worker.at = "subscribeOther" /\ worker'.at = "awaitAccepted"
               \/ p = "sent" /\ worker.at = "publish" /\ worker'.at = "awaitSent"
        PROVE  AskedInv'
    <3>1. UNCHANGED <<frame, promise>>
      BY <1>7, AskSteps
    <3> QED
      BY <1>0, <2>3, <3>1 DEF AskedInv, UnaskedAt, StageSteps, Stages
  <2> QED
    BY <1>7, <2>1, <2>2, <2>3, AskSteps
<1>8. ASSUME NEW s \in Stages, NEW p \in Results, NEW f \in 1..MaxDialogues, Result(s, p, f)
      PROVE  AskedInv'
  <2>1. /\ UNCHANGED <<worker, frame>> /\ <<s, p, f>> \in Made /\ Made' \subseteq Made
        /\ \A s2 \in Stages, p2 \in Results :
             promise'[s2][p2] = promise[s2][p2] \/ (s2 = s /\ p2 = p /\ f = frame)
    <3>1. ResultComes(s, p, f)
      BY ONLY TypeOK, <1>8, ResultStep
    <3> QED
      BY <3>1 DEF ResultComes, Made
  <2>2. ASSUME worker.at \in StageSteps, NEW s2 \in Stages, NEW p2 \in Results,
               worker.n < s2 \/ (worker.n = s2 /\ worker.at \in UnaskedAt(p2))
        PROVE  promise'[s2][p2] = "unset" /\ <<s2, p2, frame>> \notin Made'
    <3>1. promise[s2][p2] = "unset" /\ <<s2, p2, frame>> \notin Made
      BY <2>2 DEF AskedInv
    <3> QED
      BY <2>1, <3>1
  <2>3. \A q \in Made' : q[3] <= frame /\ (worker.at \in {"create", "connect", "wait"} => q[3] # frame)
    BY <2>1 DEF AskedInv
  <2> QED
    BY <2>1, <2>2, <2>3 DEF AskedInv
<1>9. CASE SaveKeys \/ SaveProvision \/ \E s \in Stages : Accepted(s) \/ Rejected(s)
  BY <1>9, AnswerStep DEF AnswerGoesOn, AskedInv, Made
<1> QED
  BY <1>1, <1>2, <1>3, <1>4, <1>5, <1>6, <1>7, <1>8, <1>9, CalmSteps

\* Without a loss of the connection nothing that was asked for is lost.
LEMMA DueStep ==
  TypeOK /\ PlaceInv /\ HandlerInv /\ AskedInv /\ DueInv /\ [Next]_vars => DueInv'
<1> SUFFICES ASSUME TypeOK, PlaceInv, HandlerInv, AskedInv, DueInv, [Next]_vars PROVE DueInv'
  OBVIOUS
<1>0. /\ worker.at \in StageSteps => worker.n \in Stages /\ worker.at \in Trying
      /\ handler \in [Topics -> 0..MaxDialogues] /\ answer \in Answers
      /\ \A s \in Stages, p \in Results : promise[s][p] \in {"unset", "true", "false"}
  BY DEF TypeOK, RunType, MqttType, PlaceInv, StageSteps, Trying, Dialogue, Promises
<1>1. CASE worker'.at \notin StageSteps
  BY <1>1 DEF DueInv
<1>2. CASE create \/ connect \/ launchProvisioning
  BY <1>1, <1>2 DEF create, connect, launchProvisioning, Throw, Proceed, Goto, At, StageSteps
<1>3. CASE ConnectedInTime
  BY <1>3 DEF ConnectedInTime, At, DueInv, UnaskedAt, Results, Verdicts
<1>4. CASE AwaitAccepted \/ AwaitRejected \/ AwaitSent \/ AwaitAnswer
  <2>1. CASE worker.at = "awaitAccepted" /\ worker' = At("awaitRejected", worker.n)
    BY <1>0, <1>4, <2>1, AwaitSteps DEF DueInv, Made, At, StageSteps, UnaskedAt, Results, Verdicts
  <2>2. CASE worker.at = "awaitRejected" /\ worker' = At("publish", worker.n)
    <3>1. \A v \in Verdicts : promise[worker.n][v] = "true" \/ lossy
      BY <1>0, <1>4, <2>2, AwaitSteps DEF DueInv, Made, At, StageSteps, Results, Verdicts
    <3> QED
      BY <1>0, <1>4, <2>2, <3>1, AwaitSteps DEF DueInv, Made, At, StageSteps, UnaskedAt, Results,
                                                Verdicts
  <2>3. CASE worker.at = "awaitSent" /\ worker' = At("awaitAnswer", worker.n)
    BY <1>0, <1>4, <2>3, AwaitSteps DEF DueInv, Made, At, StageSteps, UnaskedAt, Results, Verdicts
  <2>4. CASE worker.at = "awaitAnswer" /\ worker' = At("subscribe", 2)
    BY <1>0, <1>4, <2>4, AwaitSteps DEF DueInv, Made, At, StageSteps, UnaskedAt, Results, Verdicts
  <2> QED
    BY <1>1, <1>4, <2>1, <2>2, <2>3, <2>4, AwaitSteps
<1>5. CASE subscribe
  <2> SUFFICES ASSUME worker'.at \in StageSteps, ~lossy' PROVE DueInv'
    BY DEF DueInv
  <2>1. PICK v \in Verdicts :
          /\ UNCHANGED <<frame, lossy, promise, link, paho>> /\ link = "up"
          /\ subscribed \subseteq subscribed' /\ Made' = Made \cup {<<worker.n, v, frame>>}
          /\ handler' = [handler EXCEPT ![<<worker.n, v>>] = frame]
          /\ worker'.n = worker.n /\ worker.n \in Stages
          /\ \/ v = "accepted" /\ worker.at = "subscribe" /\ worker'.at = "subscribeOther"
             \/ v = "rejected" /\ worker.at = "subscribeOther" /\ worker'.at = "awaitAccepted"
    <3>1. worker.at \in {"subscribe", "subscribeOther"}
      BY <1>5 DEF subscribe, SubscribeTo
    <3> QED
      BY <1>5, <3>1, AskSteps DEF Results, Verdicts
  <2>2. promise[worker.n][v] = "unset"
    BY <2>1 DEF AskedInv, UnaskedAt, StageSteps, Results, Verdicts
  <2>3. \A u \in Verdicts : handler'[<<worker.n, u>>] = IF u = v THEN frame ELSE handler[<<worker.n, u>>]
    BY <1>0, <2>1 DEF Topics
  <2> QED
    BY <2>1, <2>2, <2>3 DEF DueInv, UnaskedAt, StageSteps, Results, Verdicts
<1>6. CASE publish
  <2> SUFFICES ASSUME worker'.at \in StageSteps, ~lossy' PROVE DueInv'
    BY DEF DueInv
  <2>1. /\ UNCHANGED <<frame, lossy, promise, link, paho, handler>> /\ link = "up"
        /\ subscribed \subseteq subscribed' /\ Made' = Made \cup {<<worker.n, "sent", frame>>}
        /\ worker'.n = worker.n /\ worker.n \in Stages
        /\ worker.at = "publish" /\ worker'.at = "awaitSent"
        /\ answer'[worker.n] = "asked"
    <3>1. worker.at = "publish" /\ (~lossy => link = "up") /\ lossy' = lossy
      BY <1>6 DEF publish, DueInv, StageSteps, others
    <3> QED
      BY <1>0, <1>6, <3>1, AskSteps DEF Answers
  <2> QED
    BY <2>1 DEF DueInv, UnaskedAt, StageSteps, Results, Verdicts
<1>7. ASSUME NEW s \in Stages, NEW p \in Results, NEW f \in 1..MaxDialogues, Result(s, p, f)
      PROVE  DueInv'
  <2> SUFFICES ASSUME worker'.at \in StageSteps, ~lossy' PROVE DueInv'
    BY DEF DueInv
  <2>0. ResultComes(s, p, f)
    BY ONLY TypeOK, <1>7, ResultStep
  <2>1. /\ UNCHANGED <<worker, frame, handler, link, answer, paho, lossy>>
        /\ Made \subseteq Made' \cup {<<s, p, f>>} /\ subscribed \subseteq subscribed'
        /\ \A s2 \in Stages, p2 \in Results \cup {"answer"} :
             \/ promise'[s2][p2] = promise[s2][p2]
             \/ /\ promise[s2][p2] = "unset" /\ promise'[s2][p2] # "unset"
                /\ (p2 \in Verdicts /\ promise'[s2][p2] = "true" => <<s2, p2>> \in subscribed')
    <3>1. "sent" \notin Verdicts
      BY DEF Verdicts
    <3> QED
      BY <2>0, <3>1 DEF ResultComes, Made
  <2>2. worker.n \in Stages /\ worker.at \in Trying /\ DueInv
    BY <1>0, <2>1
  <2>3. \A p2 \in Results : worker.at \notin UnaskedAt(p2) =>
          promise'[worker.n][p2] # "unset" \/ <<worker.n, p2, frame>> \in Made'
    <3> SUFFICES ASSUME NEW p2 \in Results, worker.at \notin UnaskedAt(p2),
                        promise'[worker.n][p2] = "unset"
                 PROVE  <<worker.n, p2, frame>> \in Made'
      OBVIOUS
    <3>1. promise[worker.n][p2] = "unset"
      BY <2>1, <2>2
    <3>2. <<worker.n, p2, frame>> \in Made
      BY <2>1, <2>2, <3>1 DEF DueInv
    <3>3. f = frame => promise'[s][p] # "unset"
      BY <2>0, <2>2 DEF ResultComes
    <3> QED
      BY <2>1, <3>2, <3>3
  <2>4. "answer" \notin Verdicts /\ Verdicts \subseteq Results
    BY DEF Verdicts, Results
  <2>5. /\ \A v \in Verdicts : promise[worker.n][v] = "true" => promise'[worker.n][v] = "true"
        /\ \A p2 \in Results \cup {"answer"} :
             promise[worker.n][p2] # "unset" => promise'[worker.n][p2] # "unset"
        /\ \A v \in Verdicts : promise'[worker.n][v] = "true" =>
             promise[worker.n][v] = "true" \/ <<worker.n, v>> \in subscribed'
    BY <2>1, <2>2, <2>4
  <2> QED
    BY <2>1, <2>2, <2>3, <2>4, <2>5 DEF DueInv, Results, Verdicts
<1>8. CASE SaveKeys \/ SaveProvision \/ \E s \in Stages : Accepted(s) \/ Rejected(s)
  BY <1>0, <1>8, AnswerStep DEF AnswerGoesOn, DueInv, Made, Results, Verdicts
<1>9. CASE /\ UNCHANGED <<worker, frame, promise, handler, Made, subscribed, lossy>>
           /\ link' = link \/ link # "up"
           /\ \A s \in Stages : answer[s] # "none" => answer'[s] # "none"
           /\ paho' = paho \/ paho.at \notin {"keys", "register"}
  BY <1>0, <1>9 DEF DueInv
<1>10. CASE UNCHANGED worker /\ (worker.at \in Dialogue => lossy')
  BY <1>0, <1>10 DEF DueInv, Trying
<1> QED
  BY <1>0, <1>1, <1>2, <1>3, <1>4, <1>5, <1>6, <1>7, <1>8, <1>9, <1>10, CalmSteps

\* As long as the connection holds, worker() waits for nothing that cannot come, but
\* for a result that came before MqttService had filed who waits for it.
THEOREM AwaitedIsDueHolds == Spec => []AwaitedIsDue
<1>1. Init => AskedInv /\ DueInv
  <2>1. Init => worker.at = "idle" /\ Made = {}
    BY Beginnings DEF Init, Made
  <2> QED
    BY <2>1 DEF AskedInv, DueInv, StageSteps
<1>2. ASSUME IInv, DueInv PROVE AwaitedIsDue
  <2>1. \A s \in Stages : answer[s] \in {"none", "asked"} \cup Verdicts
    BY <1>2 DEF IInv, TypeOK, MqttType, Answers
  <2>2. worker.at \in StageSteps => worker.n \in Stages
    BY <1>2 DEF IInv, PlaceInv
  <2>3. ASSUME ~lossy, NEW p \in Results, worker.at = WaitFor[p]
        PROVE  promise[worker.n][p] # "unset" \/ <<worker.n, p, frame>> \in pending \cup missed
    <3>1. worker.at \in StageSteps /\ worker.at \notin UnaskedAt(p)
      BY <2>3 DEF WaitFor, StageSteps, UnaskedAt, Results, Verdicts
    <3> QED
      BY <1>2, <2>3, <3>1 DEF DueInv, Made
  <2>4. ASSUME ~lossy, worker.at = "awaitAnswer"
        PROVE  \/ promise[worker.n]["answer"] # "unset"
               \/ answer[worker.n] = "asked"
               \/ \E verdict \in Verdicts :
                    /\ answer[worker.n] = verdict
                    /\ link = "up" /\ <<worker.n, verdict>> \in subscribed
                    /\ handler[<<worker.n, verdict>>] = frame
               \/ paho.at = IF worker.n = 1 THEN "keys" ELSE "register"
    BY <1>2, <2>1, <2>2, <2>4 DEF DueInv, StageSteps, UnaskedAt, Verdicts
  <2> QED
    BY <2>3, <2>4 DEF AwaitedIsDue
<1>3. IInv => TypeOK /\ PlaceInv /\ HandlerInv
  BY DEF IInv
<1> QED
  BY <1>1, <1>2, <1>3, AskedStep, DueStep, Invariance, PTL DEF Spec
=============================================================================
