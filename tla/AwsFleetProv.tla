----------------------------- MODULE AwsFleetProv -----------------------------
(***************************************************************************)
(* src/AwsFleetProv/AwsFleetProv.cpp: worker() connects with bootstrap     *)
(* certificates and makeProvisioning() holds a dialogue in two stages,     *)
(* keys (1) and register (2), each of two subscriptions, a publish and an  *)
(* answer; it waits on promises that live on its stack and that callbacks  *)
(* set on the thread of the MQTT client.  Those callbacks also write the   *)
(* official files, whose presence activate() takes for finished            *)
(* provisioning at the next start.  A crash may come at any point.         *)
(*                                                                         *)
(* Outside are MqttService, reduced to its client, its connection and the  *)
(* message handlers it keeps, and the provisioning service: it answers a   *)
(* request with accepted, any number of times (QoS 1), or rejected.  The   *)
(* keys of the n-th dialogue are generation n.  A message handler that     *)
(* throws, at an answer it cannot parse or a file it cannot open, is caught *)
(* by nobody on the client's thread: that ends the process, a crash there. *)
(***************************************************************************)
EXTENDS Naturals, FiniteSets

CONSTANTS
  MaxDialogues,  \* bound: runs of worker()
  MaxCrashes,    \* bound: crashes
  MaxLosses,     \* bound: losses of the connection
  MaxDuplicates  \* bound: answers the broker delivers again

ASSUME AwsAssumption == {MaxDialogues, MaxCrashes, MaxLosses, MaxDuplicates} \subseteq Nat

VARIABLES
  file,               \* the generation each official file holds; 0 when it is empty
  exists,             \* the official files there are
  registered,         \* generations the service has registered
  instance,           \* the component: not running, active, ...
  m_isProvisioned,
  m_topicPrefix,      \* whether it is known
  worker,             \* where worker() is, and in which stage or topic
  frame,              \* the number of this or the last run of worker()
  connected,          \* its local variable
  promise,            \* its promises, per stage
  dialogue,           \* the last run that got as far as the dialogue
  client,             \* the MQTT client is created
  reconnecting,       \* ... and connects by itself when the connection is lost
  link,
  onConnect,          \* the run whose handler MqttService calls on a connection; 0 if none
  subscribed,         \* topics the broker forwards
  handler,            \* topics with a message handler, and the run whose stack it refers to
  pending,            \* subscriptions and publishes whose result is due
  answer,             \* what the service says to the request of each stage
  paho,               \* what the client's thread is doing, and how far it is
  missed,             \* those whose result came before it was filed who waits for it
  torn, overwritten,  \* history: a crash left a file empty; keys were replaced under a provision file
  threw,              \* history: an exception ended a run that had a client
  timedOut,           \* history: a run gave up waiting for its connection
  dangling,           \* history: a callback of the dialogue used promises that are gone
  late,               \* history: onConnect used the stack of a run that is over
  lossy,              \* history: the connection was lost under a dialogue
  crashes, losses, duplicates

Files == {"certificates", "certificatePem", "privatePem", "provision"}
Certificates == <<"certificates", "certificatePem", "privatePem">>
Stages == 1..2
Verdicts == {"accepted", "rejected"}
Topics == Stages \X Verdicts
\* In the order of topic1 to topic4.
Topic == <<<<1, "accepted">>, <<1, "rejected">>, <<2, "accepted">>, <<2, "rejected">>>>

disk == <<file, exists>>
data == <<m_isProvisioned, m_topicPrefix>>
run == <<worker, frame, dialogue, connected>>
mqtt == <<client, reconnecting, link, onConnect, subscribed>>
bounds == <<crashes, losses, duplicates>>
others == <<torn, overwritten, timedOut, dangling, late, lossy, bounds>>
history == <<missed, threw, others>>
vars == <<disk, registered, instance, data, run, promise, mqtt, handler, pending, answer, paho,
          history>>

At(step, n) == [at |-> step, n |-> n]
Idle == At("idle", 0)
Dialogue == {"subscribe", "subscribeOther", "awaitAccepted", "awaitRejected", "publish",
             "awaitSent", "awaitAnswer", "unsubscribe", "cancel"}
\* In the try block, the scope of the promises.
Trying == Dialogue \ {"cancel"}

Places == [at : {"idle", "create", "connect", "wait", "release"} \cup Dialogue, n : 0..4]
PahoPlaces == [at : {"idle", "onConnect", "keys", "register"}, n : Nat]
Results == Verdicts \cup {"sent"}
Promises == [Stages -> [Results \cup {"answer"} -> {"unset", "true", "false"}]]
Requests == Stages \X Results \X (1..MaxDialogues)
Answers == [Stages -> {"none", "asked"} \cup Verdicts]

DiskType ==
  /\ file \in [Files -> 0..MaxDialogues]
  /\ exists \in SUBSET Files
  /\ registered \in SUBSET (1..MaxDialogues)
  /\ instance \in {"down", "active", "deactivating", "off", "failed"}
  /\ m_isProvisioned \in BOOLEAN /\ m_topicPrefix \in BOOLEAN

RunType ==
  /\ worker \in Places
  /\ frame \in 0..MaxDialogues /\ dialogue \in 0..MaxDialogues
  /\ connected \in BOOLEAN
  /\ promise \in Promises

MqttType ==
  /\ client \in BOOLEAN /\ reconnecting \in BOOLEAN
  /\ link \in {"down", "connecting", "up"}
  /\ onConnect \in 0..MaxDialogues
  /\ subscribed \in SUBSET Topics
  /\ handler \in [Topics -> 0..MaxDialogues]
  /\ pending \in SUBSET Requests
  /\ answer \in Answers
  /\ paho \in PahoPlaces

HistoryType ==
  /\ missed \in SUBSET Requests
  /\ torn \in BOOLEAN /\ overwritten \in BOOLEAN
  /\ threw \in BOOLEAN /\ timedOut \in BOOLEAN
  /\ dangling \in BOOLEAN /\ late \in BOOLEAN /\ lossy \in BOOLEAN
  /\ crashes \in 0..MaxCrashes
  /\ losses \in 0..MaxLosses
  /\ duplicates \in 0..MaxDuplicates

TypeOK == DiskType /\ RunType /\ MqttType /\ HistoryType

NoPromises == [s \in Stages |-> [p \in Results \cup {"answer"} |-> "unset"]]

NoHandlers == [t \in Topics |-> 0]
NoAnswers == [s \in Stages |-> "none"]

Init ==
  /\ file = [f \in Files |-> 0]
  /\ exists = {}
  /\ registered = {}
  /\ instance = "down"
  /\ frame = 0 /\ dialogue = 0
  /\ m_isProvisioned = FALSE /\ m_topicPrefix = FALSE
  /\ worker = Idle
  /\ connected = FALSE
  /\ promise = NoPromises
  /\ client = FALSE /\ reconnecting = FALSE
  /\ link = "down"
  /\ onConnect = 0
  /\ subscribed = {}
  /\ handler = NoHandlers
  /\ pending = {}
  /\ answer = NoAnswers
  /\ paho = Idle
  /\ missed = {}
  /\ torn = FALSE /\ overwritten = FALSE /\ threw = FALSE /\ timedOut = FALSE
  /\ dangling = FALSE /\ late = FALSE /\ lossy = FALSE
  /\ crashes = 0 /\ losses = 0 /\ duplicates = 0

-----------------------------------------------------------------------------
(* The component.                                                          *)

\* Whether it finds the topic prefix: an empty file is no JSON, and it throws.
exploreProvisionFile == file["provision"] # 0

\* Four files that can be opened mean that provisioning was done; an empty
\* provision file then makes exploreProvisionFile, and activate, throw.
activate ==
  /\ instance = "down"
  /\ m_isProvisioned' = (exists = Files)
  /\ m_topicPrefix' = (exists = Files /\ exploreProvisionFile)
  /\ instance' = IF exists = Files /\ ~exploreProvisionFile THEN "failed" ELSE "active"
  /\ UNCHANGED <<disk, registered, run, promise, mqtt, handler, pending, answer, paho, history>>

\* In a thread, which joins the last one first, or in the caller's.  A run that meets
\* another begins when m_workMtx is free: after it, or during its wait for the
\* connection, when create() throws at once for the client there is.
launchProvisioning ==
  /\ instance = "active"
  /\ worker = Idle
  /\ frame < MaxDialogues
  /\ worker' = At("create", 0)
  /\ frame' = frame + 1
  /\ connected' = FALSE
  /\ promise' = NoPromises
  /\ UNCHANGED <<disk, registered, instance, data, dialogue, mqtt, handler, pending, answer, paho,
                 history>>

\* Results that are due when the connection ends are forgotten or reported as failed.
LoseLink ==
  /\ link' = "down"
  /\ subscribed' = {}
  /\ pending' \in {{}, pending}
  /\ lossy' = (lossy \/ worker.at \in Dialogue)

\* The handler for new connections is unregistered, and the client told to
\* disconnect, not destroyed; then the join.
deactivate ==
  /\ instance = "active"
  /\ instance' = "deactivating"
  /\ onConnect' = 0
  /\ reconnecting' = FALSE
  /\ LoseLink
  /\ UNCHANGED <<disk, registered, data, run, promise, client, handler, answer, paho, missed, torn,
                 overwritten, threw, timedOut, dangling, late, bounds>>

Join ==
  /\ instance = "deactivating"
  /\ worker = Idle
  /\ instance' = "off"
  /\ UNCHANGED <<disk, registered, data, run, promise, mqtt, handler, pending, answer, paho, history>>

\* Open files are left empty, and the next process starts with nothing but files.
Crash ==
  /\ instance # "down"
  /\ crashes < MaxCrashes
  /\ crashes' = crashes + 1
  /\ instance' = "down"
  /\ m_isProvisioned' = FALSE /\ m_topicPrefix' = FALSE
  /\ worker' = Idle
  /\ connected' = FALSE
  /\ promise' = NoPromises
  /\ client' = FALSE /\ reconnecting' = FALSE
  /\ link' = "down"
  /\ onConnect' = 0
  /\ subscribed' = {}
  /\ handler' = NoHandlers
  /\ pending' = {}
  /\ missed' = {}
  /\ answer' = NoAnswers
  /\ paho' = Idle
  /\ torn' = (torn \/ \E f \in exists : file[f] = 0)
  /\ UNCHANGED <<disk, registered, frame, dialogue, overwritten, threw, timedOut, dangling, late,
                 lossy, losses, duplicates>>

-----------------------------------------------------------------------------
(* worker().                                                               *)

Goto(step, n) == worker' = At(step, n) /\ UNCHANGED <<frame, dialogue, connected>>
Proceed(step, n) == Goto(step, n) /\ UNCHANGED threw
Throw(step) == Goto(step, 0) /\ threw' = TRUE

\* create() throws if a client was left over; missing bootstrap files throw, too.
create ==
  /\ worker.at = "create"
  /\ \/ ~client /\ client' = TRUE /\ Goto("connect", 0)
     \/ UNCHANGED client /\ Goto("idle", 0)
  /\ UNCHANGED <<disk, registered, instance, data, promise, reconnecting, link, onConnect, subscribed,
                 handler, pending, answer, paho, history>>

\* The handler is registered first, and stays if the client refuses to connect.
connect ==
  /\ worker.at = "connect"
  /\ onConnect' = frame
  /\ \/ Proceed("wait", 0) /\ link' = "connecting" /\ reconnecting' = TRUE
     \/ Throw("idle") /\ UNCHANGED <<link, reconnecting>>
  /\ UNCHANGED <<disk, registered, instance, data, promise, client, subscribed, handler, pending,
                 answer, paho, missed, others>>

ConnectedInTime ==
  /\ worker.at = "wait"
  /\ connected
  /\ worker' = At("subscribe", 1)
  /\ dialogue' = frame
  /\ answer' = NoAnswers
  /\ UNCHANGED <<disk, registered, instance, data, frame, connected, promise, mqtt,
                 handler, pending, paho, history>>

\* After 60 s.
NotConnected ==
  /\ worker.at = "wait"
  /\ ~connected
  /\ Goto("release", 0)
  /\ m_isProvisioned' = FALSE
  /\ timedOut' = TRUE
  /\ UNCHANGED <<disk, registered, instance, m_topicPrefix, promise, mqtt, handler, pending, answer,
                 paho, missed, torn, overwritten, threw, dangling, late, lossy, bounds>>

\* disconnect and destroy.
Release ==
  /\ worker.at = "release"
  /\ Goto("idle", 0)
  /\ client' = FALSE
  /\ reconnecting' = FALSE
  /\ link' = "down"
  /\ subscribed' = {}
  /\ pending' = {}
  /\ UNCHANGED <<disk, registered, instance, data, promise, onConnect, handler, answer, paho, history>>

\* msgarrvd holds m_subscriptionDataMutex while a message handler writes files.
MapFree == paho.at \notin {"keys", "register"}

Granted(s, p) == IF p = "sent" THEN subscribed ELSE subscribed \cup {<<s, p>>}

\* MqttService hands a request to the client, then files who waits for its result.  A
\* result that comes in between finds nobody and is dropped.
Request(p) ==
  LET request == {<<worker.n, p, frame>>}
  IN  \/ pending' = pending \cup request /\ UNCHANGED <<missed, subscribed>>
      \/ /\ paho = Idle
         /\ missed' = missed \cup request
         /\ subscribed' \in {subscribed, Granted(worker.n, p)}
         /\ UNCHANGED pending

SubscribeTo(verdict, at, next) ==
  /\ worker.at = at
  /\ MapFree
  /\ \/ /\ link = "up"
        /\ handler' = [handler EXCEPT ![<<worker.n, verdict>>] = frame]
        /\ Request(verdict)
        /\ Proceed(next, worker.n)
     \/ /\ link # "up"
        /\ Throw("cancel")
        /\ UNCHANGED <<handler, subscribed, pending, missed>>
  /\ UNCHANGED <<disk, registered, instance, data, promise, client, reconnecting, link, onConnect,
                 answer, paho, others>>

subscribe == \/ SubscribeTo("accepted", "subscribe", "subscribeOther")
             \/ SubscribeTo("rejected", "subscribeOther", "awaitAccepted")

\* get() on a promise.
Get(at, p) ==
  /\ worker.at = at
  /\ promise[worker.n][p] # "unset"
  /\ UNCHANGED <<disk, registered, instance, data, promise, mqtt, handler, pending, answer, paho,
                 missed, others>>

\* Mutant: the second subscription is not waited for.
AwaitAccepted_Only ==
  /\ Get("awaitAccepted", "accepted")
  /\ IF promise[worker.n]["accepted"] = "false"
     THEN Throw("cancel") ELSE Proceed("publish", worker.n)

\* In the first stage a refused subscription throws at once, in the second only
\* when the result of the other has come.
AwaitAccepted ==
  /\ Get("awaitAccepted", "accepted")
  /\ IF promise[worker.n]["accepted"] = "false" /\ worker.n = 1
     THEN Throw("cancel") ELSE Proceed("awaitRejected", worker.n)

AwaitRejected ==
  /\ Get("awaitRejected", "rejected")
  /\ IF \E v \in Verdicts : promise[worker.n][v] = "false"
     THEN Throw("cancel") ELSE Proceed("publish", worker.n)

AwaitSent ==
  /\ Get("awaitSent", "sent")
  /\ IF promise[worker.n]["sent"] = "false"
     THEN Throw("cancel") ELSE Proceed("awaitAnswer", worker.n)

\* Mutant: a rejection is not looked at.
AwaitAnswer_Any ==
  /\ Get("awaitAnswer", "answer")
  /\ IF worker.n = 1 THEN Proceed("subscribe", 2) ELSE Proceed("unsubscribe", 4)

AwaitAnswer ==
  /\ Get("awaitAnswer", "answer")
  /\ IF promise[worker.n]["answer"] = "false" THEN Throw("cancel")
     ELSE IF worker.n = 1 THEN Proceed("subscribe", 2) ELSE Proceed("unsubscribe", 4)

\* Without a connection the client takes no message, and publish() only logs it.
publish ==
  /\ worker.at = "publish"
  /\ Goto("awaitSent", worker.n)
  /\ \/ /\ link = "up"
        /\ Request("sent")
        /\ answer' = [answer EXCEPT ![worker.n] = "asked"]
     \/ link # "up" /\ UNCHANGED <<pending, missed, subscribed, answer>>
  /\ UNCHANGED <<disk, registered, instance, data, promise, client, reconnecting, link, onConnect,
                 handler, paho, threw, others>>

RemoveTopics(topics) ==
  /\ handler' = [t \in Topics |-> IF t \in topics THEN 0 ELSE handler[t]]
  /\ subscribed' = subscribed \ topics

\* Mutant: topic1 is forgotten.
unsubscribe_Last ==
  /\ worker.at = "unsubscribe"
  /\ MapFree
  /\ IF worker.n > 1
     THEN Goto("unsubscribe", worker.n - 1) /\ m_isProvisioned' = m_isProvisioned
     ELSE Goto("release", 0) /\ m_isProvisioned' = TRUE
  /\ RemoveTopics({Topic[worker.n]} \ {Topic[1]})
  /\ UNCHANGED <<disk, registered, instance, m_topicPrefix, promise, client, reconnecting, link,
                 onConnect, pending, answer, paho, history>>

\* From topic4 to topic1; then worker() reports success.
unsubscribe ==
  /\ worker.at = "unsubscribe"
  /\ MapFree
  /\ \/ /\ link = "up"
        /\ RemoveTopics({Topic[worker.n]})
        /\ IF worker.n > 1
           THEN Proceed("unsubscribe", worker.n - 1) /\ m_isProvisioned' = m_isProvisioned
           ELSE Proceed("release", 0) /\ m_isProvisioned' = TRUE
     \/ link # "up" /\ Throw("cancel") /\ UNCHANGED <<m_isProvisioned, handler, subscribed>>
  /\ UNCHANGED <<disk, registered, instance, m_topicPrefix, promise, client, reconnecting, link,
                 onConnect, pending, answer, paho, missed, others>>

\* The catch blocks: topic1 to topic4 are unsubscribed up to the first call that
\* throws (without a connection the first), and the client is left as it is.
Cancel ==
  /\ worker.at = "cancel"
  /\ MapFree
  /\ \E n \in 0..4 :
       /\ n > 0 => link = "up"
       /\ RemoveTopics({Topic[i] : i \in 1..n})
  /\ Goto("idle", 0)
  /\ UNCHANGED <<disk, registered, instance, data, promise, client, reconnecting, link, onConnect,
                 pending, answer, paho, history>>

-----------------------------------------------------------------------------
(* The connection.                                                         *)

\* The client's thread calls the handler, which only deactivate() unregisters.
Connected ==
  /\ link = "connecting"
  /\ paho = Idle
  /\ link' = "up"
  /\ paho' = IF onConnect = 0 THEN Idle ELSE At("onConnect", onConnect)
  /\ UNCHANGED <<disk, registered, instance, data, run, promise, client, reconnecting, onConnect,
                 subscribed, handler, pending, answer, history>>

\* onConnect takes m_workMtx, which worker() holds except in its wait.  It sets
\* connected on the stack of its run, and nobody keeps that run waiting for it.
OnConnect ==
  /\ paho.at = "onConnect"
  /\ worker.at \in {"idle", "wait"}
  /\ IF worker.at = "wait" /\ paho.n = frame
     THEN connected' = TRUE /\ UNCHANGED late
     ELSE late' = TRUE /\ UNCHANGED connected
  /\ paho' = Idle
  /\ UNCHANGED <<disk, registered, instance, data, worker, frame, dialogue, promise, mqtt, handler,
                 pending, answer, missed, torn, overwritten, threw, timedOut, dangling, lossy, bounds>>

ConnectionLost ==
  /\ link = "up"
  /\ losses < MaxLosses
  /\ losses' = losses + 1
  /\ LoseLink
  /\ UNCHANGED <<disk, registered, instance, data, run, promise, client, reconnecting, onConnect,
                 handler, answer, paho, missed, torn, overwritten, threw, timedOut, dangling, late,
                 crashes, duplicates>>

Reconnect ==
  /\ link = "down"
  /\ client /\ reconnecting
  /\ link' = "connecting"
  /\ UNCHANGED <<disk, registered, instance, data, run, promise, client, reconnecting, onConnect,
                 subscribed, handler, pending, answer, paho, history>>

-----------------------------------------------------------------------------
(* The callbacks of the dialogue.                                          *)

\* A callback of run f sets a promise; for the answers, the first one counts.
SetPromise(s, p, result, f) ==
  IF f = frame /\ worker.at \in Trying
  THEN /\ promise' = IF promise[s][p] = "unset" THEN [promise EXCEPT ![s][p] = result] ELSE promise
       /\ UNCHANGED dangling
  ELSE dangling' = TRUE /\ UNCHANGED promise

\* onSubscribe and onSend.
Result(s, p, f) ==
  /\ paho = Idle
  /\ <<s, p, f>> \in pending
  /\ pending' = pending \ {<<s, p, f>>}
  /\ \/ SetPromise(s, p, "false", f) /\ UNCHANGED subscribed
     \/ /\ link = "up"
        /\ SetPromise(s, p, "true", f)
        /\ subscribed' = Granted(s, p)
  /\ UNCHANGED <<disk, registered, instance, data, run, client, reconnecting, link, onConnect, handler,
                 answer, paho, missed, torn, overwritten, threw, timedOut, late, lossy, bounds>>

\* The service decides; a second registration of a generation is no change.
Answer(s, verdict) ==
  /\ answer[s] = "asked"
  /\ answer' = [answer EXCEPT ![s] = verdict]
  /\ registered' = IF s = 2 /\ verdict = "accepted" THEN registered \cup {dialogue} ELSE registered
  /\ UNCHANGED <<disk, instance, data, run, promise, mqtt, handler, pending, paho, history>>

Forwarded(s, verdict) ==
  /\ paho = Idle
  /\ link = "up"
  /\ <<s, verdict>> \in subscribed
  /\ handler[<<s, verdict>>] # 0
  /\ answer[s] = verdict

\* The broker may deliver the answer again.
Delivered(s) ==
  \/ answer' = [answer EXCEPT ![s] = "none"] /\ UNCHANGED duplicates
  \/ duplicates < MaxDuplicates /\ duplicates' = duplicates + 1 /\ UNCHANGED answer

\* Mutant: a rejection is only logged.
Rejected_Silent(s) ==
  /\ Forwarded(s, "rejected")
  /\ Delivered(s)
  /\ UNCHANGED <<disk, registered, instance, data, run, promise, mqtt, handler, pending, paho, missed,
                 torn, overwritten, threw, timedOut, dangling, late, lossy, crashes, losses>>

Rejected(s) ==
  /\ Forwarded(s, "rejected")
  /\ Delivered(s)
  /\ SetPromise(s, "answer", "false", handler[<<s, "rejected">>])
  /\ UNCHANGED <<disk, registered, instance, data, run, mqtt, handler, pending, paho, missed,
                 torn, overwritten, threw, timedOut, late, lossy, crashes, losses>>

Accepted(s) ==
  /\ Forwarded(s, "accepted")
  /\ Delivered(s)
  /\ paho' = IF s = 1 THEN At("keys", 1) ELSE At("register", 1)
  /\ UNCHANGED <<disk, registered, instance, data, run, promise, mqtt, handler, pending, missed, torn,
                 overwritten, threw, timedOut, dangling, late, lossy, crashes, losses>>

\* Opening for writing creates or truncates a file; what is written reaches it
\* when it is closed.
Open(f) == exists' = exists \cup {f} /\ file' = [file EXCEPT ![f] = 0]
Close(f) == file' = [file EXCEPT ![f] = dialogue] /\ UNCHANGED exists

\* The three certificate files are opened, then closed, then the promise is set.
SaveKeys ==
  /\ paho.at = "keys"
  /\ \/ /\ paho.n \in 1..3
        /\ Open(Certificates[paho.n])
        /\ overwritten' = (overwritten \/ "provision" \in exists)
        /\ UNCHANGED <<promise, dangling>>
     \/ /\ paho.n \in 4..6
        /\ Close(Certificates[paho.n - 3])
        /\ UNCHANGED <<promise, overwritten, dangling>>
     \/ /\ paho.n = 7
        /\ SetPromise(1, "answer", "true", handler[<<1, "accepted">>])
        /\ UNCHANGED <<disk, overwritten>>
  /\ paho' = IF paho.n = 7 THEN Idle ELSE At("keys", paho.n + 1)
  /\ UNCHANGED <<registered, instance, data, run, mqtt, handler, pending, answer, missed, torn,
                 threw, timedOut, late, lossy, bounds>>

\* The provision file is opened, closed and explored; then the promise is set.
SaveProvision ==
  /\ paho.at = "register"
  /\ \/ /\ paho.n = 1
        /\ Open("provision")
        /\ UNCHANGED <<m_topicPrefix, promise, dangling>>
     \/ /\ paho.n = 2
        /\ Close("provision")
        /\ UNCHANGED <<m_topicPrefix, promise, dangling>>
     \/ /\ paho.n = 3
        /\ m_topicPrefix' = exploreProvisionFile
        /\ SetPromise(2, "answer", "true", handler[<<2, "accepted">>])
        /\ UNCHANGED disk
  /\ paho' = IF paho.n = 3 THEN Idle ELSE At("register", paho.n + 1)
  /\ UNCHANGED <<registered, instance, m_isProvisioned, run, mqtt, handler, pending, answer, missed,
                 torn, overwritten, threw, timedOut, late, lossy, bounds>>

-----------------------------------------------------------------------------

\* Where worker() waits for the result of a subscription or a publish.
WaitFor == [accepted |-> "awaitAccepted", rejected |-> "awaitRejected", sent |-> "awaitSent"]

\* It waits for one that was dropped.
Unheard == \E p \in Results : worker.at = WaitFor[p] /\ <<worker.n, p, frame>> \in missed

Worker == create \/ connect \/ ConnectedInTime \/ NotConnected \/ Release \/ subscribe
            \/ AwaitAccepted \/ AwaitRejected \/ AwaitSent \/ AwaitAnswer
            \/ publish \/ unsubscribe \/ Cancel

PahoThread ==
  \/ OnConnect \/ SaveKeys \/ SaveProvision
  \/ \E s \in Stages :
       \/ Accepted(s) \/ Rejected(s)
       \/ \E p \in Results, f \in 1..MaxDialogues : Result(s, p, f)

Cloud == \E s \in Stages, verdict \in Verdicts : Answer(s, verdict)

Next ==
  \/ activate \/ launchProvisioning \/ deactivate \/ Join \/ Crash
  \/ Worker \/ PahoThread \/ Cloud
  \/ Connected \/ ConnectionLost \/ Reconnect

Spec == Init /\ [][Next]_vars

\* The threads run, and the service answers.
FairSpec == Spec /\ WF_vars(Worker) /\ WF_vars(PahoThread) /\ WF_vars(Cloud)

-----------------------------------------------------------------------------
(* Properties.                                                             *)

\* Who is told that provisioning was done, by worker() or by activate() at a
\* later start, finds all four files, complete and of one registered generation,
\* and the topic prefix: unless a crash tore a file, or a later dialogue replaced
\* the keys and left the provision file.
ProvisionedInv ==
  m_isProvisioned /\ ~torn /\ ~overwritten =>
    /\ exists = Files
    /\ m_topicPrefix
    /\ \E g \in registered : \A f \in Files : file[f] = g

\* The callbacks of a dialogue refer to promises on the stack of makeProvisioning(),
\* and onConnect to a variable on that of worker(): a callback comes too late for its
\* promise only when an exception has ended a dialogue, and onConnect only when a run
\* gave up waiting for its connection or a lost connection was made again.
FramesAlive ==
  /\ dangling => threw
  /\ late => timedOut \/ losses > 0

\* A run that ends without an exception leaves no client, message handler, due result
\* or waiter whose result was dropped behind, so that the next one can start.
CleanEnd ==
  /\ TypeOK
  /\ worker = Idle /\ ~threw =>
       ~client /\ handler = NoHandlers /\ pending = {} /\ missed = {}

\* worker() ends, and with it a deactivate() that joins it, unless one of its waits,
\* which have no timeout, is in vain: the connection was lost under the dialogue; or
\* it was made a second time, and onConnect waits for the mutex that worker() holds
\* while it waits for callbacks of the thread that is in onConnect; or the result
\* that it waits for came before MqttService had filed who waits for it.
WorkerReturns ==
  worker # Idle ~>
    \/ worker = Idle
    \/ lossy
    \/ paho.at = "onConnect" /\ worker.at \in Dialogue
    \/ Unheard
=============================================================================
