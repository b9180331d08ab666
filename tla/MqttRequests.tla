---------------------------- MODULE MqttRequests ----------------------------
(***************************************************************************)
(* The request side of MqttService (src/MqttService/MqttService.cpp):      *)
(* subscribe(), unsubscribe() and publish() hand a request to the Paho     *)
(* asynchronous client, which returns a token, and only afterwards lock a  *)
(* mutex and file the caller's handlers under that token.  Paho threads    *)
(* answer the request at any time after it was handed over, and look the   *)
(* handlers up by token under the same mutex.  The maps outlive the client *)
(* they were filled for: destroy() clears none of them.                    *)
(*                                                                         *)
(* A call is two steps, the hand-over to Paho and the critical section     *)
(* that files the context; a callback is one step, its critical section.   *)
(* Tokens and requests are atoms; filters and topics, and which of them    *)
(* match, are those of MqttTopicMatch.                                     *)
(***************************************************************************)
EXTENDS MqttTopicMatch

CONSTANTS
  Requests,    \* calls of subscribe, unsubscribe and publish, by any threads
  Tokens,      \* MQTTAsync_token: 16 bits wide, so a long run reuses them
  Kinds,       \* the operations the callers use
  BufferSize,  \* m_bufferSize
  MaxClients,  \* bound: how often create() succeeds
  MaxMessages, \* bound: messages the broker forwards
  None

AllKinds == {"sub", "unsub", "pub"}

ASSUME MqttRequestsAssumption ==
  /\ Kinds \subseteq AllKinds
  /\ BufferSize \in Nat
  /\ MaxClients \in Nat
  /\ MaxMessages \in Nat
  /\ None \notin Requests

VARIABLES
  m_client,            \* 0 is nullptr, otherwise the generation of the client
  created,             \* how many clients create() has made
  contextMap,          \* m_subscribeContextMap, m_unsubscribeContextMap, m_publishContextMap
  m_onMessageHndlMap,
  req,                 \* what each call passed to Paho, and the token it got
  pc,                  \* where each call is
  answer,              \* the asynchronous result Paho reported for it
  acked,               \* requests whose delivery Paho has confirmed
  brokerSub,           \* filters whose topics the broker forwards to the live client
  calls,               \* history: the answers each request's handler was invoked with
  deliveries,          \* history: requests for whose confirmation onDelivery ran
  early,               \* history: requests answered before their context was filed
  overLimit,           \* history: publishes whose context was not kept
  received             \* history: which onMessage handlers each message was given to

vars == <<m_client, created, contextMap, m_onMessageHndlMap, req, pc, answer,
          acked, brokerSub, calls, deliveries, early, overLimit, received>>

service == <<contextMap, m_onMessageHndlMap>>
history == <<calls, deliveries, early, overLimit, received>>

Request ==
  [kind : AllKinds, topic : Filters, qos : 0..1, token : Tokens,
   client : 1..MaxClients,
   ahead : SUBSET Requests,   \* (un)subscribes handed over earlier, still unanswered
   before : SUBSET Requests]  \* (un)subscribes that had returned when this one began

Call == [by : Requests, result : BOOLEAN]

Handlers == [Filters -> Requests \cup {None}]

\* The handlers a message found, and how often each was invoked for it.
Arrival == [topic : Topics, handlers : Handlers, times : [Filters -> Nat]]

TypeOK ==
  /\ m_client \in 0..MaxClients
  /\ created \in 0..MaxClients
  /\ m_client <= created
  /\ contextMap \in [AllKinds -> [Tokens -> Requests \cup {None}]]
  /\ m_onMessageHndlMap \in Handlers
  /\ req \in [Requests -> Request \cup {None}]
  /\ pc \in [Requests -> {"idle", "calling", "returned", "rejected"}]
  /\ answer \in [Requests -> {"none", "success", "failure"}]
  /\ acked \in SUBSET Requests
  /\ brokerSub \in SUBSET Filters
  /\ calls \in [Requests -> Seq(Call)]
  /\ deliveries \in [Requests -> SUBSET Requests]
  /\ early \in SUBSET Requests
  /\ overLimit \in SUBSET Requests
  /\ received \in Seq(Arrival)

Init ==
  /\ m_client = 0
  /\ created = 0
  /\ contextMap = [k \in AllKinds |-> [tok \in Tokens |-> None]]
  /\ m_onMessageHndlMap = [t \in Filters |-> None]
  /\ req = [r \in Requests |-> None]
  /\ pc = [r \in Requests |-> "idle"]
  /\ answer = [r \in Requests |-> "none"]
  /\ acked = {}
  /\ brokerSub = {}
  /\ calls = [r \in Requests |-> <<>>]
  /\ deliveries = [r \in Requests |-> {}]
  /\ early = {}
  /\ overLimit = {}
  /\ received = <<>>

-----------------------------------------------------------------------------
(* What Paho does with requests: it answers those of the live client.      *)

Issued(r) == pc[r] \in {"calling", "returned"}

Outstanding(r) ==
  /\ Issued(r)
  /\ answer[r] = "none"
  /\ req[r].client = m_client

FreeTokens == {tok \in Tokens : \A r \in Requests : Outstanding(r) => req[r].token # tok}

-----------------------------------------------------------------------------
(* Life of the client.                                                     *)

create ==
  /\ m_client = 0
  /\ created < MaxClients
  /\ created' = created + 1
  /\ m_client' = created + 1
  /\ UNCHANGED <<service, req, pc, answer, acked, brokerSub, history>>

\* Paho forgets what it has not answered, the maps keep their entries.
destroy ==
  /\ m_client # 0
  /\ m_client' = 0
  /\ brokerSub' = {}
  /\ UNCHANGED <<created, service, req, pc, answer, acked, history>>

\* Paho reconnects by itself; cleansession makes the broker forget.
connlost ==
  /\ m_client # 0
  /\ brokerSub # {}
  /\ brokerSub' = {}
  /\ UNCHANGED <<m_client, created, service, req, pc, answer, acked, history>>

-----------------------------------------------------------------------------
(* The callers' threads.                                                   *)

\* Only a publish tells the levels of service apart.
Qos(k) == IF k = "pub" THEN 0..1 ELSE {0}

\* The requests whose order with one of kind k matters: (un)subscribes.
Ordered(k) == IF k = "pub" THEN {} ELSE {p \in Requests : Issued(p) /\ req[p].kind # "pub"}

\* The call up to and including MQTTAsync_subscribe, _unsubscribe or
\* _sendMessage: Paho has the request, the service has not filed it yet.
HandOver(r, k, t, q) ==
  /\ pc[r] = "idle"
  /\ m_client # 0
  /\ \E tok \in FreeTokens :
       req' = [req EXCEPT ![r] =
                 [kind |-> k, topic |-> t, qos |-> q, token |-> tok, client |-> m_client,
                  ahead |-> {p \in Ordered(k) : Outstanding(p)},
                  before |-> {p \in Ordered(k) : pc[p] = "returned"}]]
  /\ pc' = [pc EXCEPT ![r] = "calling"]
  /\ UNCHANGED <<m_client, created, service, answer, acked, brokerSub, history>>

\* No client, or Paho refuses: subscribe and unsubscribe throw, publish
\* throws without a client and returns silently when Paho refuses.
Reject(r) ==
  /\ pc[r] = "idle"
  /\ pc' = [pc EXCEPT ![r] = "rejected"]
  /\ UNCHANGED <<m_client, created, service, req, answer, acked, brokerSub, history>>

subscribe(r) ==
  /\ pc[r] = "calling"
  /\ req[r].kind = "sub"
  /\ contextMap' = [contextMap EXCEPT !["sub"][req[r].token] = r]
  /\ m_onMessageHndlMap' = [m_onMessageHndlMap EXCEPT ![req[r].topic] = r]
  /\ pc' = [pc EXCEPT ![r] = "returned"]
  /\ UNCHANGED <<m_client, created, req, answer, acked, brokerSub, history>>

\* Mutant: the message handler survives the unsubscribe.
unsubscribe_KeepHandler(r) ==
  /\ pc[r] = "calling"
  /\ req[r].kind = "unsub"
  /\ contextMap' = [contextMap EXCEPT !["unsub"][req[r].token] = r]
  /\ pc' = [pc EXCEPT ![r] = "returned"]
  /\ UNCHANGED <<m_client, created, m_onMessageHndlMap, req, answer, acked, brokerSub, history>>

unsubscribe(r) ==
  /\ pc[r] = "calling"
  /\ req[r].kind = "unsub"
  /\ m_onMessageHndlMap' = [m_onMessageHndlMap EXCEPT ![req[r].topic] = None]
  /\ contextMap' = [contextMap EXCEPT !["unsub"][req[r].token] = r]
  /\ pc' = [pc EXCEPT ![r] = "returned"]
  /\ UNCHANGED <<m_client, created, req, answer, acked, brokerSub, history>>

Occupied(map) == {tok \in Tokens : map[tok] # None}

\* The context limit is reached.
Full(map) == Cardinality(Occupied(map)) > BufferSize

publish(r) ==
  /\ pc[r] = "calling"
  /\ req[r].kind = "pub"
  /\ IF Full(contextMap["pub"])
       THEN /\ overLimit' = overLimit \cup {r}
            /\ UNCHANGED contextMap
       ELSE /\ contextMap' = [contextMap EXCEPT !["pub"][req[r].token] = r]
            /\ UNCHANGED overLimit
  /\ pc' = [pc EXCEPT ![r] = "returned"]
  /\ UNCHANGED <<m_client, created, m_onMessageHndlMap, req, answer, acked,
                 brokerSub, calls, deliveries, early, received>>

-----------------------------------------------------------------------------
(* The Paho threads.                                                       *)

Filed(r) == contextMap[req[r].kind][req[r].token]

\* The bookkeeping all result callbacks and their mutants share.
Answered(r, k, result) ==
  /\ Outstanding(r)
  /\ req[r].kind = k
  /\ answer' = [answer EXCEPT ![r] = IF result THEN "success" ELSE "failure"]
  /\ early' = IF pc[r] = "calling" THEN early \cup {r} ELSE early
  /\ calls' = IF Filed(r) = None THEN calls
              ELSE [calls EXCEPT ![Filed(r)] = Append(@, [by |-> r, result |-> result])]
  /\ UNCHANGED <<m_client, created, req, pc, acked, deliveries, overLimit, received>>

\* Mutant: the context stays in its map.
Report_NoErase(r, k, result) ==
  /\ Answered(r, k, result)
  /\ UNCHANGED service

\* Mutant: the failure path forgets to erase the context.
Report_KeepOnFailure(r, k, result) ==
  /\ Answered(r, k, result)
  /\ contextMap' = IF result THEN [contextMap EXCEPT ![k][req[r].token] = None] ELSE contextMap
  /\ UNCHANGED m_onMessageHndlMap

\* Mutant: the whole map is cleared.
Report_ClearAll(r, k, result) ==
  /\ Answered(r, k, result)
  /\ contextMap' = [contextMap EXCEPT ![k] = [tok \in Tokens |-> None]]
  /\ UNCHANGED m_onMessageHndlMap

\* Mutant: the message handler is erased when the unsubscribe is answered.
Report_EraseHandler(r, k, result) ==
  /\ Answered(r, k, result)
  /\ contextMap' = [contextMap EXCEPT ![k][req[r].token] = None]
  /\ m_onMessageHndlMap' = IF k = "unsub"
                            THEN [m_onMessageHndlMap EXCEPT ![req[r].topic] = None]
                            ELSE m_onMessageHndlMap

\* What every result callback does: find the context of the answered token,
\* invoke its handler with the result and erase it, or only log when there
\* is none.
Report(r, k, result) ==
  /\ Answered(r, k, result)
  /\ contextMap' = [contextMap EXCEPT ![k][req[r].token] = None]
  /\ UNCHANGED m_onMessageHndlMap

\* The broker serves the subscriptions of a client in the order sent.
Served(r) == \A p \in req[r].ahead : answer[p] # "none"

onSubscribe(r) ==
  /\ Report(r, "sub", TRUE)
  /\ Served(r)
  /\ brokerSub' = brokerSub \cup {req[r].topic}

onSubscribeFailure(r) ==
  /\ Report(r, "sub", FALSE)
  /\ UNCHANGED brokerSub

onUnsubscribe(r) ==
  /\ Report(r, "unsub", TRUE)
  /\ Served(r)
  /\ brokerSub' = brokerSub \ {req[r].topic}

onUnsubscribeFailure(r) ==
  /\ Report(r, "unsub", FALSE)
  /\ UNCHANGED brokerSub

\* Paho confirms the delivery of a QoS 1 message before it reports success.
onSend(r) ==
  /\ Report(r, "pub", TRUE)
  /\ req[r].qos = 1 => r \in acked
  /\ UNCHANGED brokerSub

onSendFailure(r) ==
  /\ Report(r, "pub", FALSE)
  /\ UNCHANGED brokerSub

\* onDelivery is invoked, the context stays filed for onSend.
delivered(r) ==
  /\ Outstanding(r)
  /\ req[r].kind = "pub"
  /\ req[r].qos = 1
  /\ r \notin acked
  /\ acked' = acked \cup {r}
  /\ deliveries' = IF Filed(r) = None THEN deliveries
                   ELSE [deliveries EXCEPT ![Filed(r)] = @ \cup {r}]
  /\ UNCHANGED <<m_client, created, service, req, pc, answer, brokerSub, calls,
                 early, overLimit, received>>

\* A message the broker forwards goes to every handler whose filter passes one
\* of the tests; without one it is logged and dropped.
msgarrvd(t) ==
  /\ \E f \in brokerSub : Forwards(f, t)
  /\ Len(received) < MaxMessages
  /\ received' = Append(received,
       [topic |-> t,
        handlers |-> m_onMessageHndlMap,
        times |-> [f \in Filters |->
                     IF m_onMessageHndlMap[f] = None THEN 0 ELSE Invocations(f, t)]])
  /\ UNCHANGED <<m_client, created, service, req, pc, answer, acked, brokerSub,
                 calls, deliveries, early, overLimit>>

-----------------------------------------------------------------------------
Next ==
  \/ create
  \/ destroy
  \/ connlost
  \/ \E t \in Topics : msgarrvd(t)
  \/ \E r \in Requests :
       \/ \E k \in Kinds, t \in Filters : \E q \in Qos(k) : HandOver(r, k, t, q)
       \/ Reject(r)
       \/ subscribe(r)
       \/ unsubscribe(r)
       \/ publish(r)
       \/ onSubscribe(r)
       \/ onSubscribeFailure(r)
       \/ onUnsubscribe(r)
       \/ onUnsubscribeFailure(r)
       \/ onSend(r)
       \/ onSendFailure(r)
       \/ delivered(r)

Spec == Init /\ [][Next]_vars

-----------------------------------------------------------------------------
(* Correctness.                                                            *)

\* A request's result handler (onSubscribe, onUnsubscribe, onSend) runs at
\* most once, whatever the reuse of tokens and clients: the callbacks erase
\* the context they invoke.
NeverTwice == \A r \in Requests : Len(calls[r]) <= 1

\* A handler is invoked with the answer to another request only if its own
\* request was answered before subscribe(), unsubscribe() or publish() had
\* filed the context, or belongs to another client than the answered one.
MisdeliveryCause ==
  \A r \in Requests : \A i \in 1..Len(calls[r]) :
    LET q == calls[r][i].by IN
    q # r => r \in early \/ req[r].client # req[q].client

\* Requests that compete for one entry of one map.
Collide(r, q) ==
  /\ q # r /\ Issued(r) /\ Issued(q)
  /\ req[q].kind = req[r].kind
  /\ req[q].token = req[r].token

\* The entry went to one answered too early or sent to another client.
LostTo(r) ==
  \E q \in Requests : Collide(r, q) /\ (q \in early \/ req[q].client # req[r].client)

\* A request that returned and was answered, and whose own answer was not
\* reported to its handler, was answered before its context was filed, was a
\* publish over the context limit, or lost its entry to a request that was
\* itself answered too early or went to another client.
SilentLossCause ==
  \A r \in Requests :
    (pc[r] = "returned" /\ answer[r] # "none") =>
      \/ \E i \in 1..Len(calls[r]) : calls[r][i].by = r
      \/ r \in early
      \/ r \in overLimit
      \/ LostTo(r)

\* A delivery confirmed after publish() has returned reaches the onDelivery of
\* that publish, unless it was over the context limit or lost its entry, and
\* the onDelivery of another publish only if that one was itself answered too
\* early or belongs to another client.
DeliveryCause ==
  [][ \A r \in acked' \ acked :
        /\ (pc[r] = "returned" /\ r \notin overLimit /\ ~LostTo(r)) => r \in deliveries'[r]
        /\ \A q \in Requests \ {r} :
             r \in deliveries'[q] \ deliveries[q] =>
               q \in early \/ req[q].client # req[r].client ]_vars

Subscribing(r, t) == Issued(r) /\ req[r].kind # "pub" /\ req[r].topic = t

\* Once a later subscribe() or unsubscribe() of the topic has returned, the
\* onMessage of an earlier subscription is never invoked again.
RetiredHandlerSilent ==
  [][ received' # received =>
        LET m == received'[Len(received')] IN
        \A f \in Filters : m.times[f] > 0 =>
          LET s == m.handlers[f] IN
          ~ \E u \in Requests :
              /\ pc[u] = "returned"
              /\ Subscribing(u, req[s].topic)
              /\ s \in req[u].before ]_vars

\* msgarrvd invokes a handler for those messages its filter asks for, whatever
\* other filter made the broker send them, and no others, but for the unsupported
\* pairs of filter and topic, and in no case twice, although three tests may do so.
HandledExactly ==
  \A i \in 1..Len(received) : \A f \in Filters :
    LET m == received[i] IN
    m.handlers[f] # None =>
      /\ m.times[f] <= 1
      /\ ~Unsupported(f, m.topic) => (m.times[f] = 1 <=> Forwards(f, m.topic))

Overlap(r, q) == r # q /\ r \notin req[q].before /\ q \notin req[r].before

\* No subscribe() or unsubscribe() of a filter is under way, no two of them
\* overlapped and no unsubscribe failed.
Settled(f) ==
  /\ \A r \in Requests : Subscribing(r, f) => pc[r] = "returned" /\ ~Outstanding(r)
  /\ \A r, q \in Requests : Subscribing(r, f) /\ Subscribing(q, f) => ~Overlap(r, q) \/ r = q
  /\ \A r \in Requests : Subscribing(r, f) /\ req[r].kind = "unsub" => answer[r] # "failure"

\* A settled filter the broker forwards for has a handler: no message is
\* dropped for want of one.
ForwardedHasHandler == \A f \in brokerSub : Settled(f) => m_onMessageHndlMap[f] # None

-----------------------------------------------------------------------------
(* The inductive strengthening of NeverTwice, MisdeliveryCause and         *)
(* SilentLossCause.                                                        *)

\* Only a request handed over is answered, one answered before it returned is
\* in early, and its client is one of those created.
AnswersInv ==
  \A r \in Requests :
    /\ answer[r] # "none" => Issued(r)
    /\ pc[r] = "calling" /\ answer[r] # "none" => r \in early
    /\ Issued(r) => req[r].client <= created

\* Paho gives two outstanding requests different tokens.
TokensInv ==
  \A r, q \in Requests :
    Outstanding(r) /\ Outstanding(q) /\ r # q => req[r].token # req[q].token

\* A filed context stands under its own kind and token, has not been used,
\* and if its answer is in, that came early.
ContextsInv ==
  \A k \in AllKinds, tok \in Tokens :
    LET r == contextMap[k][tok] IN
    r # None =>
      /\ pc[r] = "returned"
      /\ req[r].kind = k
      /\ req[r].token = tok
      /\ calls[r] = <<>>
      /\ answer[r] # "none" => r \in early

\* Handlers run after the call that passed them has returned, for answers to
\* requests that were handed over.
CallsInv ==
  \A r \in Requests :
    calls[r] # <<>> =>
      /\ pc[r] = "returned"
      /\ \A i \in 1..Len(calls[r]) : Issued(calls[r][i].by)

\* A request that waits for its answer has its context filed, unless it was a
\* publish over the limit or another request took the entry.
KeptInv ==
  \A r \in Requests :
    (pc[r] = "returned" /\ Outstanding(r) /\ r \notin overLimit) => Filed(r) = r \/ LostTo(r)

CorrelationInv ==
  /\ AnswersInv /\ TokensInv /\ ContextsInv /\ CallsInv /\ KeptInv
  /\ NeverTwice /\ MisdeliveryCause /\ SilentLossCause
=============================================================================
