-------------------------- MODULE MqttRequestsProofs ------------------------
(***************************************************************************)
(* Theorems about MqttRequests, for any number of requests, topics, tokens *)
(* and clients.                                                            *)
(***************************************************************************)
EXTENDS MqttRequests, FiniteSetTheorems, TLAPS

(* Matching of topics with filters.                                        *)

\* A filter and a topic, as far as the tests look at them.
LEMMA FilterTopic ==
  ASSUME NEW f \in Filters, NEW t \in Topics
  PROVE  /\ Len(f) \in Nat \ {0} /\ DOMAIN f = 1..Len(f)
         /\ \A i \in 1..Len(f) : f[i] \in Names \cup {"+", "#"}
         /\ \A i \in 1..Len(f) - 1 : f[i] # "#"
         /\ f \in [1..Len(f) -> Names \cup Wildcards]
         /\ Len(t) \in Nat \ {0} /\ DOMAIN t = 1..Len(t)
         /\ \A i \in 1..Len(t) : t[i] # "+" /\ t[i] # "#"
         /\ t \in [1..Len(t) -> Names]
<1>1. PICK n \in 1..MaxLevels : f \in [1..n -> Names \cup Wildcards]
  BY DEF Filters, Levels
<1>2. PICK m \in 1..MaxLevels : t \in [1..m -> Names]
  BY DEF Topics, Levels
<1>3. n \in Nat \ {0} /\ m \in Nat \ {0}
  BY MqttTopicMatchAssumption
<1>4. Len(f) = n
  BY <1>1, <1>3
<1>5. Len(t) = m
  BY <1>2, <1>3
<1>6. \A i \in 1..Len(f) - 1 : f[i] # "#"
  BY DEF Filters
<1> QED
  BY <1>1, <1>2, <1>3, <1>4, <1>5, <1>6, MqttTopicMatchAssumption

\* No topic passes two of the tests: wildcards are not names, and a # only
\* agrees with itself where the + test looks at it.
LEMMA TestsExclusive ==
  ASSUME NEW f \in Filters, NEW t \in Topics
  PROVE  /\ ~(ExactMatch(f, t) /\ HashMatch(f, t))
         /\ ~(ExactMatch(f, t) /\ PlusMatch(f, t))
         /\ ~(HashMatch(f, t) /\ PlusMatch(f, t))
<1> USE FilterTopic
<1>1. ~(ExactMatch(f, t) /\ HashMatch(f, t))
  BY DEF ExactMatch, HashMatch, HasHash
<1>2. ~(ExactMatch(f, t) /\ PlusMatch(f, t))
  BY DEF ExactMatch, PlusMatch, HasPlus
<1>3. ~(HashMatch(f, t) /\ PlusMatch(f, t))
  BY DEF HashMatch, PlusMatch, HasHash
<1> QED
  BY <1>1, <1>2, <1>3

\* Where filter and topic are supported, a test succeeds exactly for what the
\* broker forwards.
LEMMA TestsComplete ==
  ASSUME NEW f \in Filters, NEW t \in Topics, ~Unsupported(f, t)
  PROVE  (ExactMatch(f, t) \/ HashMatch(f, t) \/ PlusMatch(f, t)) <=> Forwards(f, t)
<1> USE FilterTopic
<1>0. ~OutOfReach(f, t)
  BY DEF Unsupported
<1>1. ASSUME ExactMatch(f, t) PROVE Forwards(f, t)
  BY <1>0, <1>1 DEF ExactMatch, Forwards, HasHash
<1>2. ASSUME HashMatch(f, t) PROVE Forwards(f, t)
  BY <1>0, <1>2 DEF HashMatch, Forwards
<1>3. ASSUME PlusMatch(f, t) PROVE Forwards(f, t)
  <2>1. ~HasHash(f)
    BY <1>3 DEF PlusMatch, HasHash
  <2> QED
    BY <1>0, <1>3, <2>1 DEF PlusMatch, Forwards
<1>4. ASSUME Forwards(f, t)
      PROVE  ExactMatch(f, t) \/ HashMatch(f, t) \/ PlusMatch(f, t)
  <2>1. CASE HasHash(f)
    <3>1. Len(t) >= Len(f) /\ ~HasPlus(f)
      BY <2>1 DEF Unsupported
    <3>2. \A i \in 1..Len(f) - 1 : f[i] = t[i]
      BY <1>4, <2>1, <3>1 DEF Forwards, HasPlus
    <3> QED
      BY <2>1, <3>1, <3>2 DEF HashMatch
  <2>2. CASE ~HasHash(f) /\ HasPlus(f)
    BY <1>4, <2>2 DEF Forwards, PlusMatch
  <2>3. CASE ~HasHash(f) /\ ~HasPlus(f)
    <3>1. Len(f) = Len(t) /\ \A i \in 1..Len(f) : f[i] = t[i]
      BY <1>4, <2>3 DEF Forwards, HasPlus
    <3>2. f = [i \in 1..Len(f) |-> f[i]] /\ t = [i \in 1..Len(t) |-> t[i]]
      OBVIOUS
    <3> QED
      BY <3>1, <3>2 DEF ExactMatch
  <2> QED
    BY <2>1, <2>2, <2>3
<1> QED
  BY <1>1, <1>2, <1>3, <1>4

\* How often msgarrvd invokes the handler of a filter for a message.
LEMMA InvocationsOf ==
  ASSUME NEW f \in Filters, NEW t \in Topics
  PROVE  /\ Invocations(f, t) \in {0, 1}
         /\ ~Unsupported(f, t) => (Invocations(f, t) = 1 <=> Forwards(f, t))
<1> DEFINE Passed == {b \in {"exact", "hash", "plus"} :
                        \/ b = "exact" /\ ExactMatch(f, t)
                        \/ b = "hash" /\ HashMatch(f, t)
                        \/ b = "plus" /\ PlusMatch(f, t)}
<1> DEFINE Any == ExactMatch(f, t) \/ HashMatch(f, t) \/ PlusMatch(f, t)
<1>1. CASE ~Any
  <2>1. Passed = {}
    BY <1>1
  <2>2. Invocations(f, t) = 0
    BY <2>1, FS_EmptySet DEF Invocations
  <2> QED
    BY <1>1, <2>2, TestsComplete
<1>2. CASE Any
  <2>1. \/ Passed = {"exact"} \/ Passed = {"hash"} \/ Passed = {"plus"}
    BY <1>2, TestsExclusive
  <2>2. Invocations(f, t) = 1
    BY <2>1, FS_Singleton DEF Invocations
  <2> QED
    BY <1>2, <2>2, TestsComplete
<1> QED
  BY <1>1, <1>2

-----------------------------------------------------------------------------
(***************************************************************************)
(* The values the correlation of answers with handlers depends on, and the *)
(* shapes a step can have as far as these are concerned.                   *)
(***************************************************************************)
core == <<m_client, created, contextMap, req, pc, answer, calls, early, overLimit>>

ClientStep ==
  /\ \/ created' = created + 1 /\ m_client' = created + 1
     \/ created' = created /\ m_client' = 0
  /\ UNCHANGED <<contextMap, req, pc, answer, calls, early, overLimit>>

HandOverStep(r) ==
  /\ pc[r] = "idle"
  /\ m_client # 0
  /\ \E new \in Request :
       /\ new.client = m_client
       /\ new.token \in FreeTokens
       /\ req' = [req EXCEPT ![r] = new]
  /\ pc' = [pc EXCEPT ![r] = "calling"]
  /\ UNCHANGED <<m_client, created, contextMap, answer, calls, early, overLimit>>

RejectStep(r) ==
  /\ pc[r] = "idle"
  /\ pc' = [pc EXCEPT ![r] = "rejected"]
  /\ UNCHANGED <<m_client, created, contextMap, req, answer, calls, early, overLimit>>

FileStep(r) ==
  /\ pc[r] = "calling"
  /\ contextMap' = [contextMap EXCEPT ![req[r].kind][req[r].token] = r]
  /\ pc' = [pc EXCEPT ![r] = "returned"]
  /\ UNCHANGED <<m_client, created, req, answer, calls, early, overLimit>>

DropStep(r) ==
  /\ pc[r] = "calling"
  /\ overLimit' = overLimit \cup {r}
  /\ pc' = [pc EXCEPT ![r] = "returned"]
  /\ UNCHANGED <<m_client, created, contextMap, req, answer, calls, early>>

ReportStep(r, result) ==
  /\ Outstanding(r)
  /\ answer' = [answer EXCEPT ![r] = IF result THEN "success" ELSE "failure"]
  /\ calls' = IF Filed(r) = None THEN calls
              ELSE [calls EXCEPT ![Filed(r)] = Append(@, [by |-> r, result |-> result])]
  /\ contextMap' = [contextMap EXCEPT ![req[r].kind][req[r].token] = None]
  /\ early' = IF pc[r] = "calling" THEN early \cup {r} ELSE early
  /\ UNCHANGED <<m_client, created, req, pc, overLimit>>

CoreStep ==
  \/ UNCHANGED core
  \/ ClientStep
  \/ \E r \in Requests :
       \/ HandOverStep(r)
       \/ RejectStep(r)
       \/ FileStep(r)
       \/ DropStep(r)
       \/ \E result \in BOOLEAN : ReportStep(r, result)

\* An issued request has arguments, a token and a client made so far.
IssuedTyped == \A r \in Requests : Issued(r) => req[r] \in Request

-----------------------------------------------------------------------------
(* Typing.                                                                 *)

\* Every step of the service has one of the shapes of CoreStep.
LEMMA StepShapes == TypeOK /\ IssuedTyped /\ [Next]_vars => CoreStep
<1> USE DEF TypeOK, Handlers, service, history
<1> SUFFICES ASSUME TypeOK, IssuedTyped, [Next]_vars
             PROVE  CoreStep
  OBVIOUS
<1>1. ASSUME create PROVE ClientStep
  BY <1>1 DEF create, ClientStep
<1>2. ASSUME destroy PROVE ClientStep
  BY <1>2 DEF destroy, ClientStep
<1>3. ASSUME connlost PROVE UNCHANGED core
  BY <1>3 DEF connlost, core
<1>4. ASSUME NEW t \in Topics, msgarrvd(t) PROVE UNCHANGED core
  BY <1>4 DEF msgarrvd, core
<1>5. ASSUME NEW r \in Requests, NEW k \in Kinds, NEW t \in Filters, NEW q \in Qos(k),
             HandOver(r, k, t, q)
      PROVE  HandOverStep(r)
  <2>1. PICK tok \in FreeTokens :
          req' = [req EXCEPT ![r] =
                 [kind |-> k, topic |-> t, qos |-> q, token |-> tok, client |-> m_client,
                  ahead |-> {p \in Ordered(k) : Outstanding(p)},
                  before |-> {p \in Ordered(k) : pc[p] = "returned"}]]
    BY <1>5 DEF HandOver
  <2> DEFINE new == [kind |-> k, topic |-> t, qos |-> q, token |-> tok, client |-> m_client,
                  ahead |-> {p \in Ordered(k) : Outstanding(p)},
                  before |-> {p \in Ordered(k) : pc[p] = "returned"}]
  <2>2. Ordered(k) \subseteq Requests
    BY DEF Ordered
  <2>3. k \in AllKinds /\ q \in 0..1
    BY MqttRequestsAssumption DEF Qos
  <2>4. tok \in Tokens
    BY DEF FreeTokens
  <2>5. m_client \in 1..MaxClients
    BY <1>5, MqttRequestsAssumption DEF HandOver
  <2>6. new \in Request
    BY <2>2, <2>3, <2>4, <2>5 DEF Request
  <2>7. new.client = m_client /\ new.token = tok
    OBVIOUS
  <2> HIDE DEF new
  <2>8. req' = [req EXCEPT ![r] = new]
    BY <2>1 DEF new
  <2> QED
    BY <1>5, <2>6, <2>7, <2>8 DEF HandOver, HandOverStep
<1>6. ASSUME NEW r \in Requests, Reject(r) PROVE RejectStep(r)
  BY <1>6 DEF Reject, RejectStep
<1>7. ASSUME NEW r \in Requests, subscribe(r) PROVE FileStep(r)
  BY <1>7 DEF subscribe, FileStep
<1>8. ASSUME NEW r \in Requests, unsubscribe(r) PROVE FileStep(r)
  BY <1>8 DEF unsubscribe, FileStep
<1>9. ASSUME NEW r \in Requests, publish(r) PROVE FileStep(r) \/ DropStep(r)
  BY <1>9 DEF publish, FileStep, DropStep
<1>10. ASSUME NEW r \in Requests, NEW k, NEW result \in BOOLEAN, Report(r, k, result)
       PROVE  ReportStep(r, result)
  BY <1>10 DEF Report, Answered, ReportStep
<1>11. ASSUME NEW r \in Requests, delivered(r) PROVE UNCHANGED core
  BY <1>11 DEF delivered, core
<1>12. CASE UNCHANGED vars
  BY <1>12 DEF vars, core, CoreStep
<1>13. CASE Next
  BY <1>13, <1>1, <1>2, <1>3, <1>4, <1>5, <1>6, <1>7, <1>8, <1>9, <1>10, <1>11
  DEF Next, CoreStep, onSubscribe, onSubscribeFailure, onUnsubscribe,
      onUnsubscribeFailure, onSend, onSendFailure
<1> QED
  BY <1>12, <1>13

\* The part of the type invariant that is about core.
CoreTypes ==
  /\ m_client \in Nat /\ created \in Nat /\ m_client <= created
  /\ contextMap \in [AllKinds -> [Tokens -> Requests \cup {None}]]
  /\ req \in [Requests -> Request \cup {None}]
  /\ pc \in [Requests -> {"idle", "calling", "returned", "rejected"}]
  /\ answer \in [Requests -> {"none", "success", "failure"}]
  /\ calls \in [Requests -> Seq(Call)]
  /\ early \in SUBSET Requests
  /\ overLimit \in SUBSET Requests
  /\ IssuedTyped

TypeInv == TypeOK /\ IssuedTyped

\* Steps preserve the types of the values of core.
LEMMA CoreTyped ==
  ASSUME TypeInv, CoreStep
  PROVE  CoreTypes'
<1> USE MqttRequestsAssumption
<1> USE DEF CoreTypes, TypeInv, TypeOK, IssuedTyped, Issued
<1>1. CASE UNCHANGED core
  BY <1>1 DEF core
<1>2. CASE ClientStep
  BY <1>2 DEF ClientStep
<1>3. ASSUME NEW r \in Requests, HandOverStep(r) PROVE CoreTypes'
  BY <1>3 DEF HandOverStep
<1>4. ASSUME NEW r \in Requests, RejectStep(r) PROVE CoreTypes'
  BY <1>4 DEF RejectStep
<1>5. ASSUME NEW r \in Requests, FileStep(r) PROVE CoreTypes'
  BY <1>5 DEF FileStep, Request
<1>6. ASSUME NEW r \in Requests, DropStep(r) PROVE CoreTypes'
  BY <1>6 DEF DropStep
<1>7. ASSUME NEW r \in Requests, NEW result \in BOOLEAN, ReportStep(r, result) PROVE CoreTypes'
  <2>1. req[r] \in Request /\ pc[r] \in {"calling", "returned"}
    BY <1>7 DEF ReportStep, Outstanding
  <2>2. req[r].kind \in AllKinds /\ req[r].token \in Tokens
    BY <2>1 DEF Request
  <2>3. contextMap' \in [AllKinds -> [Tokens -> Requests \cup {None}]]
    BY <1>7, <2>2 DEF ReportStep
  <2>4. Filed(r) \in Requests \cup {None}
    BY <2>2 DEF Filed
  <2>5. [by |-> r, result |-> result] \in Call
    BY DEF Call
  <2>6. calls' \in [Requests -> Seq(Call)]
    BY <1>7, <2>4, <2>5 DEF ReportStep
  <2> QED
    BY <1>7, <2>3, <2>6 DEF ReportStep
<1> QED
  BY <1>1, <1>2, <1>3, <1>4, <1>5, <1>6, <1>7 DEF CoreStep

\* Steps preserve TypeInv.
LEMMA TypeStep == TypeInv /\ [Next]_vars => TypeInv'
<1> SUFFICES ASSUME TypeInv, [Next]_vars PROVE TypeInv'
  OBVIOUS
<1>1. CoreStep
  BY StepShapes DEF TypeInv
<1>2. CoreTypes'
  BY <1>1, CoreTyped
<1> DEFINE Rest == /\ m_client \in 0..MaxClients
                   /\ created \in 0..MaxClients
                   /\ m_onMessageHndlMap \in [Filters -> Requests \cup {None}]
                   /\ acked \in SUBSET Requests
                   /\ brokerSub \in SUBSET Filters
                   /\ deliveries \in [Requests -> SUBSET Requests]
                   /\ received \in Seq(Arrival)
<1>3. Rest'
  <2> USE MqttRequestsAssumption
  <2> USE DEF TypeInv, TypeOK, Handlers, service, history, IssuedTyped, Issued
  <2>1. CASE create
    BY <2>1 DEF create
  <2>2. CASE destroy
    BY <2>2 DEF destroy
  <2>3. CASE connlost
    BY <2>3 DEF connlost
  <2>4. ASSUME NEW t \in Topics, msgarrvd(t) PROVE Rest'
    <3>1. [f \in Filters |-> IF m_onMessageHndlMap[f] = None THEN 0 ELSE Invocations(f, t)]
            \in [Filters -> Nat]
      <4>1. ASSUME NEW f \in Filters PROVE Invocations(f, t) \in Nat
        <5>1. Invocations(f, t) \in {0, 1}
          BY ONLY InvocationsOf
        <5> QED
          BY ONLY <5>1
      <4> QED
        BY <4>1
    <3>2. [topic |-> t, handlers |-> m_onMessageHndlMap,
           times |-> [f \in Filters |->
                        IF m_onMessageHndlMap[f] = None THEN 0 ELSE Invocations(f, t)]]
            \in Arrival
      BY <3>1 DEF Arrival
    <3> QED
      BY <2>4, <3>2 DEF msgarrvd
  <2>5. ASSUME NEW r \in Requests, NEW k \in Kinds, NEW t \in Filters, NEW q \in Qos(k),
               HandOver(r, k, t, q)
        PROVE  Rest'
    BY <2>5 DEF HandOver
  <2>6. ASSUME NEW r \in Requests, Reject(r) PROVE Rest'
    BY <2>6 DEF Reject
  <2>7. ASSUME NEW r \in Requests, subscribe(r) PROVE Rest'
    BY <2>7 DEF subscribe, Request
  <2>8. ASSUME NEW r \in Requests, unsubscribe(r) PROVE Rest'
    BY <2>8 DEF unsubscribe, Request
  <2>9. ASSUME NEW r \in Requests, publish(r) PROVE Rest'
    BY <2>9 DEF publish
  <2>10. ASSUME NEW r \in Requests, NEW k, NEW result, Report(r, k, result),
                brokerSub' = brokerSub \/ brokerSub' = brokerSub \cup {req[r].topic}
                  \/ brokerSub' = brokerSub \ {req[r].topic}
         PROVE  Rest'
    BY <2>10 DEF Report, Answered, Outstanding, Request
  <2>11. ASSUME NEW r \in Requests, delivered(r) PROVE Rest'
    <3>1. req[r] \in Request
      BY <2>11 DEF delivered, Outstanding
    <3>2. Filed(r) \in Requests \cup {None}
      BY <3>1 DEF Filed, Request
    <3> QED
      BY <2>11, <3>2 DEF delivered
  <2>12. CASE UNCHANGED vars
    BY <2>12 DEF vars
  <2>13. ASSUME NEW r \in Requests,
                \/ onSubscribe(r) \/ onSubscribeFailure(r) \/ onUnsubscribe(r)
                \/ onUnsubscribeFailure(r) \/ onSend(r) \/ onSendFailure(r)
         PROVE  Rest'
    <3> HIDE DEF Rest
    <3> QED
      BY <2>10, <2>13 DEF onSubscribe, onSubscribeFailure, onUnsubscribe,
         onUnsubscribeFailure, onSend, onSendFailure
  <2> HIDE DEF Rest
  <2>14. CASE Next
    BY <2>14, <2>1, <2>2, <2>3, <2>4, <2>5, <2>6, <2>7, <2>8, <2>9, <2>11, <2>13 DEF Next
  <2> QED
    BY <2>12, <2>14
<1> QED
  BY <1>2, <1>3 DEF CoreTypes, TypeInv, TypeOK, Handlers

\* The service's data keep their types in every behaviour.
THEOREM TypeCorrect == Spec => []TypeOK
<1>1. Init => TypeInv
  BY MqttRequestsAssumption DEF Init, TypeInv, TypeOK, Handlers, IssuedTyped, Issued
<1> QED
  BY <1>1, TypeStep, PTL DEF Spec, TypeInv

-----------------------------------------------------------------------------
(* Correlation of answers and handlers.                                    *)

IInv == CoreTypes /\ CorrelationInv

\* What a step never undoes: arguments of issued requests, early answers.
LEMMA StepMonotone ==
  ASSUME IInv, CoreStep
  PROVE  /\ early \subseteq early'
         /\ overLimit \subseteq overLimit'
         /\ \A r \in Requests : Issued(r) => Issued(r)' /\ req'[r] = req[r]
<1> USE DEF IInv, CoreTypes, Issued
<1>1. CASE UNCHANGED core
  BY <1>1 DEF core
<1>2. CASE ClientStep
  BY <1>2 DEF ClientStep
<1>3. ASSUME NEW r \in Requests,
             \/ HandOverStep(r) \/ RejectStep(r) \/ FileStep(r) \/ DropStep(r)
             \/ \E result \in BOOLEAN : ReportStep(r, result)
      PROVE  /\ early \subseteq early'
             /\ overLimit \subseteq overLimit'
             /\ \A q \in Requests : Issued(q) => Issued(q)' /\ req'[q] = req[q]
  BY <1>3 DEF HandOverStep, RejectStep, FileStep, DropStep, ReportStep
<1> QED
  BY <1>1, <1>2, <1>3 DEF CoreStep

\* A request that lost its entry has lost it for good.
LEMMA LostToStays ==
  ASSUME IInv, CoreStep, NEW r \in Requests, LostTo(r)
  PROVE  LostTo(r)'
BY StepMonotone DEF LostTo, Collide

\* Answers.
LEMMA AnswersStep == IInv /\ CoreStep => AnswersInv'
<1> SUFFICES ASSUME IInv, CoreStep PROVE AnswersInv'
  OBVIOUS
<1> USE DEF IInv, CoreTypes, CorrelationInv, AnswersInv, Issued
<1>1. CASE UNCHANGED core
  BY <1>1 DEF core
<1>2. CASE ClientStep
  <2>1. \A r \in Requests : Issued(r) => req[r].client \in Nat
    BY MqttRequestsAssumption DEF IssuedTyped, Request
  <2> QED
    BY <1>2, <2>1 DEF ClientStep
<1>3. ASSUME NEW r \in Requests, HandOverStep(r) PROVE AnswersInv'
  BY <1>3 DEF HandOverStep
<1>4. ASSUME NEW r \in Requests, RejectStep(r) PROVE AnswersInv'
  BY <1>4 DEF RejectStep
<1>5. ASSUME NEW r \in Requests, FileStep(r) PROVE AnswersInv'
  BY <1>5 DEF FileStep
<1>6. ASSUME NEW r \in Requests, DropStep(r) PROVE AnswersInv'
  BY <1>6 DEF DropStep
<1>7. ASSUME NEW r \in Requests, NEW result \in BOOLEAN, ReportStep(r, result) PROVE AnswersInv'
  BY <1>7 DEF ReportStep, Outstanding
<1> QED
  BY <1>1, <1>2, <1>3, <1>4, <1>5, <1>6, <1>7 DEF CoreStep

\* Tokens: Paho chooses a free one, and a new client has nothing outstanding.
LEMMA TokensStep == IInv /\ CoreStep => TokensInv'
<1> SUFFICES ASSUME IInv, CoreStep PROVE TokensInv'
  OBVIOUS
<1> USE DEF IInv, CoreTypes, CorrelationInv, TokensInv, Outstanding, Issued
<1>1. CASE UNCHANGED core
  BY <1>1 DEF core
<1>2. CASE ClientStep
  <2>1. \A r \in Requests : Issued(r) => req[r].client \in Nat \ {0} /\ req[r].client <= created
    BY MqttRequestsAssumption DEF IssuedTyped, Request, AnswersInv
  <2>2. \A r \in Requests : ~Outstanding(r)'
    BY <1>2, <2>1 DEF ClientStep
  <2> QED
    BY <2>2
<1>3. ASSUME NEW r \in Requests, HandOverStep(r) PROVE TokensInv'
  BY <1>3 DEF HandOverStep, FreeTokens
<1>4. ASSUME NEW r \in Requests, RejectStep(r) PROVE TokensInv'
  BY <1>4 DEF RejectStep
<1>5. ASSUME NEW r \in Requests, FileStep(r) PROVE TokensInv'
  BY <1>5 DEF FileStep
<1>6. ASSUME NEW r \in Requests, DropStep(r) PROVE TokensInv'
  BY <1>6 DEF DropStep
<1>7. ASSUME NEW r \in Requests, NEW result \in BOOLEAN, ReportStep(r, result) PROVE TokensInv'
  BY <1>7 DEF ReportStep
<1> QED
  BY <1>1, <1>2, <1>3, <1>4, <1>5, <1>6, <1>7 DEF CoreStep

\* The entry a request is filed under.
LEMMA FiledTyped ==
  ASSUME CoreTypes, NEW r \in Requests, Issued(r)
  PROVE  /\ req[r].kind \in AllKinds
         /\ req[r].token \in Tokens
         /\ Filed(r) \in Requests \cup {None}
BY DEF CoreTypes, IssuedTyped, Request, Filed

\* Contexts: filed when the call returns, erased by the callback that uses
\* them.
LEMMA ContextsStep == IInv /\ CoreStep => ContextsInv'
<1> SUFFICES ASSUME IInv, CoreStep,
                    NEW k \in AllKinds, NEW tok \in Tokens, contextMap'[k][tok] # None
             PROVE  LET r == contextMap'[k][tok] IN
                    /\ pc'[r] = "returned"
                    /\ req'[r].kind = k
                    /\ req'[r].token = tok
                    /\ calls'[r] = <<>>
                    /\ answer'[r] # "none" => r \in early'
  BY DEF ContextsInv
<1> DEFINE Good(q) == /\ pc[q] = "returned"
                      /\ req[q].kind = k
                      /\ req[q].token = tok
                      /\ calls[q] = <<>>
                      /\ answer[q] # "none" => q \in early
           old == contextMap[k][tok]
<1>0. old # None => old \in Requests /\ Good(old)
  BY DEF IInv, CoreTypes, CorrelationInv, ContextsInv
<1> SUFFICES Good(contextMap[k][tok])'
  OBVIOUS
<1> USE DEF IInv, CoreTypes
<1>1. CASE UNCHANGED core
  BY <1>1, <1>0 DEF core
<1>2. CASE ClientStep
  BY <1>2, <1>0 DEF ClientStep
<1>3. ASSUME NEW r \in Requests, HandOverStep(r) PROVE Good(contextMap[k][tok])'
  BY <1>3, <1>0 DEF HandOverStep
<1>4. ASSUME NEW r \in Requests, RejectStep(r) PROVE Good(contextMap[k][tok])'
  BY <1>4, <1>0 DEF RejectStep
<1>5. ASSUME NEW r \in Requests, FileStep(r) PROVE Good(contextMap[k][tok])'
  <2>1. Issued(r) /\ calls[r] = <<>> /\ (answer[r] # "none" => r \in early)
    BY <1>5 DEF FileStep, CorrelationInv, CallsInv, AnswersInv, Issued
  <2>2. req[r].kind \in AllKinds /\ req[r].token \in Tokens
    BY <2>1, FiledTyped
  <2>3. CASE req[r].kind = k /\ req[r].token = tok
    BY <1>5, <2>1, <2>2, <2>3 DEF FileStep
  <2>4. CASE ~(req[r].kind = k /\ req[r].token = tok)
    <3>1. contextMap'[k][tok] = old
      BY <1>5, <2>2, <2>4 DEF FileStep
    <3> QED
      BY <3>1, <1>5, <1>0 DEF FileStep
  <2> QED
    BY <2>3, <2>4
<1>6. ASSUME NEW r \in Requests, DropStep(r) PROVE Good(contextMap[k][tok])'
  BY <1>6, <1>0 DEF DropStep
<1>7. ASSUME NEW r \in Requests, NEW result \in BOOLEAN, ReportStep(r, result)
      PROVE  Good(contextMap[k][tok])'
  <2>1. Issued(r)
    BY <1>7 DEF ReportStep, Outstanding
  <2>2. /\ req[r].kind \in AllKinds /\ req[r].token \in Tokens
        /\ Filed(r) \in Requests \cup {None}
    BY <2>1, FiledTyped
  <2>3. ~(req[r].kind = k /\ req[r].token = tok) /\ contextMap'[k][tok] = old
    BY <1>7, <2>2 DEF ReportStep
  <2>4. old \in Requests /\ Good(old) /\ old # None
    BY <2>3, <1>0
  <2>5. old # r
    BY <2>3, <2>4
  <2>6. Filed(r) # None => req[Filed(r)].kind = req[r].kind /\ req[Filed(r)].token = req[r].token
    BY <2>2 DEF CorrelationInv, ContextsInv, Filed
  <2>7. Filed(r) # old
    BY <2>3, <2>4, <2>6
  <2>8. calls'[old] = calls[old]
    BY <1>7, <2>2, <2>4, <2>7 DEF ReportStep
  <2>9. pc' = pc /\ req' = req /\ answer'[old] = answer[old] /\ early \subseteq early'
    BY <1>7, <2>4, <2>5 DEF ReportStep
  <2> QED
    BY <2>3, <2>4, <2>8, <2>9
<1> QED
  BY <1>1, <1>2, <1>3, <1>4, <1>5, <1>6, <1>7 DEF CoreStep

\* What a callback does to the histories: it extends the empty history of the
\* request whose context it found, and no other.
LEMMA ReportCalls ==
  ASSUME IInv, NEW r \in Requests, NEW result \in BOOLEAN, ReportStep(r, result),
         NEW h \in Requests
  PROVE  /\ Filed(r) = h => /\ calls[h] = <<>>
                            /\ calls'[h] = <<[by |-> r, result |-> result]>>
                            /\ pc[h] = "returned"
                            /\ req[h].kind = req[r].kind
                            /\ req[h].token = req[r].token
                            /\ answer[h] # "none" => h \in early
         /\ Filed(r) # h => calls'[h] = calls[h]
<1>1. Issued(r)
  BY DEF ReportStep, Outstanding
<1>2. /\ req[r].kind \in AllKinds /\ req[r].token \in Tokens
      /\ Filed(r) \in Requests \cup {None}
  BY <1>1, FiledTyped DEF IInv
<1>3. CASE Filed(r) = h
  <2>1. h # None
    BY MqttRequestsAssumption
  <2>2. /\ calls[h] = <<>> /\ pc[h] = "returned"
        /\ req[h].kind = req[r].kind /\ req[h].token = req[r].token
        /\ answer[h] # "none" => h \in early
    BY <1>2, <1>3, <2>1 DEF IInv, CorrelationInv, ContextsInv, Filed
  <2>3. calls'[h] = Append(calls[h], [by |-> r, result |-> result])
    BY <1>3, <2>1 DEF ReportStep, IInv, CoreTypes
  <2>4. calls'[h] = <<[by |-> r, result |-> result]>>
    BY <2>2, <2>3
  <2> QED
    BY <1>3, <2>2, <2>4
<1>4. CASE Filed(r) # h
  BY <1>2, <1>4 DEF ReportStep, IInv, CoreTypes
<1> QED
  BY <1>3, <1>4

\* Histories: extended only by callbacks, once, and with a foreign answer only
\* if their own came early or went to another client.
LEMMA CallsStep ==
  IInv /\ CoreStep => CallsInv' /\ NeverTwice' /\ MisdeliveryCause'
<1> SUFFICES ASSUME IInv, CoreStep, NEW h \in Requests
             PROVE  /\ calls'[h] # <<>> =>
                         /\ pc'[h] = "returned"
                         /\ \A i \in 1..Len(calls'[h]) : Issued(calls[h][i].by)'
                    /\ Len(calls'[h]) <= 1
                    /\ \A i \in 1..Len(calls'[h]) :
                         calls'[h][i].by # h =>
                           h \in early' \/ req'[h].client # req'[calls'[h][i].by].client
  BY DEF CallsInv, NeverTwice, MisdeliveryCause
<1> DEFINE Sound == /\ calls[h] # <<>> =>
                         /\ pc[h] = "returned"
                         /\ \A i \in 1..Len(calls[h]) : Issued(calls[h][i].by)
                    /\ Len(calls[h]) <= 1
                    /\ \A i \in 1..Len(calls[h]) :
                         calls[h][i].by # h =>
                           h \in early \/ req[h].client # req[calls[h][i].by].client
<1> SUFFICES Sound'
  OBVIOUS
<1>0. Sound /\ calls[h] \in Seq(Call)
  BY DEF IInv, CoreTypes, CorrelationInv, CallsInv, NeverTwice, MisdeliveryCause
<1>1. \A i \in 1..Len(calls[h]) : calls[h][i].by \in Requests
  <2>1. calls[h] \in Seq(Call)
    BY <1>0
  <2>2. \A i \in 1..Len(calls[h]) : calls[h][i] \in Call
    BY <2>1
  <2> QED
    BY <2>2 DEF Call
<1>2. ASSUME calls'[h] = calls[h], pc[h] = "returned" => pc'[h] = "returned" PROVE Sound'
  <2>1. CASE calls[h] = <<>>
    BY <1>2, <2>1
  <2>2. CASE calls[h] # <<>>
    <3>1. Issued(h) /\ req'[h] = req[h]
      BY <2>2, <1>0, StepMonotone DEF Issued
    <3>2. \A i \in 1..Len(calls[h]) :
            Issued(calls[h][i].by)' /\ req'[calls[h][i].by] = req[calls[h][i].by]
      BY <2>2, <1>0, <1>1, <1>2, StepMonotone DEF Issued
    <3>3. early \subseteq early'
      BY StepMonotone
    <3> QED
      BY <1>0, <1>2, <2>2, <3>1, <3>2, <3>3
  <2> QED
    BY <2>1, <2>2
<1>3. ASSUME NEW r \in Requests, NEW result \in BOOLEAN, ReportStep(r, result), Filed(r) = h
      PROVE  Sound'
  <2>1. /\ calls'[h] = <<[by |-> r, result |-> result]>>
        /\ pc[h] = "returned"
        /\ req[h].kind = req[r].kind
        /\ req[h].token = req[r].token
        /\ answer[h] # "none" => h \in early
    BY <1>3, ReportCalls
  <2>2. Outstanding(r) /\ pc' = pc /\ req' = req /\ early \subseteq early'
    BY <1>3 DEF ReportStep
  <2>3. ASSUME r # h, h \notin early PROVE req[h].client # req[r].client
    <3>1. answer[h] = "none" /\ Issued(h)
      BY <2>1, <2>3 DEF IInv, CoreTypes, Issued
    <3>2. ~Outstanding(h)
      BY <2>1, <2>2, <2>3 DEF IInv, CorrelationInv, TokensInv
    <3> QED
      BY <2>2, <3>1, <3>2 DEF Outstanding
  <2>4. Len(calls'[h]) = 1 /\ calls'[h][1].by = r
    BY <2>1
  <2>5. \A i \in 1..Len(calls'[h]) : calls'[h][i].by = r
    BY <2>4
  <2>6. Issued(r)'
    BY <2>2 DEF Outstanding, Issued
  <2>7. \A i \in 1..Len(calls'[h]) : Issued(calls[h][i].by)'
    BY <2>5, <2>6 DEF Issued
  <2> QED
    BY <2>1, <2>2, <2>3, <2>4, <2>5, <2>7
<1>4. ASSUME NEW r \in Requests, NEW result \in BOOLEAN, ReportStep(r, result) PROVE Sound'
  <2>1. CASE Filed(r) = h
    BY <1>4, <2>1, <1>3
  <2>2. CASE Filed(r) # h
    <3>1. calls'[h] = calls[h] /\ pc' = pc
      BY <1>4, <2>2, ReportCalls DEF ReportStep
    <3> HIDE DEF Sound
    <3> QED
      BY <3>1, <1>2
  <2> QED
    BY <2>1, <2>2
<1>5. ASSUME UNCHANGED core \/ ClientStep
             \/ \E r \in Requests : HandOverStep(r) \/ RejectStep(r) \/ FileStep(r) \/ DropStep(r)
      PROVE  Sound'
  <2>1. calls' = calls /\ (pc[h] = "returned" => pc'[h] = "returned")
    BY <1>5 DEF core, ClientStep, HandOverStep, RejectStep, FileStep, DropStep, IInv, CoreTypes
  <2> HIDE DEF Sound
  <2> QED
    BY <2>1, <1>2
<1> HIDE DEF Sound
<1> QED
  BY <1>4, <1>5 DEF CoreStep

\* A waiting request keeps its entry or loses it to a known cause.
LEMMA KeptStep == IInv /\ CoreStep => KeptInv'
<1> SUFFICES ASSUME IInv, CoreStep, NEW r \in Requests,
                    pc'[r] = "returned", Outstanding(r)', r \notin overLimit', ~LostTo(r)'
             PROVE  Filed(r)' = r
  BY DEF KeptInv
<1>0. ~LostTo(r)
  BY LostToStays
<1> USE DEF IInv, CoreTypes
<1>1. CASE UNCHANGED core
  BY <1>0, <1>1 DEF core, CorrelationInv, KeptInv, Outstanding, Issued, Filed
<1>2. CASE ClientStep
  <2>1. Issued(r) /\ req[r] \in Request /\ req[r].client <= created
    BY <1>2 DEF ClientStep, IssuedTyped, CorrelationInv, AnswersInv, Outstanding, Issued
  <2>2. req[r].client \in Nat \ {0}
    BY <2>1, MqttRequestsAssumption DEF Request
  <2> QED
    BY <1>2, <2>1, <2>2 DEF ClientStep, Outstanding
<1>3. ASSUME NEW q \in Requests, HandOverStep(q) \/ RejectStep(q) PROVE Filed(r)' = r
  <2>1. q # r
    BY <1>3 DEF HandOverStep, RejectStep
  <2> QED
    BY <1>0, <1>3, <2>1
    DEF HandOverStep, RejectStep, CorrelationInv, KeptInv, Outstanding, Issued, Filed
<1>4. ASSUME NEW q \in Requests, DropStep(q) PROVE Filed(r)' = r
  <2>1. q # r
    BY <1>4 DEF DropStep
  <2> QED
    BY <1>0, <1>4, <2>1 DEF DropStep, CorrelationInv, KeptInv, Outstanding, Issued, Filed
<1>5. ASSUME NEW q \in Requests, FileStep(q) PROVE Filed(r)' = r
  <2>1. Issued(q) /\ req[q].kind \in AllKinds /\ req[q].token \in Tokens
    BY <1>5, FiledTyped DEF FileStep, Issued
  <2>2. CASE q = r
    BY <1>5, <2>1, <2>2 DEF FileStep, Filed
  <2>3. CASE q # r
    <3>1. pc[r] = "returned" /\ Outstanding(r) /\ r \notin overLimit
      BY <1>5, <2>3 DEF FileStep, Outstanding, Issued
    <3>2. Filed(r) = r
      BY <1>0, <3>1 DEF CorrelationInv, KeptInv
    <3>3. req[r].kind \in AllKinds /\ req[r].token \in Tokens
      BY <3>1, FiledTyped DEF Outstanding
    <3>4. ~(req[q].kind = req[r].kind /\ req[q].token = req[r].token)
      <4> SUFFICES ASSUME req[q].kind = req[r].kind, req[q].token = req[r].token PROVE FALSE
        OBVIOUS
      <4>1. Collide(r, q)
        BY <2>1, <2>3, <3>1 DEF Collide, Outstanding
      <4>2. q \notin early /\ req[q].client = req[r].client
        BY <1>0, <4>1 DEF LostTo
      <4>3. answer[q] = "none"
        BY <1>5, <4>2 DEF FileStep, CorrelationInv, AnswersInv
      <4>4. Outstanding(q)
        BY <2>1, <3>1, <4>2, <4>3 DEF Outstanding
      <4> QED
        BY <2>3, <3>1, <4>4 DEF CorrelationInv, TokensInv
    <3> QED
      BY <1>5, <2>1, <3>2, <3>3, <3>4 DEF FileStep, Filed
  <2> QED
    BY <2>2, <2>3
<1>6. ASSUME NEW q \in Requests, NEW result \in BOOLEAN, ReportStep(q, result)
      PROVE  Filed(r)' = r
  <2>1. q # r
    BY <1>6 DEF ReportStep, Outstanding
  <2>2. pc[r] = "returned" /\ Outstanding(r) /\ r \notin overLimit /\ Outstanding(q)
    BY <1>6, <2>1 DEF ReportStep, Outstanding, Issued
  <2>3. Filed(r) = r
    BY <1>0, <2>2 DEF CorrelationInv, KeptInv
  <2>4. req[q].token # req[r].token
    BY <2>1, <2>2 DEF CorrelationInv, TokensInv
  <2>5. /\ req[r].kind \in AllKinds /\ req[r].token \in Tokens
        /\ req[q].kind \in AllKinds /\ req[q].token \in Tokens
    BY <2>2, FiledTyped DEF Outstanding
  <2> QED
    BY <1>6, <2>3, <2>4, <2>5 DEF ReportStep, Filed
<1> QED
  BY <1>1, <1>2, <1>3, <1>4, <1>5, <1>6 DEF CoreStep

\* Answers that were not reported have one of the known causes.
LEMMA SilentLossStep == IInv /\ CoreStep => SilentLossCause'
<1> DEFINE Told(r) == \E i \in 1..Len(calls[r]) : calls[r][i].by = r
<1> SUFFICES ASSUME IInv, CoreStep, NEW r \in Requests,
                    pc'[r] = "returned", answer'[r] # "none",
                    r \notin early', r \notin overLimit', ~LostTo(r)'
             PROVE  Told(r)'
  BY DEF SilentLossCause
<1>0. ~LostTo(r) /\ r \notin early /\ r \notin overLimit
  BY LostToStays, StepMonotone
<1> USE DEF IInv, CoreTypes
<1>1. pc[r] = "returned" /\ answer[r] # "none" => Told(r)
  BY <1>0 DEF CorrelationInv, SilentLossCause
<1>2. CASE UNCHANGED core \/ ClientStep
  BY <1>1, <1>2 DEF core, ClientStep
<1>3. ASSUME NEW q \in Requests,
             HandOverStep(q) \/ RejectStep(q) \/ FileStep(q) \/ DropStep(q)
      PROVE  Told(r)'
  <2>1. calls' = calls /\ answer' = answer
    BY <1>3 DEF HandOverStep, RejectStep, FileStep, DropStep
  <2>2. pc[r] = "returned"
    <3>1. pc[r] # "calling"
      BY <1>0, <2>1 DEF CorrelationInv, AnswersInv
    <3> QED
      BY <1>3, <3>1 DEF HandOverStep, RejectStep, FileStep, DropStep
  <2> QED
    BY <1>1, <2>1, <2>2
<1>4. ASSUME NEW q \in Requests, NEW result \in BOOLEAN, ReportStep(q, result)
      PROVE  Told(r)'
  <2>1. CASE q = r
    <3>1. pc[r] = "returned" /\ Outstanding(r)
      BY <1>4, <2>1 DEF ReportStep
    <3>2. Filed(r) = r
      BY <1>0, <3>1 DEF CorrelationInv, KeptInv
    <3>3. calls'[r] = <<[by |-> r, result |-> result]>>
      BY <1>4, <2>1, <3>2, ReportCalls
    <3>4. 1 \in 1..Len(calls'[r]) /\ calls'[r][1].by = r
      BY <3>3
    <3> QED
      BY <3>4
  <2>2. CASE q # r
    <3>1. pc[r] = "returned" /\ answer[r] # "none"
      BY <1>4, <2>2 DEF ReportStep
    <3>2. Told(r)
      BY <1>1, <3>1
    <3>3. calls[r] # <<>>
      BY <3>2
    <3>4. calls'[r] = calls[r]
      BY <1>4, <3>3, ReportCalls
    <3> QED
      BY <3>2, <3>4
  <2> QED
    BY <2>1, <2>2
<1> QED
  BY <1>2, <1>3, <1>4 DEF CoreStep

\* CorrelationInv is inductive together with the types.
LEMMA CorrelationStep == TypeInv /\ CorrelationInv /\ [Next]_vars => CorrelationInv'
<1> SUFFICES ASSUME TypeInv, CorrelationInv, [Next]_vars PROVE CorrelationInv'
  OBVIOUS
<1>1. CoreStep
  BY StepShapes DEF TypeInv
<1>2. IInv
  BY MqttRequestsAssumption DEF IInv, CoreTypes, TypeInv, TypeOK
<1> QED
  BY <1>1, <1>2, AnswersStep, TokensStep, ContextsStep, CallsStep, KeptStep, SilentLossStep
  DEF CorrelationInv

\* Whatever Paho's threads and the callers' threads do, and however tokens and
\* clients are reused, the correlation invariant holds.
THEOREM Correlation == Spec => []CorrelationInv
<1>1. Init => TypeInv
  BY MqttRequestsAssumption DEF Init, TypeInv, TypeOK, Handlers, IssuedTyped, Issued
<1>2. Init => CorrelationInv
  <2> SUFFICES ASSUME Init PROVE CorrelationInv
    OBVIOUS
  <2> USE DEF Init
  <2>1. \A r \in Requests : ~Issued(r) /\ calls[r] = <<>> /\ answer[r] = "none"
    BY DEF Issued
  <2>2. AnswersInv /\ TokensInv /\ KeptInv /\ SilentLossCause
    BY <2>1 DEF AnswersInv, TokensInv, KeptInv, SilentLossCause, Outstanding, Issued
  <2>3. ContextsInv
    BY DEF ContextsInv
  <2>4. CallsInv /\ NeverTwice /\ MisdeliveryCause
    BY <2>1 DEF CallsInv, NeverTwice, MisdeliveryCause
  <2> QED
    BY <2>2, <2>3, <2>4 DEF CorrelationInv
<1> QED
  BY <1>1, <1>2, TypeStep, CorrelationStep, PTL DEF Spec

\* No result handler passed to subscribe(), unsubscribe() or publish() is
\* invoked twice.
THEOREM NeverTwiceHolds == Spec => []NeverTwice
<1>1. CorrelationInv => NeverTwice
  BY DEF CorrelationInv
<1> QED
  BY <1>1, Correlation, PTL

\* A handler gets the answer to a foreign request only if its own answer came
\* before its context was filed, or the requests belong to different clients.
THEOREM MisdeliveryCauseHolds == Spec => []MisdeliveryCause
<1>1. CorrelationInv => MisdeliveryCause
  BY DEF CorrelationInv
<1> QED
  BY <1>1, Correlation, PTL

\* An answered request goes unreported only for one of the named causes.
THEOREM SilentLossCauseHolds == Spec => []SilentLossCause
<1>1. CorrelationInv => SilentLossCause
  BY DEF CorrelationInv
<1> QED
  BY <1>1, Correlation, PTL

\* A step that confirms a delivery invokes the onDelivery of the right publish
\* but for the named causes.
LEMMA DeliveryStep ==
  ASSUME TypeInv, CorrelationInv, [Next]_vars, NEW r \in acked' \ acked
  PROVE  /\ (pc[r] = "returned" /\ r \notin overLimit /\ ~LostTo(r)) => r \in deliveries'[r]
         /\ \A q \in Requests \ {r} :
              r \in deliveries'[q] \ deliveries[q] => q \in early \/ req[q].client # req[r].client
<1>1. delivered(r)
  <2>1. CASE \E q \in Requests : delivered(q)
    BY <2>1 DEF delivered
  <2>2. CASE ~ \E q \in Requests : delivered(q)
    BY <2>2 DEF Next, vars, create, destroy, connlost, HandOver, Reject, subscribe, unsubscribe,
                publish, onSubscribe, onSubscribeFailure, onUnsubscribe, onUnsubscribeFailure,
                onSend, onSendFailure, msgarrvd, Report, Answered
  <2> QED
    BY <2>1, <2>2
<1>2. r \in Requests /\ Issued(r) /\ Outstanding(r)
  <2>1. r \in Requests
    BY <1>1, TypeStep DEF TypeInv, TypeOK
  <2> QED
    BY <1>1, <2>1 DEF delivered, Outstanding
<1>3. CoreTypes
  BY MqttRequestsAssumption DEF CoreTypes, TypeInv, TypeOK
<1>4. Filed(r) \in Requests \cup {None}
  BY <1>2, <1>3, FiledTyped
<1>5. deliveries \in [Requests -> SUBSET Requests]
  BY DEF TypeInv, TypeOK
<1>6. (pc[r] = "returned" /\ r \notin overLimit /\ ~LostTo(r)) => r \in deliveries'[r]
  <2> SUFFICES ASSUME pc[r] = "returned", r \notin overLimit, ~LostTo(r)
               PROVE  r \in deliveries'[r]
    OBVIOUS
  <2>1. Filed(r) = r
    BY <1>2 DEF CorrelationInv, KeptInv
  <2>2. r # None
    BY <1>2, MqttRequestsAssumption
  <2> QED
    BY <1>1, <1>2, <1>5, <2>1, <2>2 DEF delivered
<1>7. ASSUME NEW q \in Requests \ {r}, r \in deliveries'[q] \ deliveries[q]
      PROVE  q \in early \/ req[q].client # req[r].client
  <2>1. Filed(r) = q
    BY <1>1, <1>4, <1>5, <1>7 DEF delivered
  <2>2. pc[q] = "returned" /\ req[q].token = req[r].token /\ (answer[q] # "none" => q \in early)
    BY <1>2, <1>3, <2>1, FiledTyped, MqttRequestsAssumption
    DEF CorrelationInv, ContextsInv, Filed
  <2>3. ~Outstanding(q)
    BY <1>2, <2>2 DEF CorrelationInv, TokensInv
  <2> QED
    BY <1>2, <2>2, <2>3 DEF Outstanding, Issued
<1> QED
  BY <1>6, <1>7

\* A confirmed delivery reaches the publish it belongs to, and no other, but
\* for the named causes.
THEOREM DeliveryCauseHolds == Spec => DeliveryCause
<1>1. TypeInv /\ CorrelationInv /\ [Next]_vars =>
        [ \A r \in acked' \ acked :
            /\ (pc[r] = "returned" /\ r \notin overLimit /\ ~LostTo(r)) => r \in deliveries'[r]
            /\ \A q \in Requests \ {r} :
                 r \in deliveries'[q] \ deliveries[q] => q \in early \/ req[q].client # req[r].client ]_vars
  BY DeliveryStep
<1>2. Init => TypeInv
  BY MqttRequestsAssumption DEF Init, TypeInv, TypeOK, Handlers, IssuedTyped, Issued
<1> QED
  BY <1>1, <1>2, TypeStep, Correlation, PTL DEF Spec, DeliveryCause
-----------------------------------------------------------------------------
(* Subscriptions and message handlers.                                     *)

\* Earlier subscribe() and unsubscribe() calls had returned, belong to no later
\* client, and those still unanswered are ahead of this one at the broker.
BeforeInv ==
  /\ m_client \in {0, created}
  /\ \A u \in Requests : Issued(u) =>
       \A p \in req[u].before :
         /\ pc[p] = "returned"
         /\ req[p].kind # "pub"
         /\ req[p].client <= req[u].client
         /\ Outstanding(p) => p \in req[u].ahead

\* A message handler is that of a subscribe() which returned before no other
\* returned call of its topic began.
HandlerInv ==
  \A t \in Filters :
    LET s == m_onMessageHndlMap[t] IN
    s # None =>
      /\ pc[s] = "returned" /\ req[s].topic = t
      /\ \A u \in Requests : pc[u] = "returned" /\ Subscribing(u, t) => s \notin req[u].before

\* A topic without a handler has an unsubscribe() that returned after each
\* subscribe() of the topic, and so began after it unless they overlapped.
NoHandlerInv ==
  \A t \in Filters : m_onMessageHndlMap[t] = None =>
    \A r \in Requests : pc[r] = "returned" /\ req[r].kind = "sub" /\ req[r].topic = t =>
      \E u \in Requests :
        /\ pc[u] = "returned" /\ req[u].kind = "unsub" /\ req[u].topic = t
        /\ u \notin req[r].before

\* Who was served finds all calls before it answered or forgotten.
ServedInv ==
  \A u \in Requests : answer[u] = "success" /\ req[u].kind # "pub" =>
    \A p \in req[u].before : ~Outstanding(p)

\* The broker forwards a topic to the live client for one of its subscribe() calls
\* that no served unsubscribe() of the client came after.
SourceInv ==
  \A t \in brokerSub : \E r \in Requests :
    /\ Issued(r) /\ req[r].kind = "sub" /\ req[r].topic = t
    /\ m_client # 0 /\ req[r].client = m_client
    /\ \A u \in Requests :
         /\ answer[u] = "success" /\ req[u].kind = "unsub" /\ req[u].topic = t
         /\ req[u].client = m_client
         => r \notin req[u].before

TopicInv == BeforeInv /\ HandlerInv /\ NoHandlerInv /\ ServedInv /\ SourceInv

(***************************************************************************)
(* The values the forwarding of messages depends on, and the shapes a step *)
(* can have as far as these are concerned.                                 *)
(***************************************************************************)
topics == <<m_client, created, m_onMessageHndlMap, req, pc, answer, brokerSub>>

CreateTopics ==
  /\ m_client = 0 /\ m_client' = created + 1 /\ created' = created + 1
  /\ UNCHANGED <<m_onMessageHndlMap, req, pc, answer, brokerSub>>

ForgetTopics ==
  /\ m_client' \in {0, m_client}
  /\ brokerSub' = {}
  /\ UNCHANGED <<created, m_onMessageHndlMap, req, pc, answer>>

BeginTopic(r) ==
  /\ pc[r] = "idle"
  /\ m_client # 0
  /\ \E new \in Request :
       /\ new.client = m_client
       /\ new.ahead = {p \in Ordered(new.kind) : Outstanding(p)}
       /\ new.before = {p \in Ordered(new.kind) : pc[p] = "returned"}
       /\ req' = [req EXCEPT ![r] = new]
  /\ pc' = [pc EXCEPT ![r] = "calling"]
  /\ UNCHANGED <<m_client, created, m_onMessageHndlMap, answer, brokerSub>>

RejectTopic(r) ==
  /\ pc[r] = "idle"
  /\ pc' = [pc EXCEPT ![r] = "rejected"]
  /\ UNCHANGED <<m_client, created, m_onMessageHndlMap, req, answer, brokerSub>>

ReturnTopic(r) ==
  /\ pc[r] = "calling"
  /\ pc' = [pc EXCEPT ![r] = "returned"]
  /\ \/ req[r].kind = "sub"
        /\ m_onMessageHndlMap' = [m_onMessageHndlMap EXCEPT ![req[r].topic] = r]
     \/ req[r].kind = "unsub"
        /\ m_onMessageHndlMap' = [m_onMessageHndlMap EXCEPT ![req[r].topic] = None]
     \/ req[r].kind = "pub" /\ UNCHANGED m_onMessageHndlMap
  /\ UNCHANGED <<m_client, created, req, answer, brokerSub>>

AnswerTopic(r) ==
  /\ Outstanding(r)
  /\ \/ /\ answer' = [answer EXCEPT ![r] = "success"]
        /\ \/ req[r].kind = "sub" /\ Served(r) /\ brokerSub' = brokerSub \cup {req[r].topic}
           \/ req[r].kind = "unsub" /\ Served(r) /\ brokerSub' = brokerSub \ {req[r].topic}
           \/ req[r].kind = "pub" /\ UNCHANGED brokerSub
     \/ answer' = [answer EXCEPT ![r] = "failure"] /\ UNCHANGED brokerSub
  /\ UNCHANGED <<m_client, created, m_onMessageHndlMap, req, pc>>

TopicStep ==
  \/ UNCHANGED topics
  \/ CreateTopics
  \/ ForgetTopics
  \/ \E r \in Requests :
       BeginTopic(r) \/ RejectTopic(r) \/ ReturnTopic(r) \/ AnswerTopic(r)

\* Every step has one of the shapes of TopicStep.
LEMMA TopicShapes == TypeInv /\ [Next]_vars => TopicStep
<1> USE DEF service, history
<1> SUFFICES ASSUME TypeInv, [Next]_vars PROVE TopicStep
  OBVIOUS
<1>1. ASSUME create PROVE CreateTopics
  BY <1>1 DEF create, CreateTopics
<1>2. ASSUME destroy \/ connlost PROVE ForgetTopics
  BY <1>2 DEF destroy, connlost, ForgetTopics
<1>3. ASSUME \/ \E t \in Topics : msgarrvd(t)
             \/ \E r \in Requests : delivered(r)
             \/ UNCHANGED vars
      PROVE  UNCHANGED topics
  BY <1>3 DEF msgarrvd, delivered, vars, topics
<1>4. ASSUME NEW r \in Requests, NEW k \in Kinds, NEW t \in Filters, NEW q \in Qos(k),
             HandOver(r, k, t, q)
      PROVE  BeginTopic(r)
  <2>1. PICK tok \in FreeTokens :
          req' = [req EXCEPT ![r] =
                 [kind |-> k, topic |-> t, qos |-> q, token |-> tok, client |-> m_client,
                  ahead |-> {p \in Ordered(k) : Outstanding(p)},
                  before |-> {p \in Ordered(k) : pc[p] = "returned"}]]
    BY <1>4 DEF HandOver
  <2> DEFINE new == [kind |-> k, topic |-> t, qos |-> q, token |-> tok, client |-> m_client,
                  ahead |-> {p \in Ordered(k) : Outstanding(p)},
                  before |-> {p \in Ordered(k) : pc[p] = "returned"}]
  <2>2. /\ Ordered(k) \subseteq Requests
        /\ k \in AllKinds /\ q \in 0..1 /\ tok \in Tokens /\ m_client \in 1..MaxClients
    BY <1>4, MqttRequestsAssumption DEF Ordered, Qos, FreeTokens, HandOver, TypeInv, TypeOK
  <2>3. new \in Request
    BY <2>2 DEF Request
  <2>4. /\ new.client = m_client
        /\ new.ahead = {p \in Ordered(new.kind) : Outstanding(p)}
        /\ new.before = {p \in Ordered(new.kind) : pc[p] = "returned"}
    OBVIOUS
  <2> HIDE DEF new
  <2>5. req' = [req EXCEPT ![r] = new]
    BY <2>1 DEF new
  <2> QED
    BY <1>4, <2>3, <2>4, <2>5 DEF HandOver, BeginTopic
<1>5. ASSUME NEW r \in Requests, Reject(r) PROVE RejectTopic(r)
  BY <1>5 DEF Reject, RejectTopic
<1>6. ASSUME NEW r \in Requests, subscribe(r) \/ unsubscribe(r) \/ publish(r) PROVE ReturnTopic(r)
  BY <1>6 DEF subscribe, unsubscribe, publish, ReturnTopic
<1>7. ASSUME NEW r \in Requests,
             \/ onSubscribe(r) \/ onSubscribeFailure(r) \/ onUnsubscribe(r)
             \/ onUnsubscribeFailure(r) \/ onSend(r) \/ onSendFailure(r)
      PROVE  AnswerTopic(r)
  BY <1>7 DEF onSubscribe, onSubscribeFailure, onUnsubscribe, onUnsubscribeFailure, onSend,
              onSendFailure, Report, Answered, AnswerTopic
<1> QED
  BY <1>1, <1>2, <1>3, <1>4, <1>5, <1>6, <1>7 DEF Next, TopicStep

\* The facts about requests that the steps below start from.
TopicTypes ==
  /\ created \in Nat /\ m_client \in Nat
  /\ m_onMessageHndlMap \in [Filters -> Requests \cup {None}]
  /\ req \in [Requests -> Request \cup {None}]
  /\ pc \in [Requests -> {"idle", "calling", "returned", "rejected"}]
  /\ answer \in [Requests -> {"none", "success", "failure"}]
  /\ brokerSub \subseteq Filters
  /\ \A r \in Requests : Issued(r) =>
       /\ req[r].kind \in AllKinds /\ req[r].topic \in Filters
       /\ req[r].client \in Nat \ {0} /\ req[r].client <= created
       /\ req[r].ahead \subseteq Requests /\ req[r].before \subseteq Requests
  /\ \A r \in Requests : answer[r] # "none" => Issued(r)

\* They follow from the invariants above.
LEMMA TopicTyped == TypeInv /\ AnswersInv => TopicTypes
<1> SUFFICES ASSUME TypeInv, AnswersInv PROVE TopicTypes
  OBVIOUS
<1> USE MqttRequestsAssumption DEF TypeInv, TypeOK, Handlers
<1>1. \A r \in Requests : Issued(r) => req[r] \in Request /\ req[r].client <= created
  BY DEF IssuedTyped, AnswersInv
<1>2. \A r \in Requests : Issued(r) =>
        /\ req[r].kind \in AllKinds /\ req[r].topic \in Filters
        /\ req[r].client \in Nat \ {0}
        /\ req[r].ahead \subseteq Requests /\ req[r].before \subseteq Requests
  BY <1>1 DEF Request
<1> QED
  BY <1>1, <1>2 DEF TopicTypes, AnswersInv

\* What a step never undoes: a request keeps its arguments, its answer and what it
\* is waiting for no longer.
LEMMA TopicMonotone ==
  ASSUME TopicTypes, TopicStep, NEW r \in Requests, Issued(r)
  PROVE  /\ Issued(r)' /\ req'[r] = req[r]
         /\ pc[r] = "returned" => pc'[r] = "returned"
         /\ answer[r] # "none" => answer'[r] = answer[r]
         /\ Outstanding(r)' => Outstanding(r)
<1> USE DEF TopicTypes, Issued, Outstanding
<1>1. CASE UNCHANGED topics
  BY <1>1 DEF topics
<1>2. CASE CreateTopics
  <2>1. req[r].client # created + 1
    OBVIOUS
  <2> QED
    BY <1>2, <2>1 DEF CreateTopics
<1>3. CASE ForgetTopics
  <2>1. req[r].client # 0
    OBVIOUS
  <2> QED
    BY <1>3, <2>1 DEF ForgetTopics
<1>4. ASSUME NEW s \in Requests, BeginTopic(s) \/ RejectTopic(s) \/ ReturnTopic(s)
      PROVE  /\ Issued(r)' /\ req'[r] = req[r]
             /\ pc[r] = "returned" => pc'[r] = "returned"
             /\ UNCHANGED <<answer, m_client>>
  BY <1>4 DEF BeginTopic, RejectTopic, ReturnTopic
<1>5. ASSUME NEW s \in Requests, AnswerTopic(s)
      PROVE  /\ UNCHANGED <<req, pc, m_client>>
             /\ answer[r] # "none" => answer'[r] = answer[r]
  BY <1>5 DEF AnswerTopic
<1> QED
  BY <1>1, <1>2, <1>3, <1>4, <1>5 DEF TopicStep

\* Earlier calls: `before' is what has returned when a call begins.
LEMMA BeforeStep == TopicTypes /\ BeforeInv /\ TopicStep => BeforeInv'
<1> SUFFICES ASSUME TopicTypes, BeforeInv, TopicStep PROVE BeforeInv'
  OBVIOUS
<1>1. (m_client \in {0, created})'
  BY DEF BeforeInv, TopicStep, topics, CreateTopics, ForgetTopics, BeginTopic, RejectTopic,
         ReturnTopic, AnswerTopic
<1>2. ASSUME NEW u \in Requests, Issued(u)', NEW p \in req'[u].before
      PROVE  /\ pc'[p] = "returned"
             /\ req'[p].kind # "pub"
             /\ req'[p].client <= req'[u].client
             /\ Outstanding(p)' => p \in req'[u].ahead
  <2>1. CASE Issued(u)
    <3>1. /\ req'[u] = req[u] /\ p \in Requests
          /\ pc[p] = "returned" /\ req[p].kind # "pub" /\ req[p].client <= req[u].client
          /\ Outstanding(p) => p \in req[u].ahead
      BY <1>2, <2>1, TopicMonotone DEF BeforeInv, TopicTypes
    <3>2. Issued(p)
      BY <3>1 DEF Issued
    <3> QED
      BY <3>1, <3>2, TopicMonotone
  <2>2. CASE ~Issued(u)
    <3>1. BeginTopic(u)
      BY <1>2, <2>2 DEF TopicStep, topics, CreateTopics, ForgetTopics, BeginTopic, RejectTopic,
                        ReturnTopic, AnswerTopic, Issued, TopicTypes
    <3>2. PICK new \in Request :
            /\ new.client = m_client
            /\ new.ahead = {q \in Ordered(new.kind) : Outstanding(q)}
            /\ new.before = {q \in Ordered(new.kind) : pc[q] = "returned"}
            /\ req' = [req EXCEPT ![u] = new]
      BY <3>1 DEF BeginTopic
    <3>3. req'[u] = new
      BY <3>2 DEF TopicTypes
    <3>4. p \in Ordered(new.kind) /\ pc[p] = "returned" /\ p \in Requests
      BY <1>2, <3>2, <3>3 DEF Ordered
    <3>5. req[p].kind # "pub" /\ Issued(p)
      BY <3>4 DEF Ordered
    <3>6. m_client = created /\ req[p].client <= created
      BY <3>1, <3>4, <3>5 DEF BeforeInv, BeginTopic, TopicTypes
    <3> QED
      BY <3>2, <3>3, <3>4, <3>5, <3>6, TopicMonotone
  <2> QED
    BY <2>1, <2>2
<1> QED
  BY <1>1, <1>2 DEF BeforeInv

\* A call that returns now is not among those that had returned when another began.
LEMMA NotBefore ==
  ASSUME BeforeInv, NEW r, pc[r] = "calling", NEW u \in Requests, Issued(u)
  PROVE  r \notin req[u].before
BY DEF BeforeInv

\* Handlers: one is set by the return of the last call of its topic.
LEMMA HandlerStep == TopicTypes /\ BeforeInv /\ HandlerInv /\ TopicStep => HandlerInv'
<1> SUFFICES ASSUME TopicTypes, BeforeInv, HandlerInv, TopicStep,
                    NEW t \in Filters, m_onMessageHndlMap'[t] # None
             PROVE  LET s == m_onMessageHndlMap'[t] IN
                    /\ pc'[s] = "returned" /\ req'[s].topic = t
                    /\ \A u \in Requests :
                         pc'[u] = "returned" /\ Subscribing(u, t)' => s \notin req'[u].before
  BY DEF HandlerInv
<1> DEFINE s == m_onMessageHndlMap'[t]
<1>1. ASSUME m_onMessageHndlMap'[t] = m_onMessageHndlMap[t],
             NEW u \in Requests, pc'[u] = "returned", Subscribing(u, t)', s \in req'[u].before
      PROVE  FALSE
  <2>1. s \in Requests /\ pc[s] = "returned" /\ req[s].topic = t
    BY <1>1 DEF HandlerInv, TopicTypes
  <2>2. CASE pc[u] = "returned"
    <3>1. Issued(u) /\ req'[u] = req[u]
      BY <2>2, TopicMonotone DEF Issued
    <3> QED
      BY <1>1, <2>2, <3>1 DEF HandlerInv, Subscribing
  <2>3. CASE pc[u] # "returned"
    <3>1. ReturnTopic(u)
      BY <1>1, <2>3 DEF TopicStep, topics, CreateTopics, ForgetTopics, BeginTopic, RejectTopic,
                        ReturnTopic, AnswerTopic, TopicTypes
    <3>2. Issued(u) /\ pc[u] = "calling" /\ req' = req /\ req[u].topic = t /\ req[u].kind # "pub"
      BY <1>1, <3>1 DEF ReturnTopic, Issued, Subscribing
    <3>3. m_onMessageHndlMap'[t] \in {u, None}
      BY <3>1, <3>2 DEF ReturnTopic, TopicTypes
    <3> QED
      BY <1>1, <2>1, <2>3, <3>3
  <2> QED
    BY <2>2, <2>3
<1>2. CASE m_onMessageHndlMap'[t] = m_onMessageHndlMap[t]
  <2>1. s \in Requests /\ pc[s] = "returned" /\ req[s].topic = t
    BY <1>2 DEF HandlerInv, TopicTypes
  <2>2. pc'[s] = "returned" /\ req'[s] = req[s]
    BY <2>1, TopicMonotone DEF Issued
  <2> QED
    BY <1>1, <1>2, <2>1, <2>2
<1>3. CASE m_onMessageHndlMap'[t] # m_onMessageHndlMap[t]
  <2>1. PICK r \in Requests : ReturnTopic(r)
    BY <1>3 DEF TopicStep, topics, CreateTopics, ForgetTopics, BeginTopic, RejectTopic,
                AnswerTopic
  <2>2. s = r /\ req[r].topic = t
    BY <1>3, <2>1 DEF ReturnTopic, TopicTypes
  <2>3. pc[r] = "calling" /\ pc'[r] = "returned" /\ req' = req
    BY <2>1 DEF ReturnTopic, TopicTypes
  <2>4. ASSUME NEW u \in Requests, pc'[u] = "returned" PROVE r \notin req'[u].before
    <3>1. Issued(u)
      BY <2>1, <2>4 DEF ReturnTopic, TopicTypes, Issued
    <3> QED
      BY <2>3, <3>1, NotBefore
  <2> QED
    BY <2>2, <2>3, <2>4
<1> QED
  BY <1>2, <1>3

\* Topics without a handler: unsubscribe() comes after all that has returned.
LEMMA NoHandlerStep == TopicTypes /\ BeforeInv /\ NoHandlerInv /\ TopicStep => NoHandlerInv'
<1> SUFFICES ASSUME TopicTypes, BeforeInv, NoHandlerInv, TopicStep,
                    NEW t \in Filters, m_onMessageHndlMap'[t] = None,
                    NEW r \in Requests,
                    pc'[r] = "returned", req'[r].kind = "sub", req'[r].topic = t
             PROVE  \E u \in Requests :
                      /\ pc'[u] = "returned" /\ req'[u].kind = "unsub" /\ req'[u].topic = t
                      /\ u \notin req'[r].before
  BY DEF NoHandlerInv
<1>1. Issued(r) /\ req'[r] = req[r]
  <2>1. Issued(r)
    BY DEF TopicStep, topics, CreateTopics, ForgetTopics, BeginTopic, RejectTopic,
           ReturnTopic, AnswerTopic, TopicTypes, Issued
  <2> QED
    BY <2>1, TopicMonotone
<1>2. CASE m_onMessageHndlMap[t] = None /\ pc[r] = "returned"
  <2>1. PICK u \in Requests :
          /\ pc[u] = "returned" /\ req[u].kind = "unsub" /\ req[u].topic = t
          /\ u \notin req[r].before
    BY <1>1, <1>2 DEF NoHandlerInv
  <2>2. pc'[u] = "returned" /\ req'[u] = req[u]
    BY <2>1, TopicMonotone DEF Issued
  <2> QED
    BY <1>1, <2>1, <2>2
<1>3. CASE pc[r] # "returned"
  <2>1. ReturnTopic(r)
    BY <1>3 DEF TopicStep, topics, CreateTopics, ForgetTopics, BeginTopic, RejectTopic,
                ReturnTopic, AnswerTopic, TopicTypes
  <2>2. m_onMessageHndlMap'[t] = r
    BY <1>1, <2>1 DEF ReturnTopic, TopicTypes
  <2> QED
    BY <2>2, MqttRequestsAssumption
<1>4. CASE m_onMessageHndlMap[t] # None
  <2>1. PICK u \in Requests : ReturnTopic(u)
    BY <1>4 DEF TopicStep, topics, CreateTopics, ForgetTopics, BeginTopic, RejectTopic,
                AnswerTopic
  <2>2. u # None
    BY MqttRequestsAssumption
  <2>3. req[u].kind = "unsub" /\ req[u].topic = t
    BY <1>4, <2>1, <2>2 DEF ReturnTopic, TopicTypes
  <2>4. pc[u] = "calling" /\ pc'[u] = "returned" /\ req' = req
    BY <2>1 DEF ReturnTopic, TopicTypes
  <2> QED
    BY <1>1, <2>3, <2>4, NotBefore
<1> QED
  BY <1>2, <1>3, <1>4

\* The broker serves a call after those that were ahead of it.
LEMMA ServedStep == TopicTypes /\ BeforeInv /\ ServedInv /\ TopicStep => ServedInv'
<1> SUFFICES ASSUME TopicTypes, BeforeInv, ServedInv, TopicStep,
                    NEW u \in Requests, answer'[u] = "success", req'[u].kind # "pub",
                    NEW p \in req'[u].before
             PROVE  ~Outstanding(p)'
  BY DEF ServedInv
<1>1. Issued(u) /\ req'[u] = req[u]
  <2>1. Issued(u)
    BY DEF TopicStep, topics, CreateTopics, ForgetTopics, BeginTopic, RejectTopic,
           ReturnTopic, AnswerTopic, TopicTypes, Outstanding
  <2> QED
    BY <2>1, TopicMonotone
<1>2. p \in Requests /\ Issued(p) /\ (Outstanding(p) => p \in req[u].ahead)
  BY <1>1 DEF BeforeInv, TopicTypes, Issued
<1>3. CASE answer[u] = "success"
  BY <1>1, <1>2, <1>3, TopicMonotone DEF ServedInv
<1>4. CASE answer[u] # "success"
  <2>1. AnswerTopic(u)
    BY <1>4 DEF TopicStep, topics, CreateTopics, ForgetTopics, BeginTopic, RejectTopic,
                ReturnTopic, AnswerTopic, TopicTypes
  <2>2. Served(u)
    BY <1>1, <1>4, <2>1 DEF AnswerTopic, TopicTypes
  <2>3. ~Outstanding(p)
    BY <1>2, <2>2 DEF Served, Outstanding
  <2> QED
    BY <1>2, <2>3, TopicMonotone
<1> QED
  BY <1>3, <1>4

\* Forwarding: a topic is added by a subscribe() that is answered after all
\* served calls it came before, and goes when an unsubscribe() is served.
LEMMA SourceStep ==
  TopicTypes /\ BeforeInv /\ ServedInv /\ SourceInv /\ TopicStep => SourceInv'
<1> DEFINE Source(t, r) ==
      /\ Issued(r) /\ req[r].kind = "sub" /\ req[r].topic = t
      /\ m_client # 0 /\ req[r].client = m_client
      /\ \A u \in Requests :
           /\ answer[u] = "success" /\ req[u].kind = "unsub" /\ req[u].topic = t
           /\ req[u].client = m_client
           => r \notin req[u].before
<1> SUFFICES ASSUME TopicTypes, BeforeInv, ServedInv, SourceInv, TopicStep,
                    NEW t \in brokerSub'
             PROVE  \E r \in Requests : Source(t, r)'
  BY DEF SourceInv
<1>1. CASE t \in brokerSub
  <2>1. PICK r \in Requests : Source(t, r)
    BY <1>1 DEF SourceInv
  <2>2. Issued(r)' /\ req'[r] = req[r]
    BY <2>1, TopicMonotone
  <2>3. m_client' = m_client
    BY <2>1 DEF TopicStep, topics, CreateTopics, ForgetTopics, BeginTopic, RejectTopic,
                ReturnTopic, AnswerTopic
  <2>4. ASSUME NEW u \in Requests,
               answer'[u] = "success", req'[u].kind = "unsub", req'[u].topic = t,
               req'[u].client = m_client'
        PROVE  r \notin req'[u].before
    <3>1. CASE answer[u] = "success"
      <4>1. req'[u] = req[u]
        BY <3>1, TopicMonotone DEF TopicTypes
      <4> QED
        BY <2>1, <2>3, <2>4, <3>1, <4>1
    <3>2. CASE answer[u] # "success"
      <4>1. AnswerTopic(u)
        BY <2>4, <3>2 DEF TopicStep, topics, CreateTopics, ForgetTopics, BeginTopic, RejectTopic,
                          ReturnTopic, AnswerTopic, TopicTypes
      <4>2. t \notin brokerSub'
        BY <2>4, <3>2, <4>1 DEF AnswerTopic, TopicTypes
      <4> QED
        BY <4>2
    <3> QED
      BY <3>1, <3>2
  <2> QED
    BY <2>1, <2>2, <2>3, <2>4
<1>2. CASE t \notin brokerSub
  <2>1. PICK r \in Requests : AnswerTopic(r)
    BY <1>2 DEF TopicStep, topics, CreateTopics, ForgetTopics, BeginTopic, RejectTopic,
                ReturnTopic
  <2>2. req[r].kind = "sub" /\ req[r].topic = t
    BY <1>2, <2>1 DEF AnswerTopic
  <2>3. UNCHANGED <<m_client, req, pc>> /\ Outstanding(r)
    BY <2>1 DEF AnswerTopic
  <2>4. Issued(r)' /\ m_client # 0 /\ req[r].client = m_client
    BY <2>3 DEF Outstanding, Issued, TopicTypes
  <2>5. ASSUME NEW u \in Requests, answer'[u] = "success", req[u].kind = "unsub",
               r \in req[u].before
        PROVE  FALSE
    <3>1. answer[u] = "success"
      BY <2>1, <2>2, <2>5 DEF AnswerTopic, TopicTypes
    <3> QED
      BY <2>3, <2>5, <3>1 DEF ServedInv
  <2> QED
    BY <2>2, <2>3, <2>4, <2>5
<1> QED
  BY <1>1, <1>2

\* TopicInv is inductive together with the types and the answers.
LEMMA TopicInvariance == Spec => [](TypeInv /\ AnswersInv /\ TopicInv)
<1>1. Init => TypeInv
  BY MqttRequestsAssumption DEF Init, TypeInv, TypeOK, Handlers, IssuedTyped, Issued
<1>2. Init => TopicInv
  BY DEF Init, TopicInv, BeforeInv, HandlerInv, NoHandlerInv, ServedInv, SourceInv, Issued
<1>3. TypeInv /\ AnswersInv /\ TopicInv /\ [Next]_vars => TopicInv'
  BY TopicTyped, TopicShapes, BeforeStep, HandlerStep, NoHandlerStep, ServedStep, SourceStep
  DEF TopicInv
<1>4. CorrelationInv => AnswersInv
  BY DEF CorrelationInv
<1> QED
  BY <1>1, <1>2, <1>3, <1>4, TypeStep, Correlation, PTL DEF Spec

\* Messages arrive in no step but msgarrvd.
LEMMA ArrivalsOnly ==
  ASSUME [Next]_vars, received' # received
  PROVE  \E t \in Topics : msgarrvd(t)
BY DEF Next, vars, history, create, destroy, connlost, HandOver, Reject, subscribe,
       unsubscribe, publish, onSubscribe, onSubscribeFailure, onUnsubscribe,
       onUnsubscribeFailure, onSend, onSendFailure, delivered, Report, Answered

\* A message is only given to a handler of which no later call of the topic has
\* returned, so a subscription that was replaced or given up stays silent.
THEOREM RetiredHandlerSilentHolds == Spec => RetiredHandlerSilent
<1> DEFINE Silent ==
      received' # received =>
        LET m == received'[Len(received')] IN
        \A f \in Filters : m.times[f] > 0 =>
          LET s == m.handlers[f] IN
          ~ \E u \in Requests :
              /\ pc[u] = "returned"
              /\ Subscribing(u, req[s].topic)
              /\ s \in req[u].before
<1>1. ASSUME TypeInv, HandlerInv, [Next]_vars, received' # received PROVE Silent
  <2>1. PICK t \in Topics : msgarrvd(t)
    BY <1>1, ArrivalsOnly
  <2> DEFINE m == [topic |-> t, handlers |-> m_onMessageHndlMap,
                   times |-> [f \in Filters |->
                                IF m_onMessageHndlMap[f] = None THEN 0 ELSE Invocations(f, t)]]
  <2>2. received'[Len(received')] = m
    BY <1>1, <2>1 DEF msgarrvd, TypeInv, TypeOK
  <2>3. ASSUME NEW f \in Filters, m.times[f] > 0 PROVE m_onMessageHndlMap[f] # None
    BY <2>3
  <2> QED
    BY <1>1, <2>2, <2>3 DEF HandlerInv
<1>2. TypeInv /\ TopicInv /\ [Next]_vars => [Silent]_vars
  BY <1>1 DEF TopicInv
<1> QED
  BY <1>2, TopicInvariance, PTL DEF Spec, RetiredHandlerSilent

\* Every message so far was given to the handlers the broker would mean, once
\* each, but for the unsupported pairs of filter and topic.
THEOREM HandledExactlyHolds == Spec => []HandledExactly
<1>1. Init => HandledExactly
  BY DEF Init, HandledExactly
<1>2. TypeInv /\ HandledExactly /\ [Next]_vars => HandledExactly'
  <2> SUFFICES ASSUME TypeInv, HandledExactly, [Next]_vars,
                      NEW i \in 1..Len(received'), NEW f \in Filters,
                      received'[i].handlers[f] # None
               PROVE  /\ received'[i].times[f] <= 1
                      /\ ~Unsupported(f, received'[i].topic) =>
                           (received'[i].times[f] = 1 <=> Forwards(f, received'[i].topic))
    BY DEF HandledExactly
  <2>1. CASE received' = received
    BY <2>1 DEF HandledExactly
  <2>2. CASE received' # received
    <3>1. PICK t \in Topics : msgarrvd(t)
      BY <2>2, ArrivalsOnly
    <3> DEFINE m == [topic |-> t, handlers |-> m_onMessageHndlMap,
                     times |-> [g \in Filters |->
                                  IF m_onMessageHndlMap[g] = None THEN 0 ELSE Invocations(g, t)]]
    <3>2. received' = Append(received, m) /\ received \in Seq(Arrival)
      BY <3>1 DEF msgarrvd, TypeInv, TypeOK
    <3>3. CASE i \in 1..Len(received)
      <4>1. received'[i] = received[i]
        BY <3>2, <3>3
      <4> QED
        BY <3>3, <4>1 DEF HandledExactly
    <3>4. CASE i \notin 1..Len(received)
      <4>1. received'[i] = m
        BY <3>2, <3>4
      <4> QED
        BY <4>1, InvocationsOf
    <3> QED
      BY <3>3, <3>4
  <2> QED
    BY <2>1, <2>2
<1>3. Spec => []TypeInv
  BY TopicInvariance, PTL
<1> QED
  BY <1>1, <1>2, <1>3, PTL DEF Spec

\* A topic that the broker forwards has a handler, when nothing about it is under way
\* or has overlapped and no unsubscribe() failed.
THEOREM ForwardedHasHandlerHolds == Spec => []ForwardedHasHandler
<1>1. ASSUME TypeInv, AnswersInv, TopicInv PROVE ForwardedHasHandler
  <2>0. TopicTypes
    BY <1>1, TopicTyped
  <2> SUFFICES ASSUME
        NEW t \in brokerSub, Settled(t),
        m_onMessageHndlMap[t] = None
      PROVE FALSE
    BY DEF ForwardedHasHandler
  <2>1. PICK r \in Requests :
          /\ Issued(r) /\ req[r].kind = "sub" /\ req[r].topic = t
          /\ m_client # 0 /\ req[r].client = m_client
          /\ \A u \in Requests :
               /\ answer[u] = "success" /\ req[u].kind = "unsub" /\ req[u].topic = t
               /\ req[u].client = m_client
               => r \notin req[u].before
    BY <1>1 DEF TopicInv, SourceInv
  <2>2. Subscribing(r, t) /\ pc[r] = "returned"
    BY <2>1 DEF Subscribing, Settled
  <2>3. PICK u \in Requests :
          /\ pc[u] = "returned" /\ req[u].kind = "unsub" /\ req[u].topic = t
          /\ u \notin req[r].before
    BY <1>1, <2>0, <2>1, <2>2 DEF TopicInv, NoHandlerInv, TopicTypes
  <2>4. Subscribing(u, t) /\ Issued(u)
    BY <2>3 DEF Subscribing, Issued
  <2>5. r \in req[u].before
    BY <2>1, <2>2, <2>3, <2>4 DEF Settled, Overlap
  <2>6. req[u].client = m_client
    <3>1. m_client = created /\ req[r].client <= req[u].client
      BY <1>1, <2>1, <2>4, <2>5 DEF TopicInv, BeforeInv
    <3> QED
      BY <2>0, <2>1, <2>4, <3>1 DEF TopicTypes
  <2>7. answer[u] = "success"
    BY <2>0, <2>3, <2>4, <2>6 DEF Settled, Outstanding, TopicTypes
  <2> QED
    BY <2>1, <2>3, <2>5, <2>6, <2>7
<1> QED
  BY <1>1, TopicInvariance, PTL

\* A message reaches the handler of every settled filter that makes the broker
\* forward it, once, unless msgarrvd does not support the filter for its topic.
ForwardedIsHandled ==
  [][ received' # received =>
        LET m == received'[Len(received')] IN
        \A f \in brokerSub :
          Settled(f) /\ Forwards(f, m.topic) /\ ~Unsupported(f, m.topic) => m.times[f] = 1 ]_vars

\* From subscribe() to onMessage: the handler is in the map while the broker
\* forwards, and the tests of msgarrvd find it there.
THEOREM ForwardedIsHandledHolds == Spec => ForwardedIsHandled
<1> DEFINE Reached ==
      received' # received =>
        LET m == received'[Len(received')] IN
        \A f \in brokerSub :
          Settled(f) /\ Forwards(f, m.topic) /\ ~Unsupported(f, m.topic) => m.times[f] = 1
<1>1. ASSUME TypeInv, ForwardedHasHandler, [Next]_vars, received' # received PROVE Reached
  <2>1. PICK t \in Topics : msgarrvd(t)
    BY <1>1, ArrivalsOnly
  <2> DEFINE m == [topic |-> t, handlers |-> m_onMessageHndlMap,
                   times |-> [f \in Filters |->
                                IF m_onMessageHndlMap[f] = None THEN 0 ELSE Invocations(f, t)]]
  <2>2. received'[Len(received')] = m
    BY <1>1, <2>1 DEF msgarrvd, TypeInv, TypeOK
  <2>3. ASSUME NEW f \in brokerSub, Settled(f), Forwards(f, t), ~Unsupported(f, t)
        PROVE  m.times[f] = 1
    <3>1. f \in Filters /\ m_onMessageHndlMap[f] # None
      BY <1>1, <2>3 DEF TypeInv, TypeOK, ForwardedHasHandler
    <3>2. Invocations(f, t) = 1
      BY <2>3, <3>1, InvocationsOf
    <3> QED
      BY <3>1, <3>2
  <2> QED
    BY <2>2, <2>3
<1>2. TypeInv /\ ForwardedHasHandler /\ [Next]_vars => [Reached]_vars
  BY <1>1
<1>3. Spec => []TypeInv
  BY TopicInvariance, PTL
<1> QED
  BY <1>2, <1>3, ForwardedHasHandlerHolds, PTL DEF Spec, ForwardedIsHandled
=============================================================================
