--------------------------- MODULE MqttTopicMatch ---------------------------
(***************************************************************************)
(* How msgarrvd() finds the handlers of a message: it walks over           *)
(* m_onMessageHndlMap and invokes a handler when the filter it was         *)
(* subscribed with equals the topic, ends in # and agrees with the topic   *)
(* up to there, or contains a + and agrees with the topic level by level   *)
(* (src/MqttService/MqttService.cpp, src/include/mqtt_utils.h).  The state *)
(* machine that uses these definitions is MqttRequests.                    *)
(*                                                                         *)
(* A topic is the sequence of its levels, which is what tokenizeTopic()    *)
(* returns.  The # branch compares characters; in a filter a broker        *)
(* accepts the # is a level of its own, so the characters before it end    *)
(* with a separator and agree exactly when the levels before it do and the *)
(* topic has a further level.                                              *)
(***************************************************************************)
EXTENDS Naturals, Sequences, FiniteSets

CONSTANTS
  Names,      \* level names
  Reserved,   \* those that begin with $
  Wildcards,  \* the wildcards callers use in filters
  MaxLevels   \* bound: levels of a topic or filter

ASSUME MqttTopicMatchAssumption ==
  /\ "+" \notin Names
  /\ "#" \notin Names
  /\ Reserved \subseteq Names
  /\ Wildcards \subseteq {"+", "#"}
  /\ MaxLevels \in Nat \ {0}

Levels(S) == UNION {[1..n -> S] : n \in 1..MaxLevels}

\* The topics of messages.
Topics == Levels(Names)

\* The filters MQTT allows: # only as the last level.
Filters == {f \in Levels(Names \cup Wildcards) : \A i \in 1..Len(f) - 1 : f[i] # "#"}

HasHash(f) == f[Len(f)] = "#"
HasPlus(f) == \E i \in 1..Len(f) : f[i] = "+"

-----------------------------------------------------------------------------
(* The three tests of msgarrvd.                                            *)

ExactMatch(f, t) == f = t

HashMatch(f, t) ==
  /\ HasHash(f)
  /\ Len(t) >= Len(f)
  /\ \A i \in 1..Len(f) - 1 : f[i] = t[i]

\* Mutant: a topic with more levels than the filter agrees, too.
PlusMatch_Prefix(f, t) ==
  /\ HasPlus(f)
  /\ Len(t) >= Len(f)
  /\ \A i \in 1..Len(f) : f[i] = "+" \/ f[i] = t[i]

PlusMatch(f, t) ==
  /\ HasPlus(f)
  /\ Len(t) = Len(f)
  /\ \A i \in 1..Len(f) : f[i] = "+" \/ f[i] = t[i]

\* Each test that succeeds invokes the handler.
Invocations(f, t) ==
  Cardinality({b \in {"exact", "hash", "plus"} :
                 \/ b = "exact" /\ ExactMatch(f, t)
                 \/ b = "hash" /\ HashMatch(f, t)
                 \/ b = "plus" /\ PlusMatch(f, t)})

-----------------------------------------------------------------------------
(* What the broker does with a filter.                                     *)

\* Topics that begin with $ are out of reach of filters that begin with a wildcard.
OutOfReach(f, t) == f[1] \in {"+", "#"} /\ t[1] \in Reserved

\* When the broker forwards a message on topic t to a subscriber of f: # also
\* stands for the parent level, and + for one level anywhere in the filter.
Forwards(f, t) ==
  LET n == IF HasHash(f) THEN Len(f) - 1 ELSE Len(f) IN
  /\ ~OutOfReach(f, t)
  /\ IF HasHash(f) THEN Len(t) >= n ELSE Len(t) = n
  /\ \A i \in 1..n : f[i] = "+" \/ f[i] = t[i]

\* Where msgarrvd and the broker disagree: on # together with +, on the parent
\* level of a #, and on topics that begin with $, for which msgarrvd has no rule.
Unsupported(f, t) ==
  \/ HasHash(f) /\ (HasPlus(f) \/ Len(t) < Len(f))
  \/ OutOfReach(f, t)
=============================================================================
