--------------------------- MODULE MCMqttRequests ---------------------------
(* Model-checking instance of MqttRequests.                                *)
EXTENDS MqttRequests, TLC

\* Requests, ordinary level names and tokens are interchangeable.
Symmetry ==
  Permutations(Requests) \cup Permutations(Names \ Reserved) \cup Permutations(Tokens)
=============================================================================
