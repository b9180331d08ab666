--------------------------- MODULE MCMqttConnection ---------------------------
EXTENDS MqttConnection, TLC

\* Callers are interchangeable.
Symmetry == Permutations(Threads)
=============================================================================
