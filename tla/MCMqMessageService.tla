------------------------- MODULE MCMqMessageService -------------------------
EXTENDS MqMessageService, TLC

\* Descriptor numbers are interchangeable.
Symmetry == Permutations(Descriptors)
=============================================================================
