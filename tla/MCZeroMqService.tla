-------------------------- MODULE MCZeroMqService ---------------------------
(* Model-checking instance of ZeroMqService.                               *)
EXTENDS ZeroMqService
=============================================================================
