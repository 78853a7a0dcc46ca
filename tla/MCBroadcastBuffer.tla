--------------------------- MODULE MCBroadcastBuffer --------------------------
(* Bounded instances of BroadcastBuffer for TLC. *)
EXTENDS BroadcastBuffer
==============================================================================
