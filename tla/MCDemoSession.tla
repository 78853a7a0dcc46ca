----------------------------- MODULE MCDemoSession ----------------------------
(***************************************************************************)
(* Bounded instances of DemoSession: full packets are at most three ticks  *)
(* apart (an interval of one, twice the default tick rate, a slack of      *)
(* one), so that six body commands hold seeks over no, one and several     *)
(* full packets.                                                           *)
(***************************************************************************)
EXTENDS DemoSession
==============================================================================
