--------------------------- MODULE MCBroadcastHttp ---------------------------
(***************************************************************************)
(* A broadcast of four fragments joined at one of the first two, with two  *)
(* forgiven 404s, two transient retries and two dropped calls.             *)
(***************************************************************************)
EXTENDS BroadcastHttp
==============================================================================
