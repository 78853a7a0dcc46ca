----------------------------- MODULE MCAsyncStreams ----------------------------
(***************************************************************************)
(* Small numbers for the sizes: a file header of four bytes, headers of    *)
(* one or three in a demo file and of two in a broadcast, a wait for three *)
(* where the code waits for fifteen.                                       *)
(***************************************************************************)
EXTENDS AsyncStreams
==============================================================================
