---------------------------- MODULE BroadcastFeed ----------------------------
(***************************************************************************)
(* What a caller of BroadcastHttp::next_packet is promised, whatever the   *)
(* relay does: the signup packet, then the full frame of the fragment that *)
(* /sync named, then the delta frames from that same fragment on, one      *)
(* after the other, none skipped and none twice, until the stream stops;   *)
(* a stopped stream stays stopped.                                         *)
(***************************************************************************)
EXTENDS Integers, Sequences

CONSTANTS
  SyncFragments,    \* the fragments that /sync may name
  SignupFragment    \* the fragment of the signup packet

VARIABLES
  opened,           \* start_streaming has returned a stream
  first,            \* the fragment /sync named, once opened
  packets,          \* the packets returned so far, oldest first
  stopped           \* the stream has stopped for good

feedVars == <<opened, first, packets, stopped>>

StartPacket       == [kind |-> "start", fragment |-> SignupFragment]
FullPacket(f)     == [kind |-> "full",  fragment |-> f]
DeltaPacket(f)    == [kind |-> "delta", fragment |-> f]

\* The n-th packet of a stream whose /sync named fragment f.
PacketAt(f, n) ==
  IF n = 1 THEN StartPacket
  ELSE IF n = 2 THEN FullPacket(f)
  ELSE DeltaPacket(f + n - 3)

Init == 
  /\ opened  = FALSE
  /\ first   = -1
  /\ packets = <<>>
  /\ stopped = FALSE

Open == 
  /\ ~opened
  /\ opened' = TRUE
  /\ first' \in SyncFragments
  /\ UNCHANGED <<packets, stopped>>

Deliver ==
  /\ opened /\ ~stopped
  /\ packets' = Append(packets, PacketAt(first, Len(packets) + 1))
  /\ UNCHANGED <<opened, first, stopped>>

Stop ==
  /\ opened /\ ~stopped
  /\ stopped' = TRUE
  /\ UNCHANGED <<opened, first, packets>>

Next == Open \/ Deliver \/ Stop

Spec == Init /\ [][Next]_feedVars
==============================================================================
