------------------------------ MODULE CommandStream ----------------------------
(***************************************************************************)
(* What a parser takes a seekable demo stream for: a sequence of commands  *)
(* with a place in it, counted in commands.  A header is held until its    *)
(* body is taken or passed over, or until it is put back.  On a sound      *)
(* recording that is all.  On a damaged one the place may be lost, and is  *)
(* then found by a rewind, or by chance, and to ask for the total of ticks *)
(* may lead ahead; on one that was not finished, it may lead anywhere.     *)
(***************************************************************************)
EXTENDS Integers

VARIABLES
  commands,  \* how many there are
  quality,   \* "sound", "damaged" or "unfinished"
  place,     \* how many are behind the stream, or Astray
  held       \* the command whose header is read, or 0

Astray == -1
streamVars == <<commands, quality, place, held>>

Places == 0..commands \cup {Astray}

Init ==
  /\ commands \in Nat /\ quality \in {"sound", "damaged", "unfinished"}
  /\ place = 0 /\ held = 0

ReadHeader ==
  /\ held = 0 /\ place \in 0..commands - 1
  /\ held' = place + 1
  /\ UNCHANGED <<commands, quality, place>>

Consume ==
  /\ held # 0
  /\ place' = held /\ held' = 0
  /\ UNCHANGED <<commands, quality>>

PutBack ==
  /\ held # 0
  /\ held' = 0
  /\ UNCHANGED <<commands, quality, place>>

Rewind ==
  /\ held = 0
  /\ place' = 0
  /\ UNCHANGED <<commands, quality, held>>

GoAstray ==
  /\ quality # "sound"
  /\ place' = Astray /\ held' = 0
  /\ UNCHANGED <<commands, quality>>

\* A search for the last tick that fails stays where it got to.
RunAhead ==
  /\ quality # "sound" /\ held = 0
  /\ place' \in place + 1..commands
  /\ UNCHANGED <<commands, quality, held>>

\* Bytes in the middle of a command, or a file info that is not there.
Wander ==
  /\ held = 0 /\ (place = Astray \/ quality = "unfinished")
  /\ place' \in Places
  /\ UNCHANGED <<commands, quality, held>>

Next == ReadHeader \/ Consume \/ PutBack \/ Rewind \/ GoAstray \/ RunAhead \/ Wander

Spec == Init /\ [][Next]_streamVars
==============================================================================
