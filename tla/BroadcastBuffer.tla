---------------------------- MODULE BroadcastBuffer ---------------------------
(***************************************************************************)
(* BroadcastHttp as a DemoStream: the stream_buffer that next_packet fills *)
(* and that a parser reads, skips and seeks in.                            *)
(*                                                                         *)
(* The commands of a broadcast are numbered, and the number stands for the *)
(* command's tick.  A command is two units of the buffer, header and body; *)
(* a position counts units, and is at a command boundary when it is even.  *)
(* What a packet is and when it comes is BroadcastHttp's matter; packets   *)
(* are whole commands, some of a kind that the client does not know.  A    *)
(* host whose call failed at one goes on by a seek, if at all.             *)
(***************************************************************************)
EXTENDS Integers, Sequences

CONSTANTS
  PacketSizes,    \* the numbers of commands a packet may hold
  AppendOnly,     \* whether the host polls only with the stream at its end
  AskAhead,       \* whether the host asks for total_ticks only with commands ahead
  Unknown,        \* the commands whose kind is not known
  MaxReceived     \* bound: commands received

ASSUME BufferAssumption ==
  /\ AppendOnly \in BOOLEAN /\ AskAhead \in BOOLEAN
  /\ Unknown \subseteq Nat
  /\ PacketSizes \subseteq Nat \ {0}
  /\ MaxReceived \in Nat

VARIABLES
  seekable,       \* the StreamBuffer is a Seekable, of start_streaming_and_buffer, else a Last
  stream_buffer,  \* what is buffered: all packets, or the last one
  position,       \* of the Cursor, or of the Reader
  total_ticks,    \* the cached last tick, or None
  cmd_header,     \* the header that is read and whose body is not, or None; Astray
                  \* within a header that failed
  received,       \* history: the number of commands received
  due             \* history: the command that comes next where the host has left off, or
                  \* behind the packet that was appended

bufferVars == <<seekable, stream_buffer, position, total_ticks, cmd_header, received, due>>

None   == -2
Astray == -3

Unit == [part : {"header", "body"}, cmd : 1..MaxReceived]
Header(n) == [part |-> "header", cmd |-> n]
Body(n)   == [part |-> "body", cmd |-> n]

\* The units of the commands after `from` up to `to`.
Units(from, to) ==
  [u \in 1..(2 * (to - from)) |-> IF u % 2 = 1 THEN Header(from + (u + 1) \div 2)
                                  ELSE Body(from + u \div 2)]

BufferInit ==
  /\ seekable \in BOOLEAN
  /\ stream_buffer = <<>>
  /\ position = 0
  /\ total_ticks = None
  /\ cmd_header = None
  /\ received = 0
  /\ due = 1

is_at_eof == position >= Len(stream_buffer)
InHand    == cmd_header \notin {None, Astray}

------------------------------------------------------------------------------
(* next_packet answers with a packet of k commands.                        *)

\* Cursor::write_all: over what is at the position, beyond the end if need be.
WriteAll(units) ==
  /\ stream_buffer' = SubSeq(stream_buffer, 1, position) \o units
                        \o SubSeq(stream_buffer, position + Len(units) + 1, Len(stream_buffer))
  /\ position' = position + Len(units)

\* Mutant of Replace: the old position is kept.
ReplaceInPlace(units) ==
  /\ stream_buffer' = units
  /\ UNCHANGED position

Replace(units) ==
  /\ stream_buffer' = units
  /\ position' = 0

\* Mutant of BufferNextPacket: the buffer is kept for the last packet only.
BufferNextPacketReplaces(k) ==
  /\ cmd_header = None /\ received + k <= MaxReceived
  /\ AppendOnly => is_at_eof
  /\ Replace(Units(received, received + k)) /\ total_ticks' = None
  /\ received' = received + k
  /\ UNCHANGED <<seekable, cmd_header, due>>

\* Mutant of BufferNextPacket: the cached last tick is kept.
BufferNextPacketKeepsTicks(k) ==
  /\ cmd_header = None /\ received + k <= MaxReceived
  /\ AppendOnly => is_at_eof
  /\ WriteAll(Units(received, received + k))
  /\ received' = received + k /\ due' = received + k + 1
  /\ UNCHANGED <<seekable, cmd_header, total_ticks>>

BufferNextPacket(k) ==
  /\ cmd_header = None /\ received + k <= MaxReceived
  /\ AppendOnly => is_at_eof
  /\ IF seekable THEN /\ WriteAll(Units(received, received + k)) /\ total_ticks' = None
                      /\ due' = received + k + 1
     ELSE Replace(Units(received, received + k)) /\ UNCHANGED <<total_ticks, due>>
  /\ received' = received + k
  /\ UNCHANGED <<seekable, cmd_header>>

------------------------------------------------------------------------------
(* The stream operations.                                                  *)

\* At the end of the buffer read_cmd_header fails and changes nothing; a kind that is
\* not known is an error behind the first byte.
read_cmd_header ==
  /\ cmd_header = None /\ ~is_at_eof
  /\ LET cmd == stream_buffer[position + 1].cmd
     IN cmd_header' = IF cmd \in Unknown THEN Astray ELSE cmd
  /\ position' = position + 1
  /\ UNCHANGED <<seekable, stream_buffer, total_ticks, received, due>>

\* Mutant of read_cmd: the body is not consumed.
PeekCmd ==
  /\ InHand /\ ~is_at_eof
  /\ cmd_header' = None
  /\ due' = due + 1
  /\ UNCHANGED <<seekable, stream_buffer, position, total_ticks, received>>

\* read_cmd and skip_cmd leave the stream in the same place.
read_cmd ==
  /\ InHand /\ ~is_at_eof
  /\ position' = position + 1
  /\ cmd_header' = None
  /\ due' = due + 1
  /\ UNCHANGED <<seekable, stream_buffer, total_ticks, received>>

\* Mutant of unread_cmd_header: the stream is not moved back.
ForgetCmdHeader ==
  /\ seekable /\ InHand
  /\ cmd_header' = None
  /\ UNCHANGED <<seekable, stream_buffer, position, total_ticks, received, due>>

unread_cmd_header ==
  /\ seekable /\ InHand
  /\ position' = position - 1
  /\ cmd_header' = None
  /\ UNCHANGED <<seekable, stream_buffer, total_ticks, received, due>>

\* The host seeks to a command boundary.
seek ==
  /\ seekable /\ ~InHand
  /\ \E n \in 0..(Len(stream_buffer) \div 2) : position' = 2 * n /\ due' = n + 1
  /\ cmd_header' = None
  /\ UNCHANGED <<seekable, stream_buffer, total_ticks, received>>

\* scan_for_last_tick: on from the position, over headers and bodies, to the end.
Headers(from) == {u \in from + 1..Len(stream_buffer) : stream_buffer[u].part = "header"}
UnknownAhead  == {u \in Headers(position) : stream_buffer[u].cmd \in Unknown}
ScanForLastTick ==
  IF Headers(position) = {} THEN -1
  ELSE stream_buffer[CHOOSE u \in Headers(position) : \A v \in Headers(position) : v <= u].cmd

\* Mutant of ScanEnds: the scan does not go back.
ScanStaysAtEnd ==
  /\ UnknownAhead = {}
  /\ total_ticks' = ScanForLastTick
  /\ position' = Len(stream_buffer)
  /\ UNCHANGED cmd_header

\* At the end the scan goes back to where it began.
ScanEnds ==
  /\ UnknownAhead = {}
  /\ total_ticks' = ScanForLastTick
  /\ UNCHANGED <<position, cmd_header>>

\* A header that it does not know ends it too, and it stays there.
ScanFails ==
  /\ position' \in UnknownAhead /\ \A u \in UnknownAhead : position' <= u
  /\ cmd_header' = Astray
  /\ UNCHANGED total_ticks

AskTotalTicks ==
  /\ seekable /\ cmd_header = None
  /\ AskAhead => ~is_at_eof \/ received = 0
  /\ IF total_ticks = None THEN ScanEnds \/ ScanFails
     ELSE UNCHANGED <<position, cmd_header, total_ticks>>
  /\ UNCHANGED <<seekable, stream_buffer, received, due>>

BufferNext ==
  \/ \E k \in PacketSizes : BufferNextPacket(k)
  \/ read_cmd_header
  \/ read_cmd
  \/ unread_cmd_header
  \/ seek
  \/ AskTotalTicks

BufferSpec == BufferInit /\ [][BufferNext]_bufferVars

------------------------------------------------------------------------------
(* Properties.                                                             *)

\* The position is in the buffer, and inside a command exactly when its header was
\* tried and its body is not read.
BufferTypeOK ==
  /\ seekable \in BOOLEAN
  /\ stream_buffer \in Seq(Unit)
  /\ position \in 0..Len(stream_buffer)
  /\ total_ticks \in {None, -1} \cup 1..MaxReceived
  /\ cmd_header \in {None, Astray} \cup 1..MaxReceived
  /\ received \in 0..MaxReceived /\ due \in 1..received + 1
  /\ position % 2 = IF cmd_header = None THEN 0 ELSE 1

\* "buffer all packets": the buffer of start_streaming_and_buffer is all that
\* was received, in order.
BufferKeepsAll == seekable => stream_buffer = Units(0, received)

\* A body is read for the header that announces it, wherever the stream was
\* moved and whatever was written in between.
BodyFollowsHeader ==
  InHand => ~is_at_eof /\ stream_buffer[position + 1] = Body(cmd_header)

\* A host gets the commands in order and once each, from the start or from where it
\* sought last, whatever packets replaced the one before, headers were unread and last
\* ticks asked for in between: what is at the position is the command due, and nothing
\* only where all were read.  (Behind an appended packet it reads on after a seek.)
NothingSkipped ==
  /\ InHand => cmd_header = due
  /\ cmd_header = None => IF is_at_eof THEN due = received + 1
                          ELSE stream_buffer[position + 1] = Header(due)

\* "invalidate last tick so that it can be re-scanned": a cached last tick is the tick
\* of the last command received, -1 before there is one, wherever it was asked for with
\* commands ahead.
TotalTicksIsLast ==
  total_ticks # None => total_ticks = IF received = 0 THEN -1 ELSE received
==============================================================================
