------------------------------ MODULE PacketSource -----------------------------
(***************************************************************************)
(* The other end of a stream that is read while it arrives: a sender puts  *)
(* byte chunks in a bounded channel and in the end drops it.               *)
(* haste_core::packet_source takes whole chunks with recv, which gives     *)
(* None once the channel is empty and its sender is gone; a tokio          *)
(* AsyncRead (external) takes bytes, and reads none at the end.            *)
(*                                                                         *)
(* What the chunks are cut from is a recording: commands of a header and a *)
(* body.  A byte is a record that says whose byte it is, so a stream that  *)
(* joins, copies or skips bytes wrongly ends up with the wrong records.    *)
(***************************************************************************)
EXTENDS Integers, Sequences, SequencesExt

CONSTANTS
  Streams,                    \* the implementors of AsyncDemoStream that are looked at
  Capacity,                   \* of the mpsc channel
  DEMO_HEADER_SIZE,           \* bytes of a demo file before the first command
  VarintHeaders,              \* sizes a command header of a demo file may have
  BROADCAST_CMD_HEADER_SIZE,  \* size of every command header of a broadcast
  EmptyPackets,               \* whether a response body of a broadcast may be empty
  BodySizes,                  \* bound: sizes of command bodies
  MaxCommands                 \* bound: commands of a recording

ASSUME PacketAssumption ==
  /\ Streams \subseteq {"PacketChannelDemoStream", "PacketChannelBroadcastStream",
                        "AsyncDemoFile", "AsyncBroadcastStream"}
  /\ Capacity \in Nat \ {0} /\ MaxCommands \in Nat
  /\ DEMO_HEADER_SIZE \in Nat \ {0} /\ BROADCAST_CMD_HEADER_SIZE \in Nat \ {0}
  /\ VarintHeaders \subseteq Nat \ {0} /\ BodySizes \subseteq Nat
  /\ EmptyPackets \in BOOLEAN

VARIABLES
  stream,      \* which implementor reads
  recording,   \* the commands that are sent: [header, body] sizes
  unsent,      \* the bytes of it that the sender still has
  channel,     \* chunks sent and not received
  closed       \* the sender is gone

DemoFormat == stream \in {"PacketChannelDemoStream", "AsyncDemoFile"}
OverAsyncRead == stream \in {"AsyncDemoFile", "AsyncBroadcastStream"}

Part(i, part, size) == [k \in 1..size |-> [of |-> i, part |-> part, at |-> k]]
Header(i) == Part(i, "header", recording[i].header)
Body(i) == Part(i, "body", recording[i].body)
Commands(from, to) == FlattenSeq([k \in 1..(to - from) |-> Header(from + k) \o Body(from + k)])
FileHeader == IF DemoFormat THEN Part(0, "file", DEMO_HEADER_SIZE) ELSE <<>>

StartsHeader(byte) == byte.part = "header" /\ byte.at = 1

Recordings ==
  BoundedSeq([header : IF DemoFormat THEN VarintHeaders ELSE {BROADCAST_CMD_HEADER_SIZE},
              body   : BodySizes], MaxCommands)

\* n bytes leave the sender as one chunk.  Chunks of a demo file are cut
\* anywhere, a response body has whole commands, and a read of no bytes is the end.
Send(n) ==
  /\ ~closed /\ Len(channel) < Capacity
  /\ n = 0 => ~OverAsyncRead /\ (DemoFormat \/ EmptyPackets)
  /\ stream = "PacketChannelBroadcastStream" /\ n < Len(unsent) => StartsHeader(unsent[n + 1])
  /\ channel' = Append(channel, SubSeq(unsent, 1, n))
  /\ unsent' = SubSeq(unsent, n + 1, Len(unsent))
  /\ UNCHANGED <<stream, recording, closed>>

\* The sender may stop wherever it is.
Close == /\ ~closed
         /\ closed' = TRUE
         /\ UNCHANGED <<stream, recording, unsent, channel>>

\* recv, when it is ready: Some(Head(channel)), or None.
RecvSome == channel # <<>> /\ channel' = Tail(channel) /\ UNCHANGED <<stream, recording, unsent, closed>>
RecvNone == channel = <<>> /\ closed /\ UNCHANGED <<stream, recording, unsent, channel, closed>>

\* AsyncRead::poll_read with room for n bytes, when it is ready: at most one chunk of them.
PollRead(n) ==
  /\ channel # <<>>
  /\ channel' = IF n < Len(Head(channel))
                THEN <<SubSeq(Head(channel), n + 1, Len(Head(channel)))>> \o Tail(channel)
                ELSE Tail(channel)
  /\ UNCHANGED <<stream, recording, unsent, closed>>

sourceVars == <<stream, recording, unsent, channel, closed>>
==============================================================================
