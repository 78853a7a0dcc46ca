--------------------- MODULE PacketChannelBroadcastStream ----------------------
(***************************************************************************)
(* haste_core::packet_channel_broadcast_stream under run_internal:         *)
(* response bodies of a broadcast, of whole commands each, read one after  *)
(* the other.  Unlike the demo stream it never joins two packets, and it   *)
(* waits for nothing between a header and its body.                        *)
(***************************************************************************)
EXTENDS AsyncRun

HasBytes(buffer, at, n) == at + n <= Len(buffer)

\* From read_cmd_header's second check on.
ReadHeaderAt(buffer, at) ==
  IF HasBytes(buffer, at, BROADCAST_CMD_HEADER_SIZE)
  THEN GotHeader(buffer[at + 1]) /\ offset' = at + BROADCAST_CMD_HEADER_SIZE
  ELSE Returns(OnHeaderError("IoError(UnexpectedEof)")) /\ offset' = at

Exhausted == offset >= Len(current)

\* Mutant of StartOf: the offset is not reset.
StartWhereLeft(packet) == offset

StartOf(packet) == 0

EnsuringData == pc = "header" /\ Exhausted

\* ensure_data takes the next packet, and the header is read from it at once.
NextPacket ==
  /\ EnsuringData
  /\ RecvSome
  /\ current' = Head(channel)
  /\ ReadHeaderAt(Head(channel), StartOf(Head(channel)))

SourceExhausted ==
  /\ EnsuringData
  /\ RecvNone
  /\ Returns(OnHeaderError("IoError(UnexpectedEof)"))
  /\ UNCHANGED <<current, offset>>

NextHeader ==
  /\ pc = "header" /\ ~Exhausted
  /\ ReadHeaderAt(current, offset)
  /\ UNCHANGED <<current, sourceVars>>

ReadBody ==
  /\ pc = "body"
  /\ LET size == recording[cmd].body
     IN IF HasBytes(current, offset, size)
        THEN /\ GotBody(SubSeq(current, offset + 1, offset + size))
             /\ offset' = offset + size
        ELSE Returns(OnBodyError("IoError(UnexpectedEof)")) /\ UNCHANGED offset
  /\ UNCHANGED <<current, sourceVars>>

ReadsBroadcastPackets ==
  /\ stream = "PacketChannelBroadcastStream"
  /\ NextPacket \/ SourceExhausted \/ NextHeader \/ ReadBody
  /\ UNCHANGED header_skipped
==============================================================================
