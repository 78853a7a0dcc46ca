------------------------ MODULE PacketChannelDemoStream ------------------------
(***************************************************************************)
(* haste_core::packet_channel_demo_stream under run_internal: a demo file  *)
(* that arrives in chunks cut anywhere.                                    *)
(***************************************************************************)
EXTENDS AsyncRun

CONSTANT MAX_HEADER   \* the literal 15 of read_cmd_header: three varints of five bytes

ASSUME DemoStreamAssumption ==
  MAX_HEADER \in Nat \ {0} /\ \A s \in VarintHeaders : s <= MAX_HEADER

\* Mutant of Wanted: with a body, the next header is waited for.
WantedWithNext == IF header_skipped THEN MAX_HEADER + IF cmd = 0 THEN 0 ELSE recording[cmd].body
                  ELSE DEMO_HEADER_SIZE

\* What ensure_bytes is waiting for.
Wanted == IF pc = "body" THEN recording[cmd].body
          ELSE IF header_skipped THEN MAX_HEADER ELSE DEMO_HEADER_SIZE

\* Mutant of AppendChunk: the unread rest is not kept.
ReplaceByChunk(chunk) == chunk

\* The bytes not yet read, moved to the start, and then the chunk.
AppendChunk(chunk) == SubSeq(current, offset + 1, Len(current)) \o chunk

EnsuringBytes == pc # "done" /\ remaining < Wanted

\* ensure_bytes goes round its loop.
EnsureRecv ==
  /\ EnsuringBytes
  /\ RecvSome
  /\ current' = AppendChunk(Head(channel))
  /\ offset' = 0
  /\ UNCHANGED <<header_skipped, parserVars>>

EnsureExhausted ==
  /\ EnsuringBytes
  /\ RecvNone
  /\ Returns(IF pc = "body" THEN OnBodyError("IoError(UnexpectedEof)")
             ELSE OnHeaderError("IoError(UnexpectedEof)"))
  /\ UNCHANGED streamVars

skip_header_if_needed ==
  /\ pc = "header" /\ ~header_skipped /\ remaining >= Wanted
  /\ offset' = offset + DEMO_HEADER_SIZE
  /\ header_skipped' = TRUE
  /\ UNCHANGED <<sourceVars, current, parserVars>>

read_cmd_header ==
  /\ pc = "header" /\ header_skipped /\ remaining >= Wanted
  /\ LET first == current[offset + 1]
     IN /\ GotHeader(first)
        /\ offset' = offset + IF StartsHeader(first) THEN recording[first.of].header ELSE 1
  /\ UNCHANGED <<sourceVars, current, header_skipped>>

\* Mutant of BodyEnd: the body is taken to begin at the buffer's start.
BodyEndFromStart(size) == IF size > offset THEN size ELSE offset

BodyEnd(size) == offset + size

read_cmd ==
  /\ pc = "body" /\ remaining >= Wanted
  /\ LET end == BodyEnd(recording[cmd].body)
     IN GotBody(SubSeq(current, offset + 1, end)) /\ offset' = end
  /\ UNCHANGED <<sourceVars, current, header_skipped>>

ReadsDemoPackets ==
  /\ stream = "PacketChannelDemoStream"
  /\ EnsureRecv \/ EnsureExhausted \/ skip_header_if_needed \/ read_cmd_header \/ read_cmd
==============================================================================
