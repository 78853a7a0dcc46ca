---------------------------- MODULE AsyncReadStreams ---------------------------
(***************************************************************************)
(* haste_core::async_demofile and async_broadcast_stream under             *)
(* run_internal: streams over an AsyncRead, which they ask with read_exact *)
(* for the bytes they need and no more.  The bytes that a read_exact has   *)
(* taken are its own until it has them all, so `current` is what a dropped *)
(* future takes with it.                                                   *)
(***************************************************************************)
EXTENDS AsyncRun

\* A broadcast header is read at once; a varint byte by byte, each saying
\* whether another one follows.
HeaderLeft ==
  IF stream = "AsyncBroadcastStream" THEN BROADCAST_CMD_HEADER_SIZE - Len(current)
  ELSE IF current = <<>> THEN 1
  ELSE IF StartsHeader(current[1]) THEN recording[current[1].of].header - Len(current) ELSE 0

\* The bytes that the reads up to the next use of them still want.
Left ==
  IF pc = "body" THEN recording[cmd].body - Len(current)
  ELSE IF header_skipped THEN HeaderLeft ELSE DEMO_HEADER_SIZE - Len(current)

\* Most bytes that the read_exact in progress asks for.
Room == IF pc = "header" /\ header_skipped /\ stream = "AsyncDemoFile" THEN 1 ELSE Left

Reading == pc # "done" /\ Left > 0

ReadExact ==
  /\ Reading
  /\ PollRead(Room)
  /\ current' = current \o SubSeq(Head(channel), 1, IF Room < Len(Head(channel)) THEN Room
                                                     ELSE Len(Head(channel)))
  /\ UNCHANGED <<offset, header_skipped, parserVars>>

\* read_uvarint_async makes a VarintError of it.
EndOfHeader == IF stream = "AsyncDemoFile" THEN "ReadVarintError" ELSE "IoError(UnexpectedEof)"

\* read_exact meets the end; in start_reading there is no parser yet.
ReadExactFails ==
  /\ Reading
  /\ RecvNone
  /\ Returns(IF ~header_skipped THEN "error"
             ELSE IF pc = "body" THEN OnBodyError("IoError(UnexpectedEof)") ELSE OnHeaderError(EndOfHeader))
  /\ current' = <<>>
  /\ UNCHANGED <<offset, header_skipped>>

start_reading ==
  /\ ~header_skipped /\ pc = "header" /\ Left = 0
  /\ header_skipped' = TRUE /\ current' = <<>>
  /\ UNCHANGED <<sourceVars, offset, parserVars>>

read_cmd_header_async ==
  /\ pc = "header" /\ header_skipped /\ Left = 0
  /\ GotHeader(current[1])
  /\ current' = <<>>
  /\ UNCHANGED <<sourceVars, offset, header_skipped>>

read_cmd_async ==
  /\ pc = "body" /\ Left = 0
  /\ GotBody(current)
  /\ current' = <<>>
  /\ UNCHANGED <<sourceVars, offset, header_skipped>>

ReadsAsyncRead ==
  /\ OverAsyncRead
  /\ ReadExact \/ ReadExactFails \/ start_reading \/ read_cmd_header_async \/ read_cmd_async
==============================================================================
