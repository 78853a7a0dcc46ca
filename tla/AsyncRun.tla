-------------------------------- MODULE AsyncRun -------------------------------
(***************************************************************************)
(* AsyncStreamingParser::run_internal over some AsyncDemoStream: what the  *)
(* loop does with the header, the body or the error that the stream gives  *)
(* it.  The parser is a task that waits for its stream; what it does       *)
(* between two waits touches nothing the sender sees.                      *)
(***************************************************************************)
EXTENDS PacketSource

VARIABLES
  current,          \* bytes the stream has taken and not given up
  offset,           \* how many of them are read
  header_skipped,   \* whether the file header is behind it
  pc,               \* where run_internal is: "header", "body" or "done"
  cmd,              \* the command whose body is read next
  handled,          \* the commands the visitor got, with their bodies
  outcome,          \* what run_internal returned
  drops,            \* futures of a run that were dropped
  torn              \* one of them had taken bytes of a command it did not finish

streamVars == <<current, offset, header_skipped>>
parserVars == <<pc, cmd, handled, outcome>>
callerVars == <<drops, torn>>
vars == <<sourceVars, streamVars, parserVars, callerVars>>

remaining == Len(current) - offset

Returns(result) == pc' = "done" /\ outcome' = result /\ UNCHANGED <<cmd, handled>>

\* Ok for an end of file before a header, if it is an IoError.
OnHeaderError(kind) == IF kind = "IoError(UnexpectedEof)" THEN "ok" ELSE "error"

\* Mutant of OnBodyError: the end is the end wherever it comes.
EndOfFileIsOk(kind) == IF kind = "IoError(UnexpectedEof)" THEN "ok" ELSE "error"

\* handle_cmd passes on what read_cmd gives.
OnBodyError(kind) == "error"

\* A header that begins with this byte: bytes that are no header give garbage,
\* any error or a command of any kind, and what such a run does is not followed.
GotHeader(byte) ==
  IF StartsHeader(byte)
  THEN pc' = "body" /\ cmd' = byte.of /\ UNCHANGED <<handled, outcome>>
  ELSE Returns("error")

\* handle_cmd gets its body; the visitor is not asked to wait.
GotBody(body) ==
  /\ handled' = Append(handled, [of |-> cmd, body |-> body])
  /\ pc' = "header" /\ cmd' = 0
  /\ UNCHANGED outcome
==============================================================================
