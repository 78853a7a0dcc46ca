------------------------------ MODULE AsyncStreams -----------------------------
(***************************************************************************)
(* The four implementors of AsyncDemoStream, each under the one loop of    *)
(* AsyncStreamingParser, each with a sender that cuts the recording as it  *)
(* likes, and with a caller that may drop the future of run_to_end while   *)
(* it waits and call run_to_end again.                                     *)
(***************************************************************************)
EXTENDS PacketChannelDemoStream, PacketChannelBroadcastStream, AsyncReadStreams

CONSTANT MaxDrops   \* bound: futures dropped

ASSUME DropsAssumption == MaxDrops \in Nat

\* The constructors: `new`, `with_initial_packet` of the first commands, and
\* start_reading, which has the file header to read.
Init ==
  /\ stream \in Streams
  /\ recording \in Recordings
  /\ \E initial \in 0..Len(recording) :
       /\ stream # "PacketChannelBroadcastStream" => initial = 0
       /\ current = Commands(0, initial)
       /\ unsent = FileHeader \o Commands(initial, Len(recording))
  /\ channel = <<>> /\ closed = FALSE
  /\ offset = 0 /\ header_skipped = ~DemoFormat
  /\ pc = "header" /\ cmd = 0 /\ handled = <<>> /\ outcome = "running"
  /\ drops = 0 /\ torn = FALSE

Sender == /\ (\E n \in 0..Len(unsent) : Send(n)) \/ Close
          /\ UNCHANGED <<streamVars, parserVars, callerVars>>

Parser == /\ ReadsDemoPackets \/ ReadsBroadcastPackets \/ ReadsAsyncRead
          /\ UNCHANGED callerVars

\* Where the future of a run waits.
Waiting == CASE stream = "PacketChannelDemoStream"      -> EnsuringBytes
             [] stream = "PacketChannelBroadcastStream" -> EnsuringData
             [] OTHER                                   -> Reading /\ header_skipped

\* What only the dropped future knew: that a header was read, and the bytes that
\* its read_exact had.
BytesOfFuture == IF OverAsyncRead THEN current ELSE <<>>

Drop ==
  /\ Waiting
  /\ drops < MaxDrops
  /\ drops' = drops + 1
  /\ torn' = (torn \/ pc = "body" \/ BytesOfFuture # <<>>)
  /\ pc' = "header" /\ cmd' = 0
  /\ current' = IF OverAsyncRead THEN <<>> ELSE current
  /\ UNCHANGED <<sourceVars, offset, header_skipped, handled, outcome>>

Next == Sender \/ Parser \/ Drop

Spec == Init /\ [][Next]_vars

\* The runtime polls a task whose receiver or reader is ready.
FairSpec == Spec /\ WF_vars(Parser)

------------------------------------------------------------------------------
Byte == [of : 0..MaxCommands, part : {"file", "header", "body"}, at : Nat]

\* The reader is inside its buffer.
TypeOK ==
  /\ recording \in Recordings /\ Len(channel) <= Capacity
  /\ Range(current) \subseteq Byte /\ offset \in 0..Len(current)
  /\ pc \in {"header", "body", "done"} /\ cmd \in 0..MaxCommands
  /\ outcome \in {"running", "ok", "error"}
  /\ {closed, header_skipped, torn} \subseteq BOOLEAN /\ drops \in 0..MaxDrops

\* However the recording is cut into chunks, and wherever run_to_end is dropped
\* and called again but inside a command, the visitor gets the commands in
\* order, each with its own body, none twice and none left out.
AsSent ==
  ~torn => handled = [i \in 1..Len(handled) |-> [of |-> i, body |-> Body(i)]]

\* Every byte is in one place: read as what it is, taken by the stream and not
\* used, in the channel, or with the sender; no resize, copy or drop between two
\* commands loses one or makes one up.
BytesAccountedFor ==
  LET read == (IF DemoFormat /\ header_skipped THEN FileHeader ELSE <<>>)
              \o FlattenSeq([k \in DOMAIN handled |-> Header(handled[k].of) \o handled[k].body])
              \o IF cmd # 0 THEN Header(cmd) ELSE <<>>
      rest == SubSeq(current, offset + 1, Len(current)) \o FlattenSeq(channel) \o unsent
  IN outcome = "running" /\ ~torn => read \o rest = FileHeader \o Commands(0, Len(recording))

Arrived == FileHeader \o Commands(0, Len(recording))
ArrivedLength == Len(Arrived) - Len(unsent)

\* A command that has arrived, with what its stream waits for after its start.
HasArrived(i) ==
  LET before == Len(FileHeader) + Len(Commands(0, i - 1))
  IN /\ ArrivedLength >= Len(FileHeader) + Len(Commands(0, i))
     /\ stream = "PacketChannelDemoStream" => ArrivedLength >= before + MAX_HEADER

\* A run that is over was closed by its sender and has seen every command that
\* arrived.  It is Ok where no body was cut off, and only there; but a run over an
\* async demo file is never Ok, since the end of file comes to it in a varint.
EndIsTheEnd ==
  outcome # "running" /\ ~torn =>
    /\ closed /\ channel = <<>>
    /\ \A i \in DOMAIN recording : HasArrived(i) => i \in DOMAIN handled
    /\ IF stream = "AsyncDemoFile" THEN outcome = "error"
       ELSE (outcome = "error") = (cmd # 0)

\* The comment at read_cmd_header of the channel stream: enough bytes "for at least
\* one varint".  A run that returns Ok leaves no whole command in its buffer.
NoCommandLeft ==
  outcome = "ok" /\ stream = "PacketChannelDemoStream" =>
    LET rest == SubSeq(current, offset + 1, Len(current))
    IN ~ \E i \in DOMAIN recording : IsPrefix(Header(i) \o Body(i), rest)

\* A command that has arrived is handled, and a closed source ends the run: no
\* stream waits for bytes or packets it does not need.
NothingWaits ==
  /\ \A i \in 1..MaxCommands :
       (i \in DOMAIN recording /\ HasArrived(i)) ~> (i \in DOMAIN handled \/ torn)
  /\ closed ~> (outcome # "running")
==============================================================================
