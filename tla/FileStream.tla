-------------------------------- MODULE FileStream -----------------------------
(***************************************************************************)
(* haste_core::demofile and haste_broadcast::broadcastfile: a recorded     *)
(* file as a SeekableDemoStream, under the loops of Parser (run,           *)
(* run_seekable, scan_full_packet_ticks) and with total_ticks, which a     *)
(* host asks between them.  The file may be cut off anywhere behind its    *)
(* first bytes, may have commands that EDemoCommands does not know, and a  *)
(* demo that was not finished has no file info.                            *)
(*                                                                         *)
(* A file is a layout: where every command starts, and the sizes of its    *)
(* header and body.  The reader is a std::fs::File, or one buffered: it    *)
(* may be put past the end, where it reads nothing, and a read that meets  *)
(* the end has taken what was there.                                       *)
(***************************************************************************)
EXTENDS Integers, Sequences

CONSTANTS
  Files,       \* the files that are looked at
  MaxCalls     \* bound: calls made on one stream

\* count commands: start[count + 1] is where the last one ends.
ASSUME FilesAssumption ==
  \A f \in Files :
    /\ f.format \in {"demo", "broadcast"}
    /\ f.count \in Nat /\ f.length \in Nat
    /\ f.start \in [1..f.count + 1 -> Nat]
    /\ f.header \in [1..f.count -> Nat \ {0, 1}] /\ f.body \in [1..f.count -> Nat]
    /\ f.known \in [1..f.count -> BOOLEAN] /\ f.tick \in [1..f.count -> Nat \cup {-1}]
    /\ f.file_info \in 0..f.count       \* the command that fileinfo_offset points at, or 0
    /\ \A i \in 1..f.count : f.start[i + 1] = f.start[i] + f.header[i] + f.body[i]
    /\ \A i, j \in 1..f.count + 1 : i < j => f.start[i] < f.start[j]
    /\ f.length \in f.start[1]..f.start[f.count + 1]

ASSUME CallsAssumption == MaxCalls \in Nat

VARIABLES
  file,         \* what is on the disk
  rdr,          \* position of the reader
  total_ticks,  \* file_info's playback_ticks, or BroadcastFile.total_ticks; NoTicks for None
  call,         \* the parser's call that runs, or ran last: its name and where it began
  pc,           \* "idle", before a "header", or with a header in hand: "command"
  held,         \* CmdHeader, by the number of its command; 0 for none
  given,        \* what the call gave to the visitor: command, and where its body was read
  result,       \* "running", or what the last call came to
  calls         \* their number

vars == <<file, rdr, total_ticks, call, pc, held, given, result, calls>>

NoTicks == -2
Start     == file.start[1]
End       == file.start[file.count + 1]
BodyAt(i) == file.start[i] + file.header[i]

Commands == 1..file.count
AtCommand(p) == \E i \in 1..file.count + 1 : file.start[i] = p
PlaceOf(p) == IF AtCommand(p) THEN (CHOOSE i \in 1..file.count + 1 : file.start[i] = p) - 1 ELSE -1

Init ==
  /\ file \in Files
  /\ rdr = Start /\ total_ticks = NoTicks
  /\ call = [name |-> "none", from |-> 0] /\ pc = "idle" /\ held = 0
  /\ given = <<>> /\ result = "ok" /\ calls = 0

------------------------------------------------------------------------------
(* The stream.                                                             *)

\* Mutant of is_at_eof: past the end is at the end.
IsAtEofOrPast(p) == p >= file.length

is_at_eof(p) == p = file.length

\* read_cmd_header has all it needs where a command that is known begins.
Readable(i) == file.known[i] /\ BodyAt(i) <= file.length

\* Where read_cmd_header leaves the reader if it fails at the start of the i-th
\* command, or at the end of the last: a command that is not known is found out by
\* its first byte.
FailsAt(i) ==
  IF file.start[i] >= file.length THEN file.start[i]
  ELSE IF file.known[i] THEN file.length ELSE file.start[i] + 1

\* Bytes in the middle of a command, or the file header, read as commands.
Anywhere == 0..End + 1

\* Mutant of unread_cmd_header: the command is put back with the size of its body.
UnreadBody(i) == rdr - file.body[i]

unread_cmd_header(i) == rdr - file.header[i]

\* Mutant of Backup: the reader stays where the asking led it.
NoBackup(p) == End

\* seek to where the stream was before it was asked.
Backup(p) == p

------------------------------------------------------------------------------
(* The calls of the parser.                                                *)

\* Mutant of reset: a seek starts where the stream is.
ResetNothing == rdr

reset == Start

Begin(name, p) ==
  /\ pc = "idle" /\ calls < MaxCalls
  /\ call' = [name |-> name, from |-> PlaceOf(p)]
  /\ rdr' = p /\ pc' = "header" /\ given' = <<>> /\ result' = "running" /\ calls' = calls + 1
  /\ UNCHANGED <<file, total_ticks, held>>

Run         == Begin("run", rdr)
RunSeekable == Begin("run_seekable", reset)
Scan        == Begin("scan_full_packet_ticks", reset)

EndCall(outcome) == pc' = "idle" /\ held' = 0 /\ result' = outcome
                    /\ UNCHANGED <<file, total_ticks, call, calls>>

ReadHeader ==
  /\ pc = "header"
  /\ \E i \in Commands :
       /\ rdr = file.start[i] /\ Readable(i)
       /\ held' = i
       /\ rdr' = BodyAt(i)
  /\ pc' = "command"
  /\ UNCHANGED <<file, total_ticks, call, given, result, calls>>

\* Any error is the end if the stream is at its end then; a scan rewinds if it is.
HeaderFails ==
  /\ pc = "header"
  /\ \/ \E i \in 1..file.count + 1 :
          /\ rdr = file.start[i] /\ (i \in Commands => ~Readable(i))
          /\ LET p == FailsAt(i)
             IN IF is_at_eof(p)
                THEN EndCall("ok") /\ rdr' = IF call.name = "scan_full_packet_ticks" THEN reset ELSE p
                ELSE EndCall("error") /\ rdr' = p
     \/ /\ ~AtCommand(rdr) /\ rdr >= file.length
        /\ EndCall(IF is_at_eof(rdr) THEN "ok" ELSE "error")
        /\ UNCHANGED rdr
  /\ UNCHANGED given

\* A run that begins inside a command does whatever the bytes say.
Wander ==
  /\ pc = "header" /\ ~AtCommand(rdr) /\ rdr < file.length
  /\ rdr' \in Anywhere
  /\ given' = Append(given, [of |-> 0, at |-> rdr])
  /\ EndCall("ok") \/ EndCall("error")

\* read_cmd, and the handlers, which may fail.
Handle ==
  /\ pc = "command" /\ call.name # "scan_full_packet_ticks"
  /\ rdr + file.body[held] <= file.length
  /\ given' = Append(given, [of |-> held, at |-> rdr])
  /\ rdr' = rdr + file.body[held]
  /\ \/ /\ pc' = "header" /\ held' = 0
        /\ UNCHANGED <<file, total_ticks, call, result, calls>>
     \/ EndCall("error")

BodyIsCut ==
  /\ pc = "command" /\ call.name # "scan_full_packet_ticks"
  /\ rdr + file.body[held] > file.length
  /\ rdr' = file.length
  /\ EndCall("error")
  /\ UNCHANGED given

skip_cmd ==
  /\ pc = "command" /\ call.name # "run"
  /\ rdr' = rdr + file.body[held]
  /\ pc' = "header" /\ held' = 0
  /\ UNCHANGED <<file, total_ticks, call, given, result, calls>>

Break ==
  /\ pc = "command" /\ call.name = "run_seekable"
  /\ rdr' = unread_cmd_header(held)
  /\ EndCall("ok")
  /\ UNCHANGED given

------------------------------------------------------------------------------
(* total_ticks.                                                            *)

Ask(ticks, p, outcome) ==
  /\ pc = "idle" /\ calls < MaxCalls /\ total_ticks = NoTicks
  /\ total_ticks' = ticks /\ rdr' = p
  /\ result' = outcome /\ given' = <<>> /\ calls' = calls + 1
  /\ call' = [name |-> "total_ticks", from |-> PlaceOf(rdr)]
  /\ UNCHANGED <<file, pc, held>>

HasFileInfo ==
  /\ file.file_info # 0
  /\ Readable(file.file_info) /\ file.start[file.file_info + 1] <= file.length

\* DemoFile: the command at fileinfo_offset, which holds the last tick of all.  An
\* offset of 0, of a recording that was not finished, points at the file's stamp.
file_info ==
  /\ file.format = "demo"
  /\ \/ HasFileInfo /\ Ask(file.tick[file.file_info], Backup(rdr), "ok")
     \/ file.file_info = 0 /\ \E p \in Anywhere : Ask(NoTicks, p, "error")
     \/ /\ file.file_info # 0 /\ ~HasFileInfo
        /\ Ask(NoTicks, IF Readable(file.file_info) THEN file.length ELSE FailsAt(file.file_info), "error")

\* Mutant of LastTick: the tick of the first header that is read.
FirstTick(i, k) == IF k = i THEN -1 ELSE file.tick[i]

\* last_tick, after the headers from the i-th on and before the k-th.
LastTick(i, k) == IF k = i THEN -1 ELSE file.tick[k - 1]

\* BroadcastFile: all headers from here on, up to the first that cannot be read.
scan_for_last_tick ==
  /\ file.format = "broadcast"
  /\ \/ \E i, k \in 1..file.count + 1 :
          /\ rdr = file.start[i] /\ i <= k
          /\ \A j \in i..k - 1 : Readable(j)
          /\ k \in Commands => ~Readable(k)
          /\ LET p == FailsAt(k)
             IN IF is_at_eof(p)
                THEN Ask(LastTick(i, k), Backup(rdr), "ok")
                ELSE Ask(NoTicks, p, "error")
     \/ /\ ~AtCommand(rdr) /\ rdr >= file.length
        /\ IF is_at_eof(rdr) THEN Ask(-1, rdr, "ok") ELSE Ask(NoTicks, rdr, "error")
     \/ /\ ~AtCommand(rdr) /\ rdr < file.length
        /\ \E p \in Anywhere, ticks \in {-1, NoTicks} : Ask(ticks, p, IF ticks = NoTicks THEN "error" ELSE "ok")

Next ==
  \/ Run \/ RunSeekable \/ Scan
  \/ ReadHeader \/ HeaderFails \/ Wander
  \/ Handle \/ BodyIsCut \/ skip_cmd \/ Break
  \/ file_info \/ scan_for_last_tick

Spec == Init /\ [][Next]_vars

------------------------------------------------------------------------------
(* Properties.                                                             *)

\* The state has its type: a stream is between calls, before a header, or behind the
\* header that it holds.
TypeOK ==
  /\ rdr \in 0..End + 1
  /\ total_ticks \in Int
  /\ call.name \in {"none", "run", "run_seekable", "scan_full_packet_ticks", "total_ticks"}
  /\ call.from \in 0..file.count \cup {-1}
  /\ pc \in {"idle", "header", "command"}
  /\ held \in 0..file.count /\ (held # 0 <=> pc = "command")
  /\ held # 0 => rdr = BodyAt(held)
  /\ result \in {"running", "ok", "error"} /\ calls \in 0..MaxCalls

\* A visitor is given whole bodies from their own places, in the order of the file: a
\* run leaves none out from where it began, a seek is at the first command again
\* whatever failed before it, and only a run that begins in the middle of a command
\* takes bytes for what they are not.
GivenAsRecorded ==
  \A n \in DOMAIN given :
    IF given[n].of = 0 THEN call.name = "run" /\ call.from = -1
    ELSE /\ given[n].at = BodyAt(given[n].of) /\ file.start[given[n].of + 1] <= file.length
         /\ call.name = "run" => given[n].of = call.from + n
         /\ \A m \in 1..n - 1 : given[m].of < given[n].of

\* The file as it is on the disk ends at command k: between two commands, inside a
\* header, or behind the first byte of a command that is not known.
EndsAt(k) ==
  \/ file.start[k] = file.length
  \/ /\ k \in Commands /\ file.start[k] < file.length
     /\ IF file.known[k] THEN file.length < BodyAt(k) ELSE file.length = file.start[k] + 1

\* All from where the call began to there is whole.
WholeUpTo(k) ==
  EndsAt(k) /\ \A i \in call.from + 1..k - 1 : file.known[i] /\ file.start[i + 1] <= file.length

\* A run that ended well has given all that the file holds, and a scan has seen it:
\* nothing is left but the beginning of a header.  A body that is cut is never taken
\* for the end, neither where it is read nor where it is passed over; and a scan fails
\* on no other file.
EndIsTheFiles ==
  pc = "idle" /\ call.from # -1 =>
    /\ call.name = "run" /\ result = "ok" => WholeUpTo(call.from + Len(given) + 1)
    /\ call.name = "scan_full_packet_ticks" =>
         (result = "ok" <=> \E k \in 1..file.count + 1 : WholeUpTo(k))

\* The total of ticks, which is cached for good, is that of the last command that the
\* file holds, and to ask for it moves nothing; unless the stream was at its end.
TicksAreLast ==
  [][total_ticks' # total_ticks /\ PlaceOf(rdr) # -1 =>
       /\ rdr' = rdr
       /\ \/ file.format = "demo" /\ total_ticks' = file.tick[file.file_info]
          \/ \E k \in Commands :
               /\ rdr < BodyAt(k) /\ total_ticks' = file.tick[k]
               /\ EndsAt(k + 1)
          \/ EndsAt(PlaceOf(rdr) + 1) /\ total_ticks' = -1]_vars

Quality ==
  IF file.format = "demo" /\ ~HasFileInfo THEN "unfinished"
  ELSE IF file.length = End /\ \A i \in Commands : file.known[i] THEN "sound" ELSE "damaged"

Stream == INSTANCE CommandStream WITH
  commands <- file.count, quality <- Quality,
  place <- IF held # 0 THEN held - 1 ELSE PlaceOf(rdr)

\* A file with the parser's calls on it is a stream of commands with a place: every
\* step takes, passes over or puts back one command, or rewinds, and total_ticks leaves
\* the place alone.  On a sound file the place is never lost.
IsCommandStream == Stream!Spec
==============================================================================
