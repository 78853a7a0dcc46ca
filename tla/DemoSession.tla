------------------------------ MODULE DemoSession -----------------------------
(***************************************************************************)
(* A recording is made, then public calls are made on one Parser over it,  *)
(* in any order: run_to_end, run_to_tick, scan_full_packet_ticks and       *)
(* run_full_packet, each starting from what the calls before it left; or   *)
(* on one AsyncStreamingParser, which has run_to_end and                   *)
(* run_to_end_final_state.                                                 *)
(*                                                                         *)
(* The recorder is not part of the repository.  It is modelled from what   *)
(* the parser's handlers and comments take for granted: the signon part is *)
(* at tick -1 and ends with DemSyncTick; a full packet follows it, and     *)
(* another one after at most a full packet interval (plus the slack that   *)
(* run_to_tick allows); a full packet holds a snapshot of the string       *)
(* tables and a CREATE that restates every field of every live entity; a   *)
(* class has its baseline before the first CREATE that relies on it.       *)
(***************************************************************************)
EXTENDS AsyncStreamingParser

------------------------------------------------------------------------------
(* The recorder (external).                                                *)

Command(cmd, tick, messages, tables) ==
  [cmd |-> cmd, tick |-> tick, messages |-> messages, tables |-> tables]

CreateStringTable(t) == [msg |-> "SvcCreateStringTable", table |-> t, version |-> 0]

Signon ==
  << Command("DemSignonPacket", -1,
             << [msg |-> "SvcServerInfo", ratio |-> TickRatio],
                CreateStringTable("userinfo"),
                CreateStringTable(INSTANCE_BASELINE_TABLE_NAME) >>, <<>>),
     Command("DemSendTables", -1, <<>>, <<>>),
     Command("DemClassInfo", -1, <<>>, <<>>),
     Command("DemSyncTick", -1, <<>>, <<>>) >>

NewGame == [entities |-> <<>>, tables |-> [t \in Tables |-> 0], events |-> <<>>]

Now == Last(game)
LastFullPacketTick == demo[Last(FullPackets)].tick
FullPacketSpacing == DEFAULT_FULL_PACKET_INTERVAL * TickRatio + FullPacketSlack

Record(command, after) ==
  /\ demo' = Append(demo, command)
  /\ game' = Append(game, after)
  /\ UNCHANGED <<parser, call>>

\* A recording goes on until the first call.
Recording == call.name = "none" /\ Len(demo) < Len(Signon) + MaxBody
NextTicks == {Last(demo).tick, Last(demo).tick + 1} \ {-1}

\* One message of a DemPacket, and the game after it.
Packet(message, after) ==
  /\ Recording
  /\ FullPackets # <<>>
  /\ \E tick \in NextTicks :
       /\ tick <= LastFullPacketTick + FullPacketSpacing
       /\ Record(Command("DemPacket", tick, <<message>>, <<>>), after)

EntityPacket(delta, index, base, state, after) ==
  Packet([msg |-> "SvcPacketEntities",
          entries |-> <<[delta |-> delta, index |-> index, base |-> base, state |-> state]>>],
         [after EXCEPT !.events = <<[kind |-> delta, index |-> index,
            entity |-> IF delta \in {"DELETE", "LEAVE"} THEN Now.entities[index]
                       ELSE after.entities[index]]>>])

\* A CREATE that leaves `base` to the baseline of the class.
RecordCreate(i) ==
  /\ i \notin DOMAIN Now.entities
  /\ Now.tables[INSTANCE_BASELINE_TABLE_NAME] > 0
  /\ LET entity == [base |-> Now.tables[INSTANCE_BASELINE_TABLE_NAME], state |-> 0]
     IN EntityPacket("CREATE", i, Missing, 0,
          [Now EXCEPT !.entities = [j \in DOMAIN @ \cup {i} |->
                                      IF j = i THEN entity ELSE Now.entities[j]]])

RecordUpdate(i) ==
  /\ i \in DOMAIN Now.entities /\ Now.entities[i].state < MaxState
  /\ EntityPacket("UPDATE", i, Missing, Now.entities[i].state + 1,
                  [Now EXCEPT !.entities[i].state = @ + 1])

RecordGone(i) ==
  /\ i \in DOMAIN Now.entities
  /\ \E delta \in {"DELETE", "LEAVE"} :
       EntityPacket(delta, i, Missing, 0,
                    [Now EXCEPT !.entities = Restrict(@, DOMAIN @ \ {i})])

RecordTableUpdate(t) ==
  /\ Now.tables[t] < MaxVersion
  /\ t = INSTANCE_BASELINE_TABLE_NAME /\ ~BaselineMayChange => Now.tables[t] = 0
  /\ Packet([msg |-> "SvcUpdateStringTable", table |-> t, version |-> Now.tables[t] + 1],
            [Now EXCEPT !.tables[t] = @ + 1, !.events = <<>>])

\* The first full packet opens the body of the recording.
RecordFullPacket ==
  LET live     == SetToSeq(DOMAIN Now.entities)
      creates  == [n \in DOMAIN live |->
                     [delta |-> "CREATE", index |-> live[n],
                      base |-> Now.entities[live[n]].base, state |-> Now.entities[live[n]].state]]
      snapshot == [msg |-> "SvcPacketEntities", entries |-> creates]
  IN /\ Recording
     /\ \E tick \in NextTicks :
          /\ FullPackets # <<>> => tick <= LastFullPacketTick + FullPacketSpacing
          /\ Record(Command("DemFullPacket", tick, <<snapshot>>, Now.tables),
                    [Now EXCEPT !.events = [n \in DOMAIN live |->
                       [kind |-> "CREATE", index |-> live[n], entity |-> Now.entities[live[n]]]]])

------------------------------------------------------------------------------
(* The public calls.                                                       *)

Ticks == -1..MaxBody
Ordinals == 0..MaxBody

Init ==
  /\ demo = Signon
  /\ game = [k \in DOMAIN Signon |-> NewGame]
  /\ parser = NewParser
  /\ call = [name |-> "none", arg |-> 0, from |-> 0, was_whole |-> TRUE, whole |-> TRUE,
             muted |-> FALSE, fails |-> NoFailure, count |-> 0]

AsyncCalls  == {"async_run_to_end", "run_to_end_final_state"}
RewindCalls == {"run_to_tick", "scan_full_packet_ticks", "run_full_packet"}

\* The callbacks; of on_packet there is one for each type of message.
Svcs      == {"SvcCreateStringTable", "SvcUpdateStringTable", "SvcPacketEntities", "SvcServerInfo"}
Deltas    == {"CREATE", "UPDATE", "DELETE", "LEAVE"}
Callbacks == {"Cmd", "TickEnd"} \cup Svcs \cup Deltas
Troubled  == call.count = 0 /\ Len(demo) <= Len(Signon) + MaxTroubled

\* The visitor may fail once, in the first call.
Failures ==
  {NoFailure} \cup (IF Troubled THEN [at : DOMAIN demo, kind : Callbacks] ELSE {})

\* A call leaves the parser at p; the log is that of the call.  The state is a whole
\* one unless the call failed, or looked for a full packet that there is not, or went
\* on from a state that was not.
Calls(name, arg, p) ==
  /\ FullPackets # <<>>
  /\ call.count < MaxCalls
  /\ call.name # "none" => (name \in AsyncCalls <=> call.name \in AsyncCalls)
  /\ p.fails # NoFailure => p.result = "error"
  /\ parser' = [p EXCEPT !.fails = NoFailure]
  /\ call' = [name |-> name, arg |-> arg, from |-> parser.pos,
              was_whole |-> call.whole,
              whole |-> /\ p.result = "ok" /\ (call.whole \/ name \in RewindCalls)
                        /\ name = "run_full_packet" => arg < Len(FullPackets),
              muted |-> ~parser.collecting, fails |-> p.fails, count |-> call.count + 1]
  /\ UNCHANGED <<demo, game>>

Idle(failure) == [parser EXCEPT !.log = <<>>, !.fails = failure]

RunToEnd(f)         == Calls("run_to_end", 0, run_to_end(Idle(f)))
\* Past the last tick run_to_tick expects a full packet that is not there; its
\* first comments leave it to the caller not to ask.
RunToTick(tick, f)  == /\ tick <= Last(demo).tick
                       /\ Calls("run_to_tick", tick, run_to_tick(Idle(f), tick))
Scan                == Calls("scan_full_packet_ticks", 0,
                             scan_full_packet_ticks(Idle(NoFailure)).parser)
RunFullPacket(o, f) == /\ o < Len(FullPackets) \/ (o = Len(FullPackets) /\ Troubled)
                       /\ Calls("run_full_packet", o, run_full_packet(Idle(f), o))
AsyncRunToEnd(f)    == Calls("async_run_to_end", 0, async_run_to_end(Idle(f)))
RunToEndFinalState(f) == Calls("run_to_end_final_state", 0, run_to_end_final_state(Idle(f)))

Next ==
  \/ RecordFullPacket
  \/ \E i \in Indexes : RecordCreate(i) \/ RecordUpdate(i) \/ RecordGone(i)
  \/ \E t \in Tables : RecordTableUpdate(t)
  \/ Scan
  \/ \E f \in Failures :
       \/ RunToEnd(f)
       \/ \E tick \in Ticks : RunToTick(tick, f)
       \/ \E o \in Ordinals : RunFullPacket(o, f)
       \/ AsyncRunToEnd(f)
       \/ RunToEndFinalState(f)

Spec == Init /\ [][Next]_vars

------------------------------------------------------------------------------
(* What the calls promise.                                                 *)

MaxOf(S, default) == IF S = {} THEN default ELSE CHOOSE m \in S : \A k \in S : k <= m

\* Positions: after the last command a seek to `tick` lets through, and where
\* the segments of run_full_packet begin and end.
AtTick(tick)      == MaxOf({k \in DOMAIN demo : demo[k].tick <= tick}, 0)
SegmentStart(o)   == IF o = 0 THEN 0 ELSE FullPackets[o + 1] - 1
SegmentEnd(o)     == IF o + 1 >= Len(FullPackets) THEN Len(demo) ELSE FullPackets[o + 2] - 1

\* The callbacks a visitor must get for command k: of the command, of each message, of
\* every change of an entity, and of the end of the tick where one ends.  Changes are
\* in the last message of a command.
RecordedAt(k) ==
  LET entry(e)  == [at |-> k, kind |-> e.kind, index |-> e.index, entity |-> e.entity]
      plain(kd) == [at |-> k, kind |-> kd, index |-> 0, entity |-> NoEntity]
      prev      == IF k = 1 THEN -1 ELSE demo[k - 1].tick
  IN <<plain("Cmd")>>
       \o [n \in DOMAIN demo[k].messages |-> plain(demo[k].messages[n].msg)]
       \o [n \in DOMAIN game[k].events |-> entry(game[k].events[n])]
       \o (IF demo[k].tick # prev THEN <<plain("TickEnd")>> ELSE <<>>)

\* And for the commands after `from` up to `to`.
AddRecorded(all, k)      == all \o RecordedAt(k)
RecordedVisits(from, to) == FoldLeft(AddRecorded, <<>>, [n \in 1..(to - from) |-> from + n])

\* Every entity the parser holds is a complete one of the class, its fields
\* within the versions that were recorded, and at a position in the recording.
TypeOK ==
  /\ parser.pos \in 0..Len(demo)
  /\ parser.ctx.tick \in Ticks /\ parser.ctx.prev_tick \in Ticks
  /\ DOMAIN parser.ctx.entities \subseteq Indexes
  /\ \A i \in DOMAIN parser.ctx.entities : parser.ctx.entities[i] \in Entity
  /\ DOMAIN parser.ctx.string_tables \subseteq Tables
  /\ \A t \in DOMAIN parser.ctx.string_tables : parser.ctx.string_tables[t] \in 0..MaxVersion
  /\ parser.ctx.instance_baseline \in 0..MaxVersion
  /\ parser.ctx.baseline_entity \in 0..MaxVersion \cup {Missing}
  /\ parser.skip_entity_packets \in BOOLEAN /\ parser.collecting \in BOOLEAN
  /\ parser.result \in {"ok", "error"}

\* On a well-formed recording a call fails only with its visitor, behind the command
\* that it failed at; and a call that rewinds does not fail for what the one before it
\* left.  Otherwise each stops where it says: run_to_end at the end, run_to_tick before
\* the first command past the tick (its header unread), run_full_packet before the next
\* full packet, a scan rewound; whatever was called before.
StopsWhereAsked ==
  CASE call.fails # NoFailure -> parser.result = "error" /\ parser.pos = call.fails.at
    [] call.fails = NoFailure /\ (call.was_whole \/ call.name \in RewindCalls) ->
         /\ parser.result = "ok"
         /\ parser.pos = CASE call.name \in {"run_to_end"} \cup AsyncCalls -> Len(demo)
                           [] call.name = "run_to_tick"     -> AtTick(call.arg)
                           [] call.name = "run_full_packet" -> SegmentEnd(call.arg)
                           [] OTHER                         -> 0
    [] OTHER -> parser.result = "ok" => parser.pos = Len(demo)

\* The state the parser exposes is the state the game was in at the position
\* the parser is at: entities, string tables and tick, reached by a parse from
\* the start, by a seek that jumps over full packets, by a segment, or by going
\* on from any of those.  A call that rewinds gets there from a call that broke off
\* anywhere, with a command half applied or the signon part half read.
StateIsRecorded ==
  call.whole /\ parser.pos > 0 =>
    /\ parser.ctx.entities = game[parser.pos].entities
    /\ parser.ctx.string_tables = game[parser.pos].tables
    /\ parser.ctx.tick = demo[parser.pos].tick

\* Of a log, the callbacks of some kinds at some commands.
Pick(s, v) ==
  IF v.kind \in s.kinds /\ v.at \in s.commands THEN [s EXCEPT !.log = Append(@, v)] ELSE s
Only(log, kinds, commands) ==
  FoldLeft(Pick, [log |-> <<>>, kinds |-> kinds, commands |-> commands], log).log

CommandsOf(log) == Only(log, Callbacks \ Deltas, DOMAIN demo)

\* A run to the end of either parser, from wherever the last call left it, makes the
\* visitor see every command, message, entity change and tick end of the rest of the
\* recording, in order and once; if it breaks off, those up to the failure.  After a
\* failure it goes on behind the command that failed, and misses no command, message or
\* end of a tick after it.
RestIsVisited ==
  call.name \in {"run_to_end"} \cup AsyncCalls /\ ~call.muted =>
    LET rest == RecordedVisits(call.from, Len(demo))
    IN IF ~call.was_whole
       THEN parser.result = "ok" => CommandsOf(parser.log) = CommandsOf(rest)
       ELSE IF parser.result = "error" THEN IsStrictPrefix(parser.log, rest)
       ELSE parser.log = rest

\* "concatenating the per-ordinal outputs in order reproduces a single
\* end-to-end parse exactly": a segment's output is the part that lies in the
\* segment of what run_to_end on a new parser outputs.  So it is after a call that
\* failed, but for the first segment with a visitor that was left not collecting.
SegmentsReproduceParse ==
  call.name = "run_full_packet" /\ call.whole /\ (call.muted => call.arg > 0) =>
    LET segment == SegmentStart(call.arg)+1..SegmentEnd(call.arg)
    IN parser.log = Only(run_to_end(NewParser).log, Callbacks, segment)
==============================================================================
