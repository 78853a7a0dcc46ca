------------------------------ MODULE DemoParser ------------------------------
(***************************************************************************)
(* haste_core::parser::Parser over a seekable demo: run_to_end,            *)
(* run_to_tick, scan_full_packet_ticks and run_full_packet, with the       *)
(* command and message handlers they share and the parts of Context those  *)
(* write.  The parser is one thread behind &mut self, so a call is one     *)
(* step; its loop over the commands is a fold.                             *)
(*                                                                         *)
(* Data is reduced to what the handlers tell apart.  Entities have one     *)
(* class and two fields: `base`, which a CREATE takes from the instance    *)
(* baseline unless it restates it, and `state`, which deltas carry.  Each  *)
(* string table has one item, known by a version number; version 0 of the  *)
(* instance baseline table is an item that is not there yet.  The stream   *)
(* position counts commands.                                               *)
(***************************************************************************)
EXTENDS Integers, Sequences, SequencesExt, Functions

CONSTANTS
  DEFAULT_FULL_PACKET_INTERVAL,  \* full packet spacing at tick interval 1/30
  TickRatio,                     \* DEFAULT_TICK_INTERVAL / tick_interval of the recording
  FullPacketSlack,               \* the literal 100 of run_to_tick
  Indexes,                       \* the entity indexes a recording uses
  MaxState,                      \* bound: states an entity field goes through
  MaxVersion,                    \* bound: versions of a string table item
  BaselineMayChange,             \* whether a recording rewrites a baseline it has sent
  MaxBody,                       \* bound: commands after the signon part
  MaxTroubled,                   \* bound: such commands where a call may fail
  MaxCalls                       \* bound: calls made on one parser

ASSUME DemoAssumption ==
  /\ DEFAULT_FULL_PACKET_INTERVAL \in Nat \ {0}
  /\ TickRatio \in Nat \ {0}
  /\ FullPacketSlack \in Nat
  /\ Indexes \subseteq Nat
  /\ MaxState \in Nat /\ MaxVersion \in Nat /\ MaxCalls \in Nat
  /\ MaxBody \in Nat /\ MaxTroubled \in Nat
  /\ BaselineMayChange \in BOOLEAN

VARIABLES
  demo,      \* the recording: a sequence of commands
  game,      \* what the recorded game was at after each command, and its events
  parser,    \* the Parser value: stream position, Context, flags, visitor output
  call       \* the last public call: its name, argument and start, how the parser was
             \* when it began and is now, what failed in it; and their number

vars == <<demo, game, parser, call>>

INSTANCE_BASELINE_TABLE_NAME == "instancebaseline"
Tables == {INSTANCE_BASELINE_TABLE_NAME, "userinfo"}

Entity == [base : 0..MaxVersion, state : 0..MaxState]
Missing == -1      \* a field that an entry does not restate, a baseline not cached

------------------------------------------------------------------------------
(* Context::new, and a parser that was just built on the demo.             *)
NewContext ==
  [string_tables        |-> <<>>,    \* a function on the tables that exist
   instance_baseline    |-> 0,
   serializers          |-> FALSE,
   entity_classes       |-> FALSE,
   entities             |-> <<>>,    \* a function on the indexes in use
   baseline_entity      |-> Missing, \* baseline_entities, for the one class
   full_packet_interval |-> 0,
   tick                 |-> -1,
   prev_tick            |-> -1]

\* A callback of the visitor, at a command, that returns an error; or none does.
NoFailure == [at |-> 0, kind |-> "none"]

NewParser ==
  [pos |-> 0, ctx |-> NewContext, skip_entity_packets |-> FALSE,
   collecting |-> TRUE, fails |-> NoFailure, log |-> <<>>, result |-> "ok"]

Bail(p) == [p EXCEPT !.result = "error"]

\* What a visitor that honours set_collecting records of a callback.
Visit(p, kind, index, entity) ==
  IF p.fails = [at |-> p.pos, kind |-> kind] THEN Bail(p)
  ELSE IF p.collecting
  THEN [p EXCEPT !.log = Append(@, [at |-> p.pos, kind |-> kind, index |-> index,
                                    entity |-> entity])]
  ELSE p

NoEntity == [base |-> 0, state |-> 0]
on_cmd(p)       == Visit(p, "Cmd", 0, NoEntity)
on_packet(p, m) == Visit(p, m.msg, 0, NoEntity)
on_tick_end(p)  == Visit(p, "TickEnd", 0, NoEntity)

------------------------------------------------------------------------------
(* Messages.                                                               *)

\* InstanceBaseline::update from the instance baseline table, whose keys are those of
\* classes here (StringTables has the others).
UpdateBaseline(ctx) ==
  IF ctx.string_tables[INSTANCE_BASELINE_TABLE_NAME] = 0 THEN ctx
  ELSE [ctx EXCEPT !.instance_baseline = ctx.string_tables[INSTANCE_BASELINE_TABLE_NAME]]

handle_svc_create_string_table(p, m) ==
  LET ctx == [p.ctx EXCEPT !.string_tables =
                [t \in DOMAIN @ \cup {m.table} |->
                   IF t = m.table THEN m.version ELSE p.ctx.string_tables[t]]]
  IN [p EXCEPT !.ctx = IF m.table = INSTANCE_BASELINE_TABLE_NAME /\ ctx.entity_classes
                       THEN UpdateBaseline(ctx) ELSE ctx]

handle_svc_update_string_table(p, m) ==
  IF m.table \notin DOMAIN p.ctx.string_tables THEN Bail(p)
  ELSE LET ctx == [p.ctx EXCEPT !.string_tables[m.table] = m.version]
       IN [p EXCEPT !.ctx = IF m.table = INSTANCE_BASELINE_TABLE_NAME /\ ctx.entity_classes
                            THEN UpdateBaseline(ctx) ELSE ctx]

\* Mutant of handle_create: the baseline of the class is not applied.
HandleCreateBare(p, e) ==
  LET entity == [base |-> e.base, state |-> e.state]
  IN Visit([p EXCEPT !.ctx.entities = [i \in DOMAIN @ \cup {e.index} |->
                                         IF i = e.index THEN entity
                                         ELSE p.ctx.entities[i]]],
           "CREATE", e.index, entity)

\* EntityContainer::handle_create: the baseline of a class is decoded once and
\* then copied for every later create of that class.
handle_create(p, e) ==
  LET cached == IF p.ctx.baseline_entity = Missing THEN p.ctx.instance_baseline
                ELSE p.ctx.baseline_entity
      entity == [base |-> IF e.base = Missing THEN cached ELSE e.base, state |-> e.state]
      others == DOMAIN p.ctx.entities \ {e.index}
  IN Visit([p EXCEPT !.ctx.baseline_entity = cached,
                     !.ctx.entities = [i \in others \cup {e.index} |->
                                         IF i = e.index THEN entity
                                         ELSE p.ctx.entities[i]]],
           "CREATE", e.index, entity)

handle_update(p, e) ==
  IF e.index \notin DOMAIN p.ctx.entities THEN p
  ELSE LET entity == [p.ctx.entities[e.index] EXCEPT !.state = e.state]
       IN Visit([p EXCEPT !.ctx.entities[e.index] = entity], "UPDATE", e.index, entity)

\* handle_delete and handle_leave.
handle_gone(p, e) ==
  IF e.index \notin DOMAIN p.ctx.entities THEN p
  ELSE Visit([p EXCEPT !.ctx.entities = Restrict(@, DOMAIN @ \ {e.index})],
             e.delta, e.index, p.ctx.entities[e.index])

HandleEntry(p, e) ==
  IF p.result = "error" THEN p
  ELSE CASE e.delta = "CREATE" -> handle_create(p, e)
         [] e.delta = "UPDATE" -> handle_update(p, e)
         [] OTHER              -> handle_gone(p, e)

handle_svc_packet_entities(p, m) ==
  IF ~p.ctx.entity_classes \/ ~p.ctx.serializers THEN Bail(p)
  ELSE FoldLeft(HandleEntry, p, m.entries)

\* What is done with a message that the visitor has seen.
MatchMessage(p, m) ==
  IF p.result = "error" THEN p
  ELSE CASE m.msg = "SvcCreateStringTable"  -> handle_svc_create_string_table(p, m)
         [] m.msg = "SvcUpdateStringTable"  -> handle_svc_update_string_table(p, m)
         [] m.msg = "SvcPacketEntities"     ->
              IF p.skip_entity_packets THEN p ELSE handle_svc_packet_entities(p, m)
         [] m.msg = "SvcServerInfo"         ->
              [p EXCEPT !.ctx.full_packet_interval = DEFAULT_FULL_PACKET_INTERVAL * m.ratio]

\* Mutant of HandleMessage: the visitor sees a message behind what it changes.
HandleThenShow(p, m) ==
  LET q == MatchMessage(p, m) IN IF q.result = "error" THEN q ELSE on_packet(q, m)

HandleMessage(p, m) ==
  IF p.result = "error" THEN p ELSE MatchMessage(on_packet(p, m), m)

handle_cmd_packet(p, messages) == FoldLeft(HandleMessage, p, messages)

------------------------------------------------------------------------------
(* Commands.                                                               *)

\* Mutant of handle_cmd_string_tables: the instance baseline is not refreshed.
HandleStringTablesOnly(p, tables) ==
  [p EXCEPT !.ctx.string_tables =
     [t \in DOMAIN @ |-> IF t \in DOMAIN tables THEN tables[t]
                        ELSE p.ctx.string_tables[t]]]

\* StringTableContainer::do_full_update touches only tables that exist.
handle_cmd_string_tables(p, tables) ==
  LET ctx == [p.ctx EXCEPT !.string_tables =
                [t \in DOMAIN @ |-> IF t \in DOMAIN tables THEN tables[t]
                                   ELSE p.ctx.string_tables[t]]]
  IN IF p.result = "error" THEN p
     ELSE IF ~ctx.entity_classes THEN Bail([p EXCEPT !.ctx = ctx])
     ELSE [p EXCEPT !.ctx = IF INSTANCE_BASELINE_TABLE_NAME \in DOMAIN ctx.string_tables
                            THEN UpdateBaseline(ctx) ELSE ctx]

\* with_packet is FALSE where run_to_tick takes the packet out of the command.
handle_cmd_full_packet(p, c, with_packet) ==
  LET q == handle_cmd_string_tables(p, c.tables)
  IN IF q.result = "error" \/ ~with_packet THEN q ELSE handle_cmd_packet(q, c.messages)

handle_class_info(p) ==
  IF p.ctx.entity_classes THEN p
  ELSE LET ctx == [p.ctx EXCEPT !.entity_classes = TRUE]
       IN [p EXCEPT !.ctx = IF INSTANCE_BASELINE_TABLE_NAME \in DOMAIN ctx.string_tables
                            THEN UpdateBaseline(ctx) ELSE ctx]

handle_cmd(q, c) ==
  LET p == on_cmd(q)
  IN IF p.result = "error" THEN p
     ELSE CASE c.cmd \in {"DemPacket", "DemSignonPacket"} -> handle_cmd_packet(p, c.messages)
            [] c.cmd = "DemSendTables" -> [p EXCEPT !.ctx.serializers = TRUE]
            [] c.cmd = "DemClassInfo"  -> handle_class_info(p)
            [] c.cmd = "DemFullPacket" -> handle_cmd_full_packet(p, c, TRUE)
            [] OTHER                   -> p

\* Mutant of dispatch: a tick ends with every command.
DispatchEndsTick(flow, p, c) ==
  IF flow # "Handle" THEN p
  ELSE LET q == handle_cmd(p, c) IN IF q.result = "ok" THEN on_tick_end(q) ELSE q

\* Handle, Skip or Ignore a command whose header is read.
dispatch(flow, p, c) ==
  IF flow # "Handle" THEN p
  ELSE LET q == handle_cmd(p, c)
       IN IF q.result = "ok" /\ q.ctx.prev_tick # q.ctx.tick THEN on_tick_end(q) ELSE q

\* Mutant of reset: the stream is not rewound.
ResetInPlace(p) ==
  [p EXCEPT !.ctx.entities = <<>>, !.ctx.baseline_entity = Missing,
            !.ctx.string_tables = <<>>, !.ctx.instance_baseline = 0,
            !.ctx.tick = -1, !.ctx.prev_tick = -1]

reset(p) ==
  [p EXCEPT !.pos = 0,
            !.ctx.entities = <<>>, !.ctx.baseline_entity = Missing,
            !.ctx.string_tables = <<>>, !.ctx.instance_baseline = 0,
            !.ctx.tick = -1, !.ctx.prev_tick = -1]

------------------------------------------------------------------------------
(* The handlers the public calls give to run and run_seekable.  s is the   *)
(* state of the loop: the parser p, its header already read, and l, what   *)
(* the closure captured.  They set flow to what is to be done with c.      *)

\* Mutant of HasFullPacketAhead: off by one.
HasFullPacketAtOrAhead(p, target_tick) ==
  target_tick - p.ctx.tick >= p.ctx.full_packet_interval + FullPacketSlack

HasFullPacketAhead(p, target_tick) ==
  target_tick - p.ctx.tick > p.ctx.full_packet_interval + FullPacketSlack

\* The signon part, up to and with DemSyncTick.
Initialize(s, c) ==
  [s EXCEPT !.flow = "Handle", !.l.first_sync_tick = c.cmd = "DemSyncTick"]

ApplyFullPacket(s, c) ==
  LET ahead == HasFullPacketAhead(s.p, s.l.target_tick)
      q     == handle_cmd_full_packet(on_cmd(s.p), c, ~ahead)
  IN [s EXCEPT !.flow = "Ignore", !.l.last_full_packet = ~ahead,
               !.p = IF q.result = "ok" THEN on_tick_end(q) ELSE q]

SeekHandler(s, c) ==
  CASE c.tick > s.l.target_tick -> [s EXCEPT !.flow = "Break"]
    [] c.tick <= s.l.target_tick /\ ~s.l.first_sync_tick -> Initialize(s, c)
    [] OTHER ->
         IF c.cmd = "DemFullPacket" THEN ApplyFullPacket(s, c)
         ELSE [s EXCEPT !.flow = IF s.l.last_full_packet THEN "Handle" ELSE "Skip"]

AtFullPacket(s) ==
  LET this_ordinal == s.l.fp_seen
      t == [s EXCEPT !.l.fp_seen = @ + 1]
  IN CASE this_ordinal < s.l.ordinal -> [t EXCEPT !.flow = "Skip"]
       [] this_ordinal = s.l.ordinal ->
            [t EXCEPT !.flow = "Handle", !.l.collecting = TRUE,
                      !.p.collecting = TRUE, !.p.skip_entity_packets = FALSE]
       [] OTHER -> [t EXCEPT !.flow = "Break"]

SegmentHandler(s, c) ==
  CASE c.cmd = "DemFullPacket" -> AtFullPacket(s)
    [] c.cmd # "DemFullPacket" /\ s.l.collecting -> [s EXCEPT !.flow = "Handle"]
    [] OTHER -> [s EXCEPT !.flow =
         IF c.cmd \in {"DemSendTables", "DemClassInfo", "DemSignonPacket"}
         THEN "Handle" ELSE "Skip"]

Handler(s, c) ==
  CASE s.l.run = "run_to_tick"     -> SeekHandler(s, c)
    [] s.l.run = "run_full_packet" -> SegmentHandler(s, c)
    [] s.l.run = "run_to_end"      -> [s EXCEPT !.flow = "Handle"]

\* read_cmd_header and the ticks run keeps of it; what is done on "Break".
ReadHeader(p, k) ==
  [p EXCEPT !.pos = k, !.ctx.prev_tick = p.ctx.tick, !.ctx.tick = demo[k].tick]
UnreadHeader(p) == [p EXCEPT !.pos = @ - 1, !.ctx.tick = p.ctx.prev_tick]

RunCommand(s, k) ==
  IF s.flow = "Break" \/ s.p.result = "error" THEN s
  ELSE LET h == Handler([s EXCEPT !.p = ReadHeader(s.p, k)], demo[k])
       IN [h EXCEPT !.p = IF h.flow = "Break" THEN UnreadHeader(h.p)
                          ELSE dispatch(h.flow, h.p, demo[k])]

\* run and run_seekable: on from the position, until "Break", an error or the end.
run_seekable(p, locals) ==
  FoldLeft(RunCommand, [p |-> [p EXCEPT !.result = "ok"], flow |-> "Handle", l |-> locals],
           [n \in 1..(Len(demo) - p.pos) |-> p.pos + n]).p

------------------------------------------------------------------------------
(* The public calls, as functions of the parser.                           *)

run_to_end(p) == run_seekable(p, [run |-> "run_to_end"])

run_to_tick(p, target_tick) ==
  run_seekable(reset(p), [run |-> "run_to_tick", target_tick |-> target_tick,
                          first_sync_tick |-> FALSE, last_full_packet |-> FALSE])

\* One turn of the loop of scan_full_packet_ticks.
ScanCommand(found, k) == IF demo[k].cmd = "DemFullPacket" THEN Append(found, k) ELSE found

\* Where all full packets are, and their ticks; the parser is left rewound.
FullPackets ==
  LET scanned[k \in 0..Len(demo)] == IF k = 0 THEN <<>> ELSE ScanCommand(scanned[k - 1], k)
  IN scanned[Len(demo)]
scan_full_packet_ticks(p) ==
  [parser |-> [reset(p) EXCEPT !.result = "ok"],
   ticks |-> [o \in DOMAIN FullPackets |-> demo[FullPackets[o]].tick]]

\* Mutant of Ended: the flag is left as it is if the run fails.
EndedWell(p) == IF p.result = "error" THEN p ELSE [p EXCEPT !.skip_entity_packets = FALSE]

\* Entity packets are handled again, whatever the run came to.
Ended(p) == [p EXCEPT !.skip_entity_packets = FALSE]

\* Before a later segment's full packet the visitor collects nothing and
\* entities are not decoded.
run_full_packet(p, ordinal) ==
  LET warm_up == ordinal # 0
      warming == [reset(p) EXCEPT !.skip_entity_packets = warm_up,
                                  !.collecting = IF warm_up THEN FALSE ELSE @]
  IN Ended(run_seekable(warming, [run |-> "run_full_packet", ordinal |-> ordinal,
                                  fp_seen |-> 0, collecting |-> ~warm_up]))
==============================================================================
