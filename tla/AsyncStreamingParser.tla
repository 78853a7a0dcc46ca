-------------------------- MODULE AsyncStreamingParser -------------------------
(***************************************************************************)
(* haste_core::parser::AsyncStreamingParser: the parser of a stream that   *)
(* cannot be rewound.  It has its own copy of the command and message      *)
(* handlers; what is written here is where they are not those of Parser.   *)
(* A run is spread over the waits for its stream, but only the visitor can *)
(* look at the parser meanwhile, so a run is a fold like the others; how   *)
(* the commands arrive is the matter of the packet channel streams.        *)
(***************************************************************************)
EXTENDS DemoParser

\* There is no warm-up, so no entity packet is skipped.
AsyncMatchMessage(p, m) ==
  IF p.result = "ok" /\ m.msg = "SvcPacketEntities"
  THEN handle_svc_packet_entities(p, m)
  ELSE MatchMessage(p, m)

AsyncHandleMessage(p, m) ==
  IF p.result = "error" THEN p ELSE AsyncMatchMessage(on_packet(p, m), m)

async_handle_cmd_packet(p, messages) == FoldLeft(AsyncHandleMessage, p, messages)

async_handle_cmd_full_packet(p, c) ==
  LET q == handle_cmd_string_tables(p, c.tables)
  IN IF q.result = "error" THEN q ELSE async_handle_cmd_packet(q, c.messages)

async_handle_cmd(q, c) ==
  LET p == on_cmd(q)
  IN IF p.result = "error" THEN p
     ELSE CASE c.cmd \in {"DemPacket", "DemSignonPacket"} -> async_handle_cmd_packet(p, c.messages)
            [] c.cmd = "DemSendTables" -> [p EXCEPT !.ctx.serializers = TRUE]
            [] c.cmd = "DemClassInfo"  -> handle_class_info(p)
            [] c.cmd = "DemFullPacket" -> async_handle_cmd_full_packet(p, c)
            [] OTHER                   -> p

\* Mutant of ClearFor: what is cleared is what the last full packet restated.
ClearAfter(p, c) ==
  IF p.pos = 1 \/ demo[p.pos - 1].cmd # "DemFullPacket" THEN p
  ELSE [p EXCEPT !.ctx.entities = <<>>, !.ctx.baseline_entity = Missing]

\* EntityContainer::clear, before a full packet that will restate every entity.
ClearFor(p, c) ==
  IF c.cmd # "DemFullPacket" THEN p
  ELSE [p EXCEPT !.ctx.entities = <<>>, !.ctx.baseline_entity = Missing]

\* One turn of the loop of run_internal; s is the parser and the argument.
AsyncCommand(s, k) ==
  IF s.p.result = "error" THEN s
  ELSE LET p == ReadHeader(s.p, k)
           q == async_handle_cmd(IF s.reset_on_full_packet THEN ClearFor(p, demo[k]) ELSE p, demo[k])
       IN [s EXCEPT !.p = IF q.result = "ok" /\ q.ctx.prev_tick # q.ctx.tick
                          THEN on_tick_end(q) ELSE q]

\* Until an error or the end of the stream, which is Ok.
run_internal(p, reset_on_full_packet) ==
  FoldLeft(AsyncCommand, [p |-> [p EXCEPT !.result = "ok"],
                          reset_on_full_packet |-> reset_on_full_packet],
           [n \in 1..(Len(demo) - p.pos) |-> p.pos + n]).p

async_run_to_end(p)       == run_internal(p, FALSE)
run_to_end_final_state(p) == run_internal(p, TRUE)
==============================================================================
