--------------------------- MODULE DemoSessionProofs ---------------------------
(***************************************************************************)
(* A session on one parser, for recordings, versions and sessions of any   *)
(* size.  TypeOK is not inductive: what a call leaves in the parser is     *)
(* made of what is in the commands, so the types of the parser rest on     *)
(* those of the recording, and on what is known of it.  RecordingInv says  *)
(* what the recorder promises: every command changes the recorded game as  *)
(* it says, a class has its baseline before its first entity, and ticks    *)
(* and full packets are where they should be.                              *)
(*                                                                         *)
(* A call is one step, and its loop a fold over the commands.  LoopFacts   *)
(* makes of a fold the sequence of the loop's states; an instance of it    *)
(* for each loop gives a lemma on one turn its induction.                  *)
(*                                                                         *)
(* ReachedInv says where the parser is of the recording.  A whole call     *)
(* leaves the Context of a parse from the start (Reached); inside a seek   *)
(* and a segment the Context is behind it (Warm) until the full packet     *)
(* that brings it there, and Seeking and Segmenting say of every turn      *)
(* whether that one has been met.                                          *)
(***************************************************************************)
EXTENDS DemoSession, SequenceTheorems, FiniteSetTheorems, TLAPS

------------------------------------------------------------------------------
(* Types.                                                                  *)

\* Functions on some of D.
Partial(D, R) == UNION {[d -> R] : d \in SUBSET D}

Versions == 0..MaxVersion

\* What a Context holds, and what the parser of it.
Contexts ==
  [string_tables : Partial(Tables, Versions), instance_baseline : Versions,
   serializers : BOOLEAN, entity_classes : BOOLEAN,
   entities : Partial(Indexes, Entity), baseline_entity : Versions \cup {Missing},
   full_packet_interval : Nat, tick : Ticks, prev_tick : Ticks]

Visited == [at : Nat, kind : Callbacks, index : Nat, entity : Entity]

Parsers ==
  [pos : Nat, ctx : Contexts, skip_entity_packets : BOOLEAN, collecting : BOOLEAN,
   fails : [at : Nat, kind : Callbacks \cup {"none"}], log : Seq(Visited), result : {"ok", "error"}]

\* What no handler of a command touches.
Same(p, q) ==
  /\ q.pos = p.pos /\ q.fails = p.fails /\ q.collecting = p.collecting
  /\ q.skip_entity_packets = p.skip_entity_packets
  /\ q.ctx.tick = p.ctx.tick /\ q.ctx.prev_tick = p.ctx.prev_tick

\* Nor do two handlers, one after the other.
LEMMA SameTransitive ==
  ASSUME NEW p, NEW q, NEW r, Same(p, q), Same(q, r) PROVE Same(p, r)
BY DEF Same

\* A partial function is a function with its domain and values where they should be.
LEMMA PartialFacts ==
  ASSUME NEW D, NEW R, NEW f
  PROVE  f \in Partial(D, R) <=> /\ f = [x \in DOMAIN f |-> f[x]]
                                 /\ DOMAIN f \subseteq D /\ \A x \in DOMAIN f : f[x] \in R
<1>1. ASSUME f \in Partial(D, R)
      PROVE  f = [x \in DOMAIN f |-> f[x]] /\ DOMAIN f \subseteq D /\ \A x \in DOMAIN f : f[x] \in R
  <2>1. PICK d \in SUBSET D : f \in [d -> R]  BY <1>1 DEF Partial
  <2> QED  BY <2>1
<1>2. ASSUME f = [x \in DOMAIN f |-> f[x]], DOMAIN f \subseteq D, \A x \in DOMAIN f : f[x] \in R
      PROVE  f \in Partial(D, R)
  <2>1. f \in [DOMAIN f -> R]  BY <1>2
  <2> QED  BY <1>2, <2>1 DEF Partial
<1> QED  BY <1>1, <1>2

\* A function is partial where it is written out as one.
LEMMA PartialIs ==
  ASSUME NEW D, NEW R, NEW d \in SUBSET D, NEW f \in [d -> R]
  PROVE  f \in Partial(D, R)
BY DEF Partial

\* Nothing is in an empty function.
LEMMA EmptyIsPartial == ASSUME NEW D, NEW R PROVE <<>> \in Partial(D, R) /\ DOMAIN <<>> = {}
<1>1. <<>> = [x \in {} |-> x]  OBVIOUS
<1>2. <<>> \in [{} -> R]  BY <1>1
<1> QED  BY <1>2 DEF Partial

------------------------------------------------------------------------------
(* Handlers keep the types.                                                *)

\* The index of an entity is a number.
LEMMA IndexFacts == Indexes \subseteq Nat /\ NoEntity \in Entity /\ 0 \in Versions
                    /\ Missing \notin Versions
BY DemoAssumption DEF NoEntity, Entity, Versions, Missing

\* A callback may fail and fill the visitor's log; that is all.
LEMMA VisitFacts ==
  ASSUME NEW p \in Parsers, NEW kind \in Callbacks, NEW index \in Nat, NEW entity \in Entity,
         NEW q, q = Visit(p, kind, index, entity)
  PROVE  /\ q \in Parsers /\ Same(p, q) /\ q.ctx = p.ctx
         /\ q.result = p.result \/ (q.result = "error" /\ p.fails.at = p.pos)
<1> DEFINE x == [at |-> p.pos, kind |-> kind, index |-> index, entity |-> entity]
<1>1. CASE p.fails = [at |-> p.pos, kind |-> kind]
  <2>1. q = [p EXCEPT !.result = "error"]  BY <1>1 DEF Visit, Bail
  <2> QED  BY <1>1, <2>1 DEF Parsers, Same
<1>2. CASE p.fails # [at |-> p.pos, kind |-> kind] /\ p.collecting
  <2>1. q = [p EXCEPT !.log = Append(@, x)]  BY <1>2 DEF Visit
  <2>2. x \in Visited  BY DEF Visited, Parsers
  <2>3. Append(p.log, x) \in Seq(Visited)
    <3>1. p.log \in Seq(Visited)  BY DEF Parsers
    <3> HIDE DEF x
    <3> QED  BY <2>2, <3>1, AppendProperties
  <2> HIDE DEF x
  <2> QED  BY <1>2, <2>1, <2>3 DEF Parsers, Same
<1>3. CASE p.fails # [at |-> p.pos, kind |-> kind] /\ ~p.collecting
  <2>1. q = p  BY <1>3 DEF Visit
  <2> QED  BY <2>1 DEF Same
<1> QED  BY <1>1, <1>2, <1>3

\* The parser with another context.
LEMMA WithContext ==
  ASSUME NEW p \in Parsers, NEW c \in Contexts, c.tick = p.ctx.tick, c.prev_tick = p.ctx.prev_tick,
         NEW q, q = [p EXCEPT !.ctx = c]
  PROVE  q \in Parsers /\ Same(p, q) /\ q.ctx = c /\ q.result = p.result
BY DEF Parsers, Same

\* A handler that bails changes nothing but the result.
LEMMA BailFacts ==
  ASSUME NEW p \in Parsers, NEW q, q = Bail(p)
  PROVE  q \in Parsers /\ Same(p, q) /\ q.ctx = p.ctx /\ q.result = "error"
BY DEF Parsers, Same, Bail

\* Entries of the entity data of a packet.
Entries ==
  [delta : {"CREATE", "UPDATE", "DELETE", "LEAVE"}, index : Indexes,
   base : Versions \cup {Missing}, state : 0..MaxState]

\* The context after a CREATE.
Cached(c) == IF c.baseline_entity = Missing THEN c.instance_baseline ELSE c.baseline_entity
Created(c, e) == [base |-> IF e.base = Missing THEN Cached(c) ELSE e.base, state |-> e.state]
AfterCreate(c, e) ==
  [c EXCEPT !.baseline_entity = Cached(c),
            !.entities = [i \in DOMAIN c.entities \cup {e.index} |->
                            IF i = e.index THEN Created(c, e) ELSE c.entities[i]]]

\* The entity of a CREATE is a complete one, and so is the context after it.
LEMMA AfterCreateFacts ==
  ASSUME NEW c \in Contexts, NEW e \in Entries, NEW d, d = AfterCreate(c, e)
  PROVE  /\ d \in Contexts /\ d.tick = c.tick /\ d.prev_tick = c.prev_tick
         /\ Created(c, e) \in Entity
<1> DEFINE f == [i \in DOMAIN c.entities \cup {e.index} |->
                   IF i = e.index THEN Created(c, e) ELSE c.entities[i]]
<1>1. Cached(c) \in Versions  BY DEF Cached, Contexts
<1>2. Created(c, e) \in Entity  BY <1>1 DEF Created, Entries, Entity, Versions
<1>3. c.entities \in Partial(Indexes, Entity) /\ e.index \in Indexes  BY DEF Contexts, Entries
<1>4. f \in Partial(Indexes, Entity)
  <2>1. DOMAIN c.entities \subseteq Indexes /\ \A i \in DOMAIN c.entities : c.entities[i] \in Entity
    BY <1>3, PartialFacts
  <2>2. f \in [DOMAIN c.entities \cup {e.index} -> Entity]  BY <1>2, <2>1
  <2>3. DOMAIN c.entities \cup {e.index} \in SUBSET Indexes  BY <1>3, <2>1
  <2> HIDE DEF f
  <2> QED  BY <2>2, <2>3, PartialIs
<1>5. d = [c EXCEPT !.baseline_entity = Cached(c), !.entities = f]  BY DEF AfterCreate
<1> HIDE DEF f
<1> QED  BY <1>1, <1>2, <1>4, <1>5 DEF Contexts

\* handle_create: the context is that after the CREATE, also where the visitor fails.
LEMMA CreateFacts ==
  ASSUME NEW p \in Parsers, NEW e \in Entries, NEW q, q = handle_create(p, e)
  PROVE  /\ q \in Parsers /\ Same(p, q) /\ q.ctx = AfterCreate(p.ctx, e)
         /\ q.result = p.result \/ (q.result = "error" /\ p.fails.at = p.pos)
<1> DEFINE c == AfterCreate(p.ctx, e)
           r == [p EXCEPT !.ctx = c]
<1>1. p.ctx \in Contexts  BY DEF Parsers
<1>2. c \in Contexts /\ c.tick = p.ctx.tick /\ c.prev_tick = p.ctx.prev_tick /\ Created(p.ctx, e) \in Entity
  BY <1>1, AfterCreateFacts
<1>3. q = Visit(r, "CREATE", e.index, Created(p.ctx, e))
  <2>1. (DOMAIN p.ctx.entities \ {e.index}) \cup {e.index} = DOMAIN p.ctx.entities \cup {e.index}  OBVIOUS
  <2> QED  BY <2>1, <1>1 DEF handle_create, AfterCreate, Created, Cached, Parsers, Contexts
<1> HIDE DEF c
<1>4. r \in Parsers /\ Same(p, r) /\ r.ctx = c /\ r.result = p.result  BY <1>2, WithContext
<1> HIDE DEF r
<1>5. e.index \in Nat /\ "CREATE" \in Callbacks  BY IndexFacts DEF Entries, Callbacks, Deltas, Svcs
<1>6. /\ q \in Parsers /\ Same(r, q) /\ q.ctx = r.ctx
      /\ q.result = r.result \/ (q.result = "error" /\ r.fails.at = r.pos)
  <2> DEFINE x == Created(p.ctx, e)
             n == e.index
             k == "CREATE"
  <2>1. x \in Entity /\ n \in Nat /\ k \in Callbacks /\ q = Visit(r, k, n, x)  BY <1>2, <1>3, <1>5
  <2> HIDE DEF x, n, k
  <2> QED  BY <1>4, <2>1, VisitFacts
<1>7. Same(p, q)  BY <1>4, <1>6, SameTransitive
<1>8. r.fails = p.fails /\ r.pos = p.pos  BY <1>4 DEF Same
<1> QED  BY <1>4, <1>6, <1>7, <1>8 DEF c
\* The context after an UPDATE, and after a DELETE or LEAVE, of an entity that is there.
AfterUpdate(c, e) ==
  [c EXCEPT !.entities = [i \in DOMAIN c.entities |->
                            IF i = e.index THEN [c.entities[i] EXCEPT !.state = e.state]
                            ELSE c.entities[i]]]
AfterGone(c, e) ==
  [c EXCEPT !.entities = [i \in DOMAIN c.entities \ {e.index} |-> c.entities[i]]]

\* An UPDATE, and a DELETE or a LEAVE, keep the types.
LEMMA AfterUpdateFacts ==
  ASSUME NEW c \in Contexts, NEW e \in Entries, NEW d, d = AfterUpdate(c, e) \/ d = AfterGone(c, e)
  PROVE  d \in Contexts /\ d.tick = c.tick /\ d.prev_tick = c.prev_tick
<1> DEFINE f == [i \in DOMAIN c.entities |->
                   IF i = e.index THEN [c.entities[i] EXCEPT !.state = e.state] ELSE c.entities[i]]
           g == [i \in DOMAIN c.entities \ {e.index} |-> c.entities[i]]
<1>1. c.entities \in Partial(Indexes, Entity)  BY DEF Contexts
<1>2. DOMAIN c.entities \subseteq Indexes /\ \A i \in DOMAIN c.entities : c.entities[i] \in Entity
  BY <1>1, PartialFacts
<1>3. f \in Partial(Indexes, Entity)
  <2>1. e.state \in 0..MaxState  BY DEF Entries
  <2>2. f \in [DOMAIN c.entities -> Entity]  BY <1>2, <2>1 DEF Entity
  <2> HIDE DEF f
  <2> QED  BY <1>2, <2>2, PartialIs
<1>4. g \in Partial(Indexes, Entity)
  <2>1. g \in [DOMAIN c.entities \ {e.index} -> Entity]  BY <1>2
  <2>2. DOMAIN c.entities \ {e.index} \in SUBSET Indexes  BY <1>2
  <2> HIDE DEF g
  <2> QED  BY <2>1, <2>2, PartialIs
<1>5. d = [c EXCEPT !.entities = f] \/ d = [c EXCEPT !.entities = g]
  BY DEF AfterUpdate, AfterGone
<1> HIDE DEF f, g
<1> QED  BY <1>3, <1>4, <1>5 DEF Contexts

\* handle_update: an entity that is not there is left alone.
LEMMA UpdateFacts ==
  ASSUME NEW p \in Parsers, NEW e \in Entries, NEW q, q = handle_update(p, e)
  PROVE  /\ q \in Parsers /\ Same(p, q)
         /\ q.ctx = IF e.index \in DOMAIN p.ctx.entities THEN AfterUpdate(p.ctx, e) ELSE p.ctx
         /\ q.result = p.result \/ (q.result = "error" /\ p.fails.at = p.pos)
<1>1. CASE e.index \notin DOMAIN p.ctx.entities  BY <1>1 DEF handle_update, Same
<1>2. CASE e.index \in DOMAIN p.ctx.entities
  <2> DEFINE c == AfterUpdate(p.ctx, e)
             r == [p EXCEPT !.ctx = c]
             x == [p.ctx.entities[e.index] EXCEPT !.state = e.state]
             n == e.index
             k == "UPDATE"
  <2>1. p.ctx \in Contexts  BY DEF Parsers
  <2>2. c \in Contexts /\ c.tick = p.ctx.tick /\ c.prev_tick = p.ctx.prev_tick
    BY <2>1, AfterUpdateFacts
  <2>3. p.ctx.entities \in Partial(Indexes, Entity)  BY <2>1 DEF Contexts
  <2>4. p.ctx.entities = [i \in DOMAIN p.ctx.entities |-> p.ctx.entities[i]]
        /\ p.ctx.entities[e.index] \in Entity
    BY <1>2, <2>3, PartialFacts
  <2>5. [p EXCEPT !.ctx.entities[e.index] = x] = r
    <3>1. [p.ctx.entities EXCEPT ![e.index] = x]
            = [i \in DOMAIN p.ctx.entities |-> IF i = e.index THEN x ELSE p.ctx.entities[i]]
      BY <1>2, <2>4
    <3>2. c = [p.ctx EXCEPT !.entities = [p.ctx.entities EXCEPT ![e.index] = x]]
      BY <3>1 DEF AfterUpdate
    <3> QED  BY <2>1, <3>2 DEF Parsers, Contexts
  <2>6. q = Visit(r, k, n, x)  BY <1>2, <2>5 DEF handle_update
  <2>7. x \in Entity  BY <2>4 DEF Entity, Entries
  <2> HIDE DEF c
  <2>8. r \in Parsers /\ Same(p, r) /\ r.ctx = c /\ r.result = p.result  BY <2>2, WithContext
  <2>9. n \in Nat /\ k \in Callbacks  BY IndexFacts DEF Entries, Callbacks, Deltas, Svcs
  <2> HIDE DEF r, n, k, x
  <2>10. /\ q \in Parsers /\ Same(r, q) /\ q.ctx = r.ctx
         /\ q.result = r.result \/ (q.result = "error" /\ r.fails.at = r.pos)
    BY <2>6, <2>7, <2>8, <2>9, VisitFacts
  <2>11. Same(p, q)  BY <2>8, <2>10, SameTransitive
  <2>12. r.fails = p.fails /\ r.pos = p.pos  BY <2>8 DEF Same
  <2> QED  BY <1>2, <2>8, <2>10, <2>11, <2>12 DEF c
<1> QED  BY <1>1, <1>2

\* handle_delete and handle_leave.
LEMMA GoneFacts ==
  ASSUME NEW p \in Parsers, NEW e \in Entries, e.delta \in {"DELETE", "LEAVE"},
         NEW q, q = handle_gone(p, e)
  PROVE  /\ q \in Parsers /\ Same(p, q)
         /\ q.ctx = IF e.index \in DOMAIN p.ctx.entities THEN AfterGone(p.ctx, e) ELSE p.ctx
         /\ q.result = p.result \/ (q.result = "error" /\ p.fails.at = p.pos)
<1>1. CASE e.index \notin DOMAIN p.ctx.entities  BY <1>1 DEF handle_gone, Same
<1>2. CASE e.index \in DOMAIN p.ctx.entities
  <2> DEFINE c == AfterGone(p.ctx, e)
             r == [p EXCEPT !.ctx = c]
             x == p.ctx.entities[e.index]
             n == e.index
             k == e.delta
  <2>1. p.ctx \in Contexts  BY DEF Parsers
  <2>2. c \in Contexts /\ c.tick = p.ctx.tick /\ c.prev_tick = p.ctx.prev_tick
    BY <2>1, AfterUpdateFacts
  <2>3. p.ctx.entities \in Partial(Indexes, Entity)  BY <2>1 DEF Contexts
  <2>4. x \in Entity  BY <1>2, <2>3, PartialFacts
  <2>5. [p EXCEPT !.ctx.entities = Restrict(@, DOMAIN @ \ {e.index})] = r
    BY <2>1 DEF Parsers, Contexts, AfterGone, Restrict
  <2>6. q = Visit(r, k, n, x)  BY <1>2, <2>5 DEF handle_gone
  <2> HIDE DEF c
  <2>8. r \in Parsers /\ Same(p, r) /\ r.ctx = c /\ r.result = p.result  BY <2>2, WithContext
  <2>9. n \in Nat /\ k \in Callbacks  BY IndexFacts DEF Entries, Callbacks, Deltas, Svcs
  <2> HIDE DEF r, n, k, x
  <2>10. /\ q \in Parsers /\ Same(r, q) /\ q.ctx = r.ctx
         /\ q.result = r.result \/ (q.result = "error" /\ r.fails.at = r.pos)
    BY <2>4, <2>6, <2>8, <2>9, VisitFacts
  <2>11. Same(p, q)  BY <2>8, <2>10, SameTransitive
  <2>12. r.fails = p.fails /\ r.pos = p.pos  BY <2>8 DEF Same
  <2> QED  BY <1>2, <2>8, <2>10, <2>11, <2>12 DEF c
<1> QED  BY <1>1, <1>2

\* The context after an entry.
AfterEntry(c, e) ==
  CASE e.delta = "CREATE" -> AfterCreate(c, e)
    [] e.delta # "CREATE" /\ e.index \notin DOMAIN c.entities -> c
    [] e.delta = "UPDATE" /\ e.index \in DOMAIN c.entities -> AfterUpdate(c, e)
    [] e.delta \in {"DELETE", "LEAVE"} /\ e.index \in DOMAIN c.entities -> AfterGone(c, e)

\* An entry changes the context as its kind says; it fails only with the visitor.
LEMMA EntryFacts ==
  ASSUME NEW p \in Parsers, NEW e \in Entries, NEW q, q = HandleEntry(p, e)
  PROVE  /\ q \in Parsers /\ Same(p, q)
         /\ p.result = "error" => q = p
         /\ p.result = "ok" => q.ctx = AfterEntry(p.ctx, e)
         /\ q.result = p.result \/ (q.result = "error" /\ p.fails.at = p.pos)
<1>1. CASE p.result = "error"  BY <1>1 DEF HandleEntry, Same
<1>2. CASE p.result # "error" /\ e.delta = "CREATE"
  <2>1. q = handle_create(p, e)  BY <1>2 DEF HandleEntry
  <2>2. AfterEntry(p.ctx, e) = AfterCreate(p.ctx, e)  BY <1>2 DEF AfterEntry
  <2> QED  BY <1>2, <2>1, <2>2, CreateFacts
<1>3. CASE p.result # "error" /\ e.delta = "UPDATE"
  <2>1. q = handle_update(p, e)  BY <1>3 DEF HandleEntry
  <2>2. AfterEntry(p.ctx, e) = IF e.index \in DOMAIN p.ctx.entities THEN AfterUpdate(p.ctx, e) ELSE p.ctx
    BY <1>3 DEF AfterEntry
  <2> QED  BY <1>3, <2>1, <2>2, UpdateFacts
<1>4. CASE p.result # "error" /\ e.delta \in {"DELETE", "LEAVE"}
  <2>1. q = handle_gone(p, e)  BY <1>4 DEF HandleEntry
  <2>2. AfterEntry(p.ctx, e) = IF e.index \in DOMAIN p.ctx.entities THEN AfterGone(p.ctx, e) ELSE p.ctx
    BY <1>4 DEF AfterEntry
  <2> QED  BY <1>4, <2>1, <2>2, GoneFacts
<1> QED  BY <1>1, <1>2, <1>3, <1>4 DEF Entries

------------------------------------------------------------------------------
(* Loops, turn by turn.                                                    *)

EntryLoop   == INSTANCE LoopFacts WITH Body <- HandleEntry
MessageLoop == INSTANCE LoopFacts WITH Body <- HandleMessage

\* Induction over the numbers, of a set of them.
LEMMA NatSetInduction ==
  ASSUME NEW S, 0 \in S, \A n \in Nat : n \in S => n + 1 \in S
  PROVE  \A n \in Nat : n \in S
BY EntryLoop!NatSetInduction

\* The two folds of a packet, under names that the provers can take.
AllEntries(p, entries)   == FoldLeft(HandleEntry, p, entries)

\* The entries of a message, one after another.
LEMMA EntryTurns ==
  ASSUME NEW p, NEW entries, NEW n \in Nat, DOMAIN entries = 1..n
  PROVE  \E h : /\ h[0] = p /\ AllEntries(p, entries) = h[n]
                /\ \A i \in 1..n : h[i] = HandleEntry(h[i - 1], entries[i])
<1>1. AllEntries(p, entries) = EntryLoop!Loop(p, entries)
  BY DEF EntryLoop!Loop, EntryLoop!Iterates, EntryLoop!Last,
         AllEntries, FoldLeft, MapThenFoldSet, Max
<1>2. \E h : EntryLoop!Turns(h, p, entries, n) /\ EntryLoop!Loop(p, entries) = h[n]
  BY EntryLoop!LoopTurns
<1> QED  BY <1>1, <1>2 DEF EntryLoop!Turns

\* The messages of a packet, one after another.
LEMMA MessageTurns ==
  ASSUME NEW p, NEW messages, NEW n \in Nat, DOMAIN messages = 1..n
  PROVE  \E h : /\ h[0] = p /\ handle_cmd_packet(p, messages) = h[n]
                /\ \A i \in 1..n : h[i] = HandleMessage(h[i - 1], messages[i])
<1>1. handle_cmd_packet(p, messages) = MessageLoop!Loop(p, messages)
  BY DEF MessageLoop!Loop, MessageLoop!Iterates, MessageLoop!Last,
         handle_cmd_packet, FoldLeft, MapThenFoldSet, Max
<1>2. \E h : MessageLoop!Turns(h, p, messages, n) /\ MessageLoop!Loop(p, messages) = h[n]
  BY MessageLoop!LoopTurns
<1> QED  BY <1>1, <1>2 DEF MessageLoop!Turns

\* What a handler may do to the parser, whatever it is of.
Handles(p, q) ==
  /\ q \in Parsers /\ Same(p, q)
  /\ p.result = "error" => q = p

\* Handled without a failure but the visitor's.
Holds(p, q) == q.result = p.result \/ (q.result = "error" /\ p.fails.at = p.pos)

\* c holds the contexts between x and y that the entries lead through.
Passes(c, x, entries, y) ==
  /\ c[0] = x /\ y = c[Len(entries)]
  /\ \A i \in 0..Len(entries) : c[i] \in Contexts
  /\ \A i \in 1..Len(entries) : c[i] = AfterEntry(c[i - 1], entries[i])

\* All entries are applied, or the visitor failed at one of them.
LEMMA EntriesFacts ==
  ASSUME NEW p \in Parsers, NEW entries \in Seq(Entries),
         NEW q, q = AllEntries(p, entries)
  PROVE  /\ Handles(p, q) /\ Holds(p, q)
         /\ q.result = "ok" => \E c : Passes(c, p.ctx, entries, q.ctx)
<1> DEFINE N == Len(entries)
<1>1. N \in Nat /\ DOMAIN entries = 1..N /\ \A i \in 1..N : entries[i] \in Entries
  BY LenProperties, ElementOfSeq
<1> HIDE DEF N
<1>2. PICK h : /\ h[0] = p /\ q = h[N]
               /\ \A i \in 1..N : h[i] = HandleEntry(h[i - 1], entries[i])
  BY <1>1, EntryTurns
<1> DEFINE S == {n \in Nat : n <= N => /\ Handles(p, h[n]) /\ Holds(p, h[n])
                                       /\ \A i \in 0..n : h[n].result = "ok" => h[i].result = "ok"
                                       /\ \A i \in 0..n : h[i] \in Parsers}
<1>3. 0 \in S  BY <1>2 DEF Handles, Holds, Same
<1>4. ASSUME NEW n \in Nat, n \in S PROVE n + 1 \in S
  <2> SUFFICES ASSUME n + 1 <= N
               PROVE  /\ Handles(p, h[n + 1]) /\ Holds(p, h[n + 1])
                      /\ \A i \in 0..n + 1 : h[n + 1].result = "ok" => h[i].result = "ok"
                      /\ \A i \in 0..n + 1 : h[i] \in Parsers
    OBVIOUS
  <2> DEFINE m == n + 1
  <2>1. n <= N /\ m \in 1..N /\ m - 1 = n /\ 0..m = 0..n \cup {m}  BY <1>1
  <2> HIDE DEF m
  <2>2. /\ Handles(p, h[n]) /\ Holds(p, h[n]) /\ \A i \in 0..n : h[n].result = "ok" => h[i].result = "ok"
        /\ \A i \in 0..n : h[i] \in Parsers
    BY <1>4, <2>1
  <2> HIDE DEF S
  <2>3. h[m] = HandleEntry(h[n], entries[m]) /\ entries[m] \in Entries  BY <1>1, <1>2, <2>1
  <2>4. h[n] \in Parsers  BY <2>2 DEF Handles
  <2>5. /\ h[m] \in Parsers /\ Same(h[n], h[m]) /\ (h[n].result = "error" => h[m] = h[n])
        /\ h[m].result = h[n].result \/ (h[m].result = "error" /\ h[n].fails.at = h[n].pos)
    BY <2>3, <2>4, EntryFacts
  <2>6. Same(p, h[m]) /\ h[n].fails = p.fails /\ h[n].pos = p.pos
    BY <2>2, <2>5, SameTransitive DEF Handles, Same
  <2>7. Handles(p, h[m]) /\ Holds(p, h[m])  BY <2>2, <2>5, <2>6 DEF Handles, Holds
  <2>8. h[m].result = "ok" => h[n].result = "ok"  BY <2>4, <2>5 DEF Parsers
  <2> QED  BY <2>1, <2>2, <2>5, <2>7, <2>8 DEF m
<1> HIDE DEF S
<1>5. \A n \in Nat : n \in S  BY <1>3, <1>4, NatSetInduction
<1>6. /\ Handles(p, q) /\ Holds(p, q) /\ \A i \in 0..N : q.result = "ok" => h[i].result = "ok"
      /\ \A i \in 0..N : h[i] \in Parsers
  BY <1>1, <1>2, <1>5 DEF S
<1>7. ASSUME q.result = "ok"
      PROVE  \E c : /\ c[0] = p.ctx /\ q.ctx = c[N] /\ \A i \in 0..N : c[i] \in Contexts
                    /\ \A i \in 1..N : c[i] = AfterEntry(c[i - 1], entries[i])
  <2> DEFINE c == [i \in 0..N |-> h[i].ctx]
  <2>1. c[0] = p.ctx /\ q.ctx = c[N]  BY <1>1, <1>2
  <2>2. ASSUME NEW i \in 1..N PROVE c[i] = AfterEntry(c[i - 1], entries[i])
    <3>1. i \in 0..N /\ i - 1 \in 0..N  BY <1>1
    <3>2. h[i] = HandleEntry(h[i - 1], entries[i]) /\ entries[i] \in Entries  BY <1>1, <1>2
    <3>3. h[i - 1] \in Parsers /\ h[i - 1].result = "ok"  BY <1>6, <1>7, <3>1
    <3>4. h[i].ctx = AfterEntry(h[i - 1].ctx, entries[i])  BY <3>2, <3>3, EntryFacts
    <3>5. c[i] = h[i].ctx /\ c[i - 1] = h[i - 1].ctx  BY <3>1
    <3> HIDE DEF c
    <3> QED  BY <3>4, <3>5
  <2>3. \A i \in 0..N : c[i] \in Contexts  BY <1>6 DEF Parsers
  <2> HIDE DEF c
  <2> QED  BY <2>1, <2>2, <2>3
<1> QED  BY <1>6, <1>7 DEF N, Passes

------------------------------------------------------------------------------
(* Messages.                                                               *)

TableMessages  == [msg : {"SvcCreateStringTable", "SvcUpdateStringTable"}, table : Tables,
                   version : Versions]
EntityMessages == [msg : {"SvcPacketEntities"}, entries : Seq(Entries)]
InfoMessages   == [msg : {"SvcServerInfo"}, ratio : Nat]
Messages       == TableMessages \cup EntityMessages \cup InfoMessages

\* The context with a version of a table.
WithVersion(c, t, v) ==
  [c EXCEPT !.string_tables = [u \in DOMAIN c.string_tables \cup {t} |->
                                 IF u = t THEN v ELSE c.string_tables[u]]]

AfterTable(c, m) ==
  LET d == WithVersion(c, m.table, m.version)
  IN IF m.table = INSTANCE_BASELINE_TABLE_NAME /\ c.entity_classes THEN UpdateBaseline(d) ELSE d

\* The baseline is read from a table that is there.
LEMMA BaselineFacts ==
  ASSUME NEW c \in Contexts, INSTANCE_BASELINE_TABLE_NAME \in DOMAIN c.string_tables,
         NEW d, d = UpdateBaseline(c)
  PROVE  /\ d \in Contexts /\ d.tick = c.tick /\ d.prev_tick = c.prev_tick
         /\ d = [c EXCEPT !.instance_baseline =
                   IF c.string_tables[INSTANCE_BASELINE_TABLE_NAME] = 0 THEN c.instance_baseline
                   ELSE c.string_tables[INSTANCE_BASELINE_TABLE_NAME]]
<1> DEFINE v == c.string_tables[INSTANCE_BASELINE_TABLE_NAME]
<1>1. v \in Versions
  <2>1. c.string_tables \in Partial(Tables, Versions)  BY DEF Contexts
  <2> QED  BY <2>1, PartialFacts
<1>2. d = IF v = 0 THEN c ELSE [c EXCEPT !.instance_baseline = v]  BY DEF UpdateBaseline
<1> HIDE DEF v
<1>3. d = [c EXCEPT !.instance_baseline = IF v = 0 THEN c.instance_baseline ELSE v]
  BY <1>2 DEF Contexts
<1>4. d \in Contexts /\ d.tick = c.tick /\ d.prev_tick = c.prev_tick  BY <1>1, <1>2 DEF Contexts
<1> QED  BY <1>3, <1>4 DEF v

\* A table with another version keeps the types.
LEMMA VersionFacts ==
  ASSUME NEW c \in Contexts, NEW t \in Tables, NEW v \in Versions, NEW d, d = WithVersion(c, t, v)
  PROVE  /\ d \in Contexts /\ d.tick = c.tick /\ d.prev_tick = c.prev_tick
         /\ t \in DOMAIN d.string_tables
<1> DEFINE f == [u \in DOMAIN c.string_tables \cup {t} |-> IF u = t THEN v ELSE c.string_tables[u]]
<1>1. c.string_tables \in Partial(Tables, Versions)  BY DEF Contexts
<1>2. DOMAIN c.string_tables \subseteq Tables
      /\ \A u \in DOMAIN c.string_tables : c.string_tables[u] \in Versions
  BY <1>1, PartialFacts
<1>3. f \in [DOMAIN c.string_tables \cup {t} -> Versions]  BY <1>2
<1>4. DOMAIN c.string_tables \cup {t} \in SUBSET Tables /\ t \in DOMAIN f  BY <1>2
<1>5. d = [c EXCEPT !.string_tables = f]  BY DEF WithVersion
<1> HIDE DEF f
<1>6. f \in Partial(Tables, Versions)  BY <1>3, <1>4, PartialIs
<1> QED  BY <1>4, <1>5, <1>6 DEF Contexts

\* A table message keeps the types.
LEMMA AfterTableFacts ==
  ASSUME NEW c \in Contexts, NEW m \in TableMessages, NEW d, d = AfterTable(c, m)
  PROVE  d \in Contexts /\ d.tick = c.tick /\ d.prev_tick = c.prev_tick
<1> DEFINE e == WithVersion(c, m.table, m.version)
<1>1. m.table \in Tables /\ m.version \in Versions  BY DEF TableMessages
<1>2. e \in Contexts /\ e.tick = c.tick /\ e.prev_tick = c.prev_tick /\ m.table \in DOMAIN e.string_tables
  BY <1>1, VersionFacts
<1>3. d = IF m.table = INSTANCE_BASELINE_TABLE_NAME /\ c.entity_classes THEN UpdateBaseline(e) ELSE e
  BY DEF AfterTable
<1> HIDE DEF e
<1> QED  BY <1>2, <1>3, BaselineFacts

\* A table is created, or updated if it is there.
LEMMA TableFacts ==
  ASSUME NEW p \in Parsers, NEW m \in TableMessages, p.result = "ok",
         NEW q, q = MatchMessage(p, m)
  PROVE  /\ Handles(p, q)
         /\ m.msg = "SvcCreateStringTable" \/ m.table \in DOMAIN p.ctx.string_tables =>
              q.result = "ok" /\ q.ctx = AfterTable(p.ctx, m)
<1> DEFINE c == AfterTable(p.ctx, m)
           r == [p EXCEPT !.ctx = c]
           f == [u \in DOMAIN p.ctx.string_tables \cup {m.table} |->
                   IF u = m.table THEN m.version ELSE p.ctx.string_tables[u]]
<1>1. p.ctx \in Contexts  BY DEF Parsers
<1>2. c \in Contexts /\ c.tick = p.ctx.tick /\ c.prev_tick = p.ctx.prev_tick
  BY <1>1, AfterTableFacts
<1>3. CASE m.msg = "SvcCreateStringTable"
  <2>1. q = handle_svc_create_string_table(p, m)  BY <1>3 DEF MatchMessage
  <2>2. q = r
    BY <2>1, <1>1 DEF handle_svc_create_string_table, AfterTable, WithVersion, Parsers, Contexts
  <2> HIDE DEF c, f
  <2>3. q \in Parsers /\ Same(p, q) /\ q.ctx = c /\ q.result = p.result
    BY <1>2, <2>2, WithContext
  <2> QED  BY <2>3 DEF c, Handles
<1>4. CASE m.msg = "SvcUpdateStringTable" /\ m.table \notin DOMAIN p.ctx.string_tables
  <2>1. q = Bail(p)  BY <1>4 DEF MatchMessage, handle_svc_update_string_table
  <2>2. q \in Parsers /\ Same(p, q)  BY <2>1, BailFacts
  <2> QED  BY <1>4, <2>2 DEF Handles
<1>5. CASE m.msg = "SvcUpdateStringTable" /\ m.table \in DOMAIN p.ctx.string_tables
  <2>1. q = handle_svc_update_string_table(p, m)  BY <1>5 DEF MatchMessage
  <2>2. [p.ctx.string_tables EXCEPT ![m.table] = m.version] = f
    <3>1. p.ctx.string_tables \in Partial(Tables, Versions)  BY <1>1 DEF Contexts
    <3>2. p.ctx.string_tables = [x \in DOMAIN p.ctx.string_tables |-> p.ctx.string_tables[x]]
      BY <3>1, PartialFacts
    <3>3. DOMAIN p.ctx.string_tables \cup {m.table} = DOMAIN p.ctx.string_tables  BY <1>5
    <3> QED  BY <3>2, <3>3
  <2>3. [p.ctx EXCEPT !.string_tables[m.table] = m.version] = WithVersion(p.ctx, m.table, m.version)
    BY <1>1, <2>2 DEF WithVersion, Contexts
  <2>4. q = r
    BY <1>1, <1>5, <2>1, <2>3 DEF handle_svc_update_string_table, AfterTable, Parsers, Contexts, WithVersion
  <2> HIDE DEF c, f
  <2>5. q \in Parsers /\ Same(p, q) /\ q.ctx = c /\ q.result = p.result
    BY <1>2, <2>4, WithContext
  <2> QED  BY <2>5 DEF c, Handles
<1> QED  BY <1>3, <1>4, <1>5 DEF TableMessages

\* Entities are decoded, or not if they are skipped.
LEMMA EntityMessageFacts ==
  ASSUME NEW p \in Parsers, NEW m \in EntityMessages, p.result = "ok",
         NEW q, q = MatchMessage(p, m)
  PROVE  /\ Handles(p, q)
         /\ p.skip_entity_packets => q = p
         /\ ~p.skip_entity_packets /\ p.ctx.entity_classes /\ p.ctx.serializers =>
              q = AllEntries(p, m.entries)
<1>1. m.entries \in Seq(Entries) /\ m.msg = "SvcPacketEntities"  BY DEF EntityMessages
<1>2. q = IF p.skip_entity_packets THEN p ELSE handle_svc_packet_entities(p, m)
  BY <1>1 DEF MatchMessage
<1>3. handle_svc_packet_entities(p, m) =
        IF ~p.ctx.entity_classes \/ ~p.ctx.serializers THEN Bail(p) ELSE AllEntries(p, m.entries)
  BY DEF handle_svc_packet_entities, AllEntries, FoldLeft, MapThenFoldSet, Max
<1>4. Handles(p, AllEntries(p, m.entries))  BY <1>1, EntriesFacts
<1>5. Handles(p, Bail(p))  BY BailFacts DEF Handles
<1>6. Handles(p, p)  BY DEF Handles, Same
<1> QED  BY <1>2, <1>3, <1>4, <1>5, <1>6

\* The interval of full packets.
LEMMA InfoFacts ==
  ASSUME NEW p \in Parsers, NEW m \in InfoMessages, p.result = "ok",
         NEW q, q = MatchMessage(p, m)
  PROVE  /\ Handles(p, q) /\ q.result = "ok"
         /\ q.ctx = [p.ctx EXCEPT !.full_packet_interval = DEFAULT_FULL_PACKET_INTERVAL * m.ratio]
<1> DEFINE n == DEFAULT_FULL_PACKET_INTERVAL * m.ratio
           c == [p.ctx EXCEPT !.full_packet_interval = n]
<1>1. n \in Nat  BY DemoAssumption DEF InfoMessages
<1>2. p.ctx \in Contexts  BY DEF Parsers
<1>3. q = [p EXCEPT !.ctx = c]  BY <1>2 DEF MatchMessage, InfoMessages, Parsers, Contexts
<1> HIDE DEF n
<1>4. c \in Contexts /\ c.tick = p.ctx.tick /\ c.prev_tick = p.ctx.prev_tick
  BY <1>1, <1>2 DEF Contexts
<1> HIDE DEF c
<1>5. q \in Parsers /\ Same(p, q) /\ q.ctx = c /\ q.result = p.result  BY <1>3, <1>4, WithContext
<1> QED  BY <1>5 DEF Handles, c, n

\* Any message keeps the types, once it is shown.
LEMMA MatchFacts ==
  ASSUME NEW p \in Parsers, NEW m \in Messages, NEW q, q = MatchMessage(p, m)
  PROVE  Handles(p, q)
<1>1. CASE p.result = "error"  BY <1>1 DEF MatchMessage, Handles, Same
<1>2. CASE p.result = "ok"
  BY <1>2, TableFacts, EntityMessageFacts, InfoFacts DEF Messages
<1> QED  BY <1>1, <1>2 DEF Parsers

\* What a visitor is shown of a message is one of its callbacks.
LEMMA SvcFacts ==
  ASSUME NEW m \in Messages
  PROVE  m.msg \in Svcs /\ m.msg \in Callbacks
BY DEF Messages, TableMessages, EntityMessages, InfoMessages, Svcs, Callbacks

\* The callback of a message fails only as the visitor does.
LEMMA OnPacketFacts ==
  ASSUME NEW p \in Parsers, NEW m \in Messages, NEW q, q = on_packet(p, m)
  PROVE  q \in Parsers /\ Same(p, q) /\ q.ctx = p.ctx /\ Holds(p, q)
<1> DEFINE k == m.msg
           n == 0
<1>1. k \in Callbacks /\ n \in Nat /\ NoEntity \in Entity  BY IndexFacts, SvcFacts
<1>2. q = Visit(p, k, n, NoEntity)  BY DEF on_packet
<1> HIDE DEF k, n
<1> QED  BY <1>1, <1>2, VisitFacts DEF Holds

\* A message is shown, and matched unless the visitor fails at it.
LEMMA MessageIs ==
  ASSUME NEW p \in Parsers, p.result = "ok", NEW m \in Messages, NEW q, q = HandleMessage(p, m)
  PROVE  \E r \in Parsers :
           /\ r = on_packet(p, m) /\ q = MatchMessage(r, m)
           /\ Handles(p, r) /\ Holds(p, r) /\ r.ctx = p.ctx
           /\ r.result = "error" => q = r
<1> DEFINE r == on_packet(p, m)
<1>1. q = MatchMessage(r, m)  BY DEF HandleMessage
<1>2. r = on_packet(p, m)  OBVIOUS
<1> HIDE DEF r
<1>3. r \in Parsers /\ Same(p, r) /\ r.ctx = p.ctx /\ Holds(p, r)  BY <1>2, OnPacketFacts
<1>4. Handles(p, r)  BY <1>3 DEF Handles
<1>5. r.result = "error" => q = r  BY <1>1 DEF MatchMessage
<1> QED  BY <1>1, <1>2, <1>3, <1>4, <1>5

\* One handler after another.
LEMMA HandlesTransitive ==
  ASSUME NEW p, NEW q, NEW r, Handles(p, q), Handles(q, r)
  PROVE  Handles(p, r)
BY SameTransitive DEF Handles

\* Any message keeps the types.
LEMMA MessageFacts ==
  ASSUME NEW p \in Parsers, NEW m \in Messages, NEW q, q = HandleMessage(p, m)
  PROVE  Handles(p, q)
<1>1. CASE p.result = "error"  BY <1>1 DEF HandleMessage, Handles, Same
<1>2. CASE p.result = "ok"
  <2>1. PICK r \in Parsers : q = MatchMessage(r, m) /\ Handles(p, r)  BY <1>2, MessageIs
  <2>2. Handles(r, q)  BY <2>1, MatchFacts
  <2> QED  BY <2>1, <2>2, HandlesTransitive
<1> QED  BY <1>1, <1>2 DEF Parsers

\* Nothing at all is a handler too.
LEMMA HandlesItself == ASSUME NEW p \in Parsers PROVE Handles(p, p)
BY DEF Handles, Same

\* A packet of any messages keeps the types.
LEMMA PacketFacts ==
  ASSUME NEW p \in Parsers, NEW messages \in Seq(Messages),
         NEW q, q = handle_cmd_packet(p, messages)
  PROVE  Handles(p, q)
<1> DEFINE N == Len(messages)
<1>1. N \in Nat /\ DOMAIN messages = 1..N /\ \A i \in 1..N : messages[i] \in Messages
  BY LenProperties, ElementOfSeq
<1> HIDE DEF N
<1>2. PICK h : /\ h[0] = p /\ q = h[N]
               /\ \A i \in 1..N : h[i] = HandleMessage(h[i - 1], messages[i])
  BY <1>1, MessageTurns
<1> DEFINE S == {n \in Nat : n <= N => Handles(p, h[n])}
<1>3. 0 \in S  BY <1>2, HandlesItself
<1>4. ASSUME NEW n \in Nat, n \in S PROVE n + 1 \in S
  <2> SUFFICES ASSUME n + 1 <= N PROVE Handles(p, h[n + 1])  OBVIOUS
  <2> DEFINE m == n + 1
  <2>1. n <= N /\ m \in 1..N /\ m - 1 = n  BY <1>1
  <2> HIDE DEF m
  <2>2. Handles(p, h[n])  BY <1>4, <2>1
  <2> HIDE DEF S
  <2>3. h[m] = HandleMessage(h[n], messages[m]) /\ messages[m] \in Messages  BY <1>1, <1>2, <2>1
  <2>4. h[n] \in Parsers  BY <2>2 DEF Handles
  <2>5. Handles(h[n], h[m])  BY <2>3, <2>4, MessageFacts
  <2>6. Handles(p, h[m])  BY <2>2, <2>5, HandlesTransitive
  <2> QED  BY <2>6 DEF m
<1> HIDE DEF S
<1>5. \A n \in Nat : n \in S  BY <1>3, <1>4, NatSetInduction
<1> QED  BY <1>1, <1>2, <1>5 DEF S

\* A packet of one message is that message, and one of three is the three.
LEMMA OneMessage ==
  ASSUME NEW p, NEW s, DOMAIN s = 1..1, NEW q, q = handle_cmd_packet(p, s)
  PROVE  q = HandleMessage(p, s[1])
<1> DEFINE k == 1
<1>1. DOMAIN s = 1..k /\ k \in Nat  OBVIOUS
<1> HIDE DEF k
<1>2. PICK h : /\ h[0] = p /\ q = h[k]
               /\ \A i \in 1..k : h[i] = HandleMessage(h[i - 1], s[i])
  BY <1>1, MessageTurns
<1>3. 1 \in 1..k /\ 1 - 1 = 0  BY DEF k
<1>4. h[1] = HandleMessage(h[0], s[1])  BY <1>2, <1>3
<1> QED  BY <1>2, <1>4 DEF k

\* A packet of three messages is the three.
LEMMA ThreeMessages ==
  ASSUME NEW p, NEW s, DOMAIN s = 1..3, NEW q, q = handle_cmd_packet(p, s)
  PROVE  q = HandleMessage(HandleMessage(HandleMessage(p, s[1]), s[2]), s[3])
<1> DEFINE k == 3
<1>1. DOMAIN s = 1..k /\ k \in Nat  OBVIOUS
<1> HIDE DEF k
<1>2. PICK h : /\ h[0] = p /\ q = h[k]
               /\ \A i \in 1..k : h[i] = HandleMessage(h[i - 1], s[i])
  BY <1>1, MessageTurns
<1>3. 1 \in 1..k /\ 2 \in 1..k /\ 3 \in 1..k /\ 1 - 1 = 0 /\ 2 - 1 = 1 /\ 3 - 1 = 2  BY DEF k
<1>4. h[1] = HandleMessage(h[0], s[1])  BY <1>2, <1>3
<1>5. h[2] = HandleMessage(h[1], s[2])  BY <1>2, <1>3
<1>6. h[3] = HandleMessage(h[2], s[3])  BY <1>2, <1>3
<1> QED  BY <1>2, <1>4, <1>5, <1>6 DEF k

------------------------------------------------------------------------------
(* Commands.                                                               *)

Commands ==
  [cmd : {"DemSignonPacket", "DemSendTables", "DemClassInfo", "DemSyncTick", "DemPacket",
          "DemFullPacket"},
   tick : Ticks, messages : Seq(Messages), tables : Partial(Tables, Versions)]

\* The context with the tables of a snapshot, and with their baseline.
WithTables(c, tables) ==
  [c EXCEPT !.string_tables = [t \in DOMAIN c.string_tables |->
                                 IF t \in DOMAIN tables THEN tables[t] ELSE c.string_tables[t]]]
Refreshed(c) ==
  IF INSTANCE_BASELINE_TABLE_NAME \in DOMAIN c.string_tables THEN UpdateBaseline(c) ELSE c
AfterSnapshot(c, tables) == Refreshed(WithTables(c, tables))

\* Refreshing the baseline keeps the types.
LEMMA RefreshedFacts ==
  ASSUME NEW c \in Contexts, NEW d, d = Refreshed(c)
  PROVE  d \in Contexts /\ d.tick = c.tick /\ d.prev_tick = c.prev_tick
BY BaselineFacts DEF Refreshed

\* A snapshot of the tables keeps the types.
LEMMA WithTablesFacts ==
  ASSUME NEW c \in Contexts, NEW tables \in Partial(Tables, Versions), NEW d, d = WithTables(c, tables)
  PROVE  d \in Contexts /\ d.tick = c.tick /\ d.prev_tick = c.prev_tick
<1> DEFINE f == [t \in DOMAIN c.string_tables |->
                   IF t \in DOMAIN tables THEN tables[t] ELSE c.string_tables[t]]
<1>1. c.string_tables \in Partial(Tables, Versions)  BY DEF Contexts
<1>2. DOMAIN c.string_tables \subseteq Tables
      /\ \A u \in DOMAIN c.string_tables : c.string_tables[u] \in Versions
  BY <1>1, PartialFacts
<1>3. \A t \in DOMAIN tables : tables[t] \in Versions  BY PartialFacts
<1>4. f \in [DOMAIN c.string_tables -> Versions]  BY <1>2, <1>3
<1>5. d = [c EXCEPT !.string_tables = f]  BY DEF WithTables
<1> HIDE DEF f
<1>6. f \in Partial(Tables, Versions)  BY <1>2, <1>4, PartialIs
<1> QED  BY <1>5, <1>6 DEF Contexts

\* The callbacks of a command fail only as the visitor does.
LEMMA OnCmdFacts ==
  ASSUME NEW p \in Parsers, NEW q, q = on_cmd(p) \/ q = on_tick_end(p)
  PROVE  q \in Parsers /\ Same(p, q) /\ q.ctx = p.ctx /\ Holds(p, q)
<1> DEFINE k == "Cmd"
           l == "TickEnd"
           n == 0
<1>1. k \in Callbacks /\ l \in Callbacks /\ n \in Nat /\ NoEntity \in Entity
  BY IndexFacts DEF Callbacks, Deltas, Svcs
<1>2. q = Visit(p, k, n, NoEntity) \/ q = Visit(p, l, n, NoEntity)  BY DEF on_cmd, on_tick_end
<1> HIDE DEF k, l, n
<1> QED  BY <1>1, <1>2, VisitFacts DEF Holds

\* The snapshot of a full packet.
LEMMA SnapshotFacts ==
  ASSUME NEW p \in Parsers, NEW tables \in Partial(Tables, Versions),
         NEW q, q = handle_cmd_string_tables(p, tables)
  PROVE  /\ Handles(p, q)
         /\ p.result = "ok" /\ p.ctx.entity_classes =>
              q.result = "ok" /\ q.ctx = AfterSnapshot(p.ctx, tables)
<1> DEFINE c == WithTables(p.ctx, tables)
           d == AfterSnapshot(p.ctx, tables)
<1>1. p.ctx \in Contexts  BY DEF Parsers
<1>2. c \in Contexts /\ c.tick = p.ctx.tick /\ c.prev_tick = p.ctx.prev_tick
  BY <1>1, WithTablesFacts
<1>3. c.entity_classes = p.ctx.entity_classes  BY <1>1 DEF WithTables, Contexts
<1>4. q = IF p.result = "error" THEN p
          ELSE IF ~p.ctx.entity_classes THEN Bail([p EXCEPT !.ctx = c])
          ELSE [p EXCEPT !.ctx = d]
  <2>1. [p.ctx EXCEPT !.string_tables = [t \in DOMAIN @ |->
           IF t \in DOMAIN tables THEN tables[t] ELSE p.ctx.string_tables[t]]] = c
    BY <1>1 DEF WithTables, Contexts
  <2>2. d = IF INSTANCE_BASELINE_TABLE_NAME \in DOMAIN c.string_tables THEN UpdateBaseline(c) ELSE c
    BY DEF AfterSnapshot, Refreshed
  <2> HIDE DEF c, d
  <2> QED  BY <1>3, <2>1, <2>2 DEF handle_cmd_string_tables
<1>5. d \in Contexts /\ d.tick = p.ctx.tick /\ d.prev_tick = p.ctx.prev_tick
  <2>1. d = Refreshed(c)  BY DEF AfterSnapshot
  <2> HIDE DEF c, d
  <2> QED  BY <1>2, <2>1, RefreshedFacts
<1> HIDE DEF c, d
<1>6. CASE p.result = "error"  BY <1>4, <1>6, HandlesItself
<1>7. CASE p.result = "ok" /\ ~p.ctx.entity_classes
  <2> DEFINE r == [p EXCEPT !.ctx = c]
  <2>1. r \in Parsers /\ Same(p, r)  BY <1>2, WithContext
  <2>2. q = Bail(r)  BY <1>4, <1>7
  <2> HIDE DEF r
  <2>3. q \in Parsers /\ Same(r, q)  BY <2>1, <2>2, BailFacts
  <2>4. Same(p, q)  BY <2>1, <2>3, SameTransitive
  <2> QED  BY <1>7, <2>3, <2>4 DEF Handles
<1>8. CASE p.result = "ok" /\ p.ctx.entity_classes
  <2>1. q = [p EXCEPT !.ctx = d]  BY <1>4, <1>8
  <2>2. q \in Parsers /\ Same(p, q) /\ q.ctx = d /\ q.result = p.result  BY <1>5, <2>1, WithContext
  <2> QED  BY <1>8, <2>2 DEF Handles, d
<1> QED  BY <1>6, <1>7, <1>8 DEF Parsers

\* A full packet keeps the types, with its packet or without.
LEMMA FullPacketFacts ==
  ASSUME NEW p \in Parsers, NEW c \in Commands, NEW with_packet \in BOOLEAN,
         NEW q, q = handle_cmd_full_packet(p, c, with_packet)
  PROVE  Handles(p, q)
<1> DEFINE r == handle_cmd_string_tables(p, c.tables)
<1>1. c.tables \in Partial(Tables, Versions) /\ c.messages \in Seq(Messages)  BY DEF Commands
<1>2. Handles(p, r)  BY <1>1, SnapshotFacts
<1>3. q = IF r.result = "error" \/ ~with_packet THEN r ELSE handle_cmd_packet(r, c.messages)
  BY DEF handle_cmd_full_packet
<1> HIDE DEF r
<1>4. Handles(r, handle_cmd_packet(r, c.messages))  BY <1>1, <1>2, PacketFacts DEF Handles
<1> QED  BY <1>2, <1>3, <1>4, HandlesTransitive

\* The classes come with the baseline of the tables that are there by then.
AfterClassInfo(c) ==
  IF c.entity_classes THEN c ELSE Refreshed([c EXCEPT !.entity_classes = TRUE])

\* handle_class_info: it does nothing when it was done before.
LEMMA ClassInfoFacts ==
  ASSUME NEW p \in Parsers, p.result = "ok", NEW q, q = handle_class_info(p)
  PROVE  Handles(p, q) /\ q.result = p.result /\ q.ctx = AfterClassInfo(p.ctx)
<1> DEFINE c == [p.ctx EXCEPT !.entity_classes = TRUE]
           d == Refreshed(c)
<1>1. p.ctx \in Contexts  BY DEF Parsers
<1>2. c \in Contexts /\ c.tick = p.ctx.tick /\ c.prev_tick = p.ctx.prev_tick
  BY <1>1 DEF Contexts
<1>3. d \in Contexts /\ d.tick = p.ctx.tick /\ d.prev_tick = p.ctx.prev_tick
  <2> HIDE DEF c
  <2> QED  BY <1>2, RefreshedFacts
<1>4. CASE p.ctx.entity_classes
  <2>1. q = p /\ AfterClassInfo(p.ctx) = p.ctx  BY <1>4 DEF handle_class_info, AfterClassInfo
  <2> QED  BY <2>1, HandlesItself
<1>5. CASE ~p.ctx.entity_classes
  <2>1. q = [p EXCEPT !.ctx = d] /\ AfterClassInfo(p.ctx) = d
    BY <1>5 DEF handle_class_info, AfterClassInfo, Refreshed
  <2> HIDE DEF d
  <2>2. q \in Parsers /\ Same(p, q) /\ q.ctx = d /\ q.result = p.result  BY <1>3, <2>1, WithContext
  <2> QED  BY <2>1, <2>2 DEF Handles
<1> QED  BY <1>4, <1>5

\* DemSendTables.
LEMMA SendTablesFacts ==
  ASSUME NEW p \in Parsers, NEW q, q = [p EXCEPT !.ctx.serializers = TRUE]
  PROVE  /\ q \in Parsers /\ Same(p, q) /\ q.result = p.result
         /\ q.ctx = [p.ctx EXCEPT !.serializers = TRUE]
<1> DEFINE c == [p.ctx EXCEPT !.serializers = TRUE]
           r == [p EXCEPT !.ctx = c]
<1>1. p.ctx \in Contexts  BY DEF Parsers
<1>2. c \in Contexts /\ c.tick = p.ctx.tick /\ c.prev_tick = p.ctx.prev_tick
  BY <1>1 DEF Contexts
<1>3. q = r  OBVIOUS
<1>4. r \in Parsers /\ Same(p, r) /\ r.ctx = c /\ r.result = p.result
  <2> HIDE DEF c
  <2> QED  BY <1>2, WithContext
<1> HIDE DEF r
<1> QED  BY <1>3, <1>4

\* Any command keeps the types.
LEMMA HandleCmdFacts ==
  ASSUME NEW p \in Parsers, p.result = "ok", NEW c \in Commands, NEW q, q = handle_cmd(p, c)
  PROVE  Handles(p, q)
<1> DEFINE r == on_cmd(p)
<1>1. r \in Parsers /\ Same(p, r)  BY OnCmdFacts
<1>2. Handles(p, r)  BY <1>1 DEF Handles
<1>3. Handles(r, q)
  <2>1. CASE r.result = "error"
    <3>1. q = r  BY <2>1 DEF handle_cmd
    <3> QED  BY <1>1, <3>1, HandlesItself
  <2>2. CASE r.result # "error" /\ c.cmd \in {"DemPacket", "DemSignonPacket"}
    <3>1. q = handle_cmd_packet(r, c.messages)  BY <2>2 DEF handle_cmd
    <3>2. c.messages \in Seq(Messages)  BY DEF Commands
    <3> HIDE DEF r
    <3> QED  BY <1>1, <3>1, <3>2, PacketFacts
  <2>3. CASE r.result # "error" /\ c.cmd = "DemSendTables"
    <3>1. q = [r EXCEPT !.ctx.serializers = TRUE]  BY <2>3 DEF handle_cmd
    <3> HIDE DEF r
    <3>2. q \in Parsers /\ Same(r, q)  BY <1>1, <3>1, SendTablesFacts
    <3> QED  BY <2>3, <3>2 DEF Handles
  <2>4. CASE r.result # "error" /\ c.cmd = "DemClassInfo"
    <3>1. q = handle_class_info(r)  BY <2>4 DEF handle_cmd
    <3> HIDE DEF r
    <3>2. r.result = "ok"  BY <1>1, <2>4 DEF Parsers
    <3> QED  BY <1>1, <3>1, <3>2, ClassInfoFacts
  <2>5. CASE r.result # "error" /\ c.cmd = "DemFullPacket"
    <3>1. q = handle_cmd_full_packet(r, c, TRUE)  BY <2>5 DEF handle_cmd
    <3> HIDE DEF r
    <3> QED  BY <1>1, <3>1, FullPacketFacts
  <2>6. CASE r.result # "error" /\ c.cmd \notin {"DemPacket", "DemSignonPacket", "DemSendTables",
                                                "DemClassInfo", "DemFullPacket"}
    <3>1. q = r  BY <2>6 DEF handle_cmd
    <3> QED  BY <1>1, <3>1, HandlesItself
  <2> QED  BY <2>1, <2>2, <2>3, <2>4, <2>5, <2>6
<1> HIDE DEF r
<1> QED  BY <1>2, <1>3, HandlesTransitive

\* The end of a tick after a command.
TickEnded(q) == IF q.result = "ok" /\ q.ctx.prev_tick # q.ctx.tick THEN on_tick_end(q) ELSE q

\* The end of a tick fails only as the visitor does.
LEMMA TickEndedFacts ==
  ASSUME NEW p \in Parsers, NEW q, q = TickEnded(p)
  PROVE  Handles(p, q) /\ Holds(p, q) /\ q.ctx = p.ctx
<1>1. CASE q = p  BY <1>1, HandlesItself DEF Holds
<1>2. CASE q = on_tick_end(p) /\ p.result = "ok"  BY <1>2, OnCmdFacts DEF Handles
<1> QED  BY <1>1, <1>2 DEF TickEnded

\* A command that is dispatched keeps the types.
LEMMA DispatchFacts ==
  ASSUME NEW p \in Parsers, p.result = "ok", NEW c \in Commands, NEW flow,
         NEW q, q = dispatch(flow, p, c)
  PROVE  Handles(p, q)
<1>1. CASE flow # "Handle"  BY <1>1, HandlesItself DEF dispatch
<1>2. CASE flow = "Handle"
  <2> DEFINE r == handle_cmd(p, c)
  <2>1. q = TickEnded(r)  BY <1>2 DEF dispatch, TickEnded
  <2>2. Handles(p, r)  BY HandleCmdFacts
  <2> HIDE DEF r
  <2>3. Handles(r, q)  BY <2>1, <2>2, TickEndedFacts DEF Handles
  <2> QED  BY <2>2, <2>3, HandlesTransitive
<1> QED  BY <1>1, <1>2

------------------------------------------------------------------------------
(* Full packets, where scan_full_packet_ticks finds them.                  *)

IsFullPacket(k) == demo[k].cmd = "DemFullPacket"

\* s holds the positions of the full packets up to k, in their order.
ListsFullPackets(s, k) ==
  /\ s \in Seq(Nat)
  /\ \A o \in 1..Len(s) : s[o] \in 1..k /\ IsFullPacket(s[o])
  /\ \A o, u \in 1..Len(s) : o < u => s[o] < s[u]
  /\ \A j \in 1..k : IsFullPacket(j) => \E o \in 1..Len(s) : s[o] = j

\* The function that FullPackets builds has a value at each position.
LEMMA ScannedExists ==
  ASSUME NEW N \in Nat
  PROVE  \E f : f = [k \in 0..N |-> IF k = 0 THEN <<>> ELSE ScanCommand(f[k - 1], k)]
<1> DEFINE S == {n \in Nat : \E f : f = [k \in 0..n |-> IF k = 0 THEN <<>> ELSE ScanCommand(f[k - 1], k)]}
<1>1. 0 \in S
  <2> DEFINE f == [k \in 0..0 |-> <<>>]
  <2>1. f = [k \in 0..0 |-> IF k = 0 THEN <<>> ELSE ScanCommand(f[k - 1], k)]
    <3>1. \A k \in 0..0 : k = 0  OBVIOUS
    <3> QED  BY <3>1
  <2> QED  BY <2>1
<1>2. ASSUME NEW n \in Nat, n \in S PROVE n + 1 \in S
  <2>1. PICK f : f = [k \in 0..n |-> IF k = 0 THEN <<>> ELSE ScanCommand(f[k - 1], k)]  BY <1>2
  <2> DEFINE g == [k \in 0..n + 1 |-> IF k = n + 1 THEN ScanCommand(f[n], n + 1) ELSE f[k]]
  <2>2. ASSUME NEW k \in 0..n + 1
        PROVE  g[k] = IF k = 0 THEN <<>> ELSE ScanCommand(g[k - 1], k)
    <3>1. CASE k = n + 1
      <4>1. n \in 0..n + 1 /\ n # n + 1 /\ k - 1 = n /\ k # 0  BY <3>1
      <4>2. g[n] = f[n]  BY <4>1
      <4> QED  BY <3>1, <4>1, <4>2
    <3>2. CASE k # n + 1
      <4>1. k \in 0..n  BY <3>2
      <4>2. f[k] = IF k = 0 THEN <<>> ELSE ScanCommand(f[k - 1], k)  BY <2>1, <4>1
      <4>3. g[k] = f[k]  BY <3>2
      <4>4. k # 0 => k - 1 \in 0..n + 1 /\ k - 1 # n + 1  BY <4>1
      <4>5. k # 0 => g[k - 1] = f[k - 1]  BY <4>4
      <4> QED  BY <4>2, <4>3, <4>5
    <3> QED  BY <3>1, <3>2
  <2>3. g = [k \in 0..n + 1 |-> g[k]]  OBVIOUS
  <2> HIDE DEF g
  <2>4. g = [k \in 0..n + 1 |-> IF k = 0 THEN <<>> ELSE ScanCommand(g[k - 1], k)]  BY <2>2, <2>3
  <2> QED  BY <2>4
<1> HIDE DEF S
<1>3. \A n \in Nat : n \in S  BY <1>1, <1>2, NatSetInduction
<1> QED  BY <1>3 DEF S

\* One turn of the scan.
LEMMA ScanTurn ==
  ASSUME NEW k \in Nat, NEW s, ListsFullPackets(s, k), NEW t, t = ScanCommand(s, k + 1)
  PROVE  ListsFullPackets(t, k + 1)
<1> DEFINE m == k + 1
<1>1. m \in Nat /\ m \in 1..m /\ 1..m = 1..k \cup {m} /\ \A j \in 1..k : j < m  OBVIOUS
<1> HIDE DEF m
<1>2. s \in Seq(Nat) /\ Len(s) \in Nat  BY LenProperties DEF ListsFullPackets
<1>3. CASE ~IsFullPacket(m)
  <2>1. t = s  BY <1>3 DEF ScanCommand, IsFullPacket, m
  <2> QED  BY <1>1, <1>3, <2>1 DEF ListsFullPackets, m
<1>4. CASE IsFullPacket(m)
  <2>1. t = Append(s, m)  BY <1>4 DEF ScanCommand, IsFullPacket, m
  <2> DEFINE n == Len(s) + 1
  <2>2. /\ t \in Seq(Nat) /\ Len(t) = n /\ t[n] = m
        /\ \A o \in 1..Len(s) : t[o] = s[o]
    <3>1. t \in Seq(Nat)  BY SMTT(60), <1>1, <1>2, <2>1
    <3>2. Len(t) = n  BY <1>1, <1>2, <2>1
    <3>3. t[n] = m  BY <1>1, <1>2, <2>1
    <3>4. ASSUME NEW o \in 1..Len(s)  PROVE t[o] = s[o]  BY SMTT(60), <1>1, <1>2, <2>1
    <3> QED  BY <3>1, <3>2, <3>3, <3>4
  <2>3. n \in 1..n /\ 1..n = 1..Len(s) \cup {n} /\ \A o \in 1..Len(s) : o < n /\ ~ (n < o)  BY <1>2
  <2> HIDE DEF n
  <2>4. \A o \in 1..Len(t) : t[o] \in 1..m /\ IsFullPacket(t[o])
    BY <1>1, <1>4, <2>2, <2>3 DEF ListsFullPackets
  <2>5. \A o, u \in 1..Len(t) : o < u => t[o] < t[u]
    <3> SUFFICES ASSUME NEW o \in 1..n, NEW u \in 1..n, o < u PROVE t[o] < t[u]  BY <2>2
    <3>1. o \in 1..Len(s)  BY <1>2, <2>3
    <3>2. CASE u = n  BY <1>1, <2>2, <3>1, <3>2 DEF ListsFullPackets
    <3>3. CASE u \in 1..Len(s)  BY <2>2, <3>1, <3>3 DEF ListsFullPackets
    <3> QED  BY <2>3, <3>2, <3>3
  <2>6. \A j \in 1..m : IsFullPacket(j) => \E o \in 1..Len(t) : t[o] = j
    <3> SUFFICES ASSUME NEW j \in 1..m, IsFullPacket(j) PROVE \E o \in 1..n : t[o] = j  BY <2>2
    <3>1. CASE j = m  BY <2>2, <2>3, <3>1
    <3>2. CASE j \in 1..k
      <4>1. PICK o \in 1..Len(s) : s[o] = j  BY <3>2 DEF ListsFullPackets
      <4>2. o \in 1..n /\ t[o] = j  BY <2>2, <2>3, <4>1
      <4> QED  BY <4>2
    <3> QED  BY <1>1, <3>1, <3>2
  <2> QED  BY <2>2, <2>4, <2>5, <2>6 DEF ListsFullPackets, m
<1> QED  BY <1>3, <1>4

\* scan_full_packet_ticks finds every full packet, in the order they are in.
LEMMA FullPacketList ==
  ASSUME Len(demo) \in Nat
  PROVE  ListsFullPackets(FullPackets, Len(demo))
<1> DEFINE N == Len(demo)
           f == CHOOSE f : f = [k \in 0..N |-> IF k = 0 THEN <<>> ELSE ScanCommand(f[k - 1], k)]
           S == {n \in Nat : n <= N => ListsFullPackets(f[n], n)}
<1>1. FullPackets = f[N]  BY DEF FullPackets
<1>2. f = [k \in 0..N |-> IF k = 0 THEN <<>> ELSE ScanCommand(f[k - 1], k)]  BY ScannedExists
<1> HIDE DEF f
<1>3. 0 \in S
  <2>1. f[0] = <<>>  BY <1>2
  <2>2. <<>> \in Seq(Nat) /\ Len(<<>>) = 0  BY EmptySeq
  <2>3. 1..0 = {}  OBVIOUS
  <2>4. ListsFullPackets(<<>>, 0)  BY <2>2, <2>3 DEF ListsFullPackets
  <2> QED  BY <2>1, <2>4
<1>4. ASSUME NEW n \in Nat, n \in S PROVE n + 1 \in S
  <2> SUFFICES ASSUME n + 1 <= N PROVE ListsFullPackets(f[n + 1], n + 1)  OBVIOUS
  <2>1. n + 1 \in 0..N /\ n + 1 # 0 /\ n + 1 - 1 = n /\ n <= N  OBVIOUS
  <2>2. f[n + 1] = ScanCommand(f[n], n + 1)  BY <1>2, <2>1
  <2>3. ListsFullPackets(f[n], n)  BY <1>4, <2>1
  <2> QED  BY <2>2, <2>3, ScanTurn
<1> HIDE DEF S
<1>5. \A n \in Nat : n \in S  BY <1>3, <1>4, NatSetInduction
<1> QED  BY <1>1, <1>5 DEF S

------------------------------------------------------------------------------
(* The recording.                                                          *)

Events == [kind : {"CREATE", "UPDATE", "DELETE", "LEAVE"}, index : Indexes, entity : Entity]
Games  == [entities : Partial(Indexes, Entity), tables : [Tables -> Versions], events : Seq(Events)]

Baseline(g) == g.tables[INSTANCE_BASELINE_TABLE_NAME]

\* The entries create the entities, as they are.
Restates(entries, entities) ==
  /\ \A n \in DOMAIN entries :
       /\ entries[n].delta = "CREATE" /\ entries[n].index \in DOMAIN entities
       /\ entries[n].base = entities[entries[n].index].base
       /\ entries[n].state = entities[entries[n].index].state
  /\ \A i \in DOMAIN entities : \E n \in DOMAIN entries : entries[n].index = i

\* How a command changes the game: g before it, h after it.
TableChange(g, m, h) ==
  /\ m.msg = "SvcUpdateStringTable"
  /\ h.entities = g.entities
  /\ h.tables = [g.tables EXCEPT ![m.table] = m.version]
  /\ m.version = g.tables[m.table] + 1
  /\ m.table = INSTANCE_BASELINE_TABLE_NAME /\ ~BaselineMayChange => g.tables[m.table] = 0

EntityChange(g, e, h) ==
  /\ h.tables = g.tables
  /\ \/ /\ e.delta = "CREATE" /\ e.base = Missing /\ Baseline(g) # 0
        /\ h.entities = [i \in DOMAIN g.entities \cup {e.index} |->
                           IF i = e.index THEN [base |-> Baseline(g), state |-> e.state]
                           ELSE g.entities[i]]
     \/ /\ e.delta = "UPDATE" /\ e.index \in DOMAIN g.entities
        /\ h.entities = [i \in DOMAIN g.entities |->
                           IF i = e.index THEN [g.entities[i] EXCEPT !.state = e.state]
                           ELSE g.entities[i]]
     \/ /\ e.delta \in {"DELETE", "LEAVE"} /\ e.index \in DOMAIN g.entities
        /\ h.entities = [i \in DOMAIN g.entities \ {e.index} |-> g.entities[i]]

Change(g, c, h) ==
  LET m == c.messages[1]
      e == m.entries[1]
  IN /\ c.messages = <<m>>
     /\ \/ /\ c.cmd = "DemFullPacket" /\ c.tables = g.tables
           /\ m \in EntityMessages /\ Restates(m.entries, g.entities)
           /\ h.tables = g.tables /\ h.entities = g.entities
        \/ c.cmd = "DemPacket" /\ m \in TableMessages /\ TableChange(g, m, h)
        \/ /\ c.cmd = "DemPacket" /\ m \in EntityMessages
           /\ m.entries = <<e>> /\ e \in Entries /\ EntityChange(g, e, h)

\* The last full packet before k is at j.
LastBefore(j, k) ==
  /\ j \in 1..k - 1 /\ IsFullPacket(j)
  /\ \A i \in j + 1..k - 1 : ~IsFullPacket(i)

\* What is known of every recording.
Recorded ==
  /\ demo \in Seq(Commands) /\ game \in Seq(Games) /\ Len(game) = Len(demo)
  /\ Len(demo) \in 4..4 + MaxBody
  /\ \A k \in 1..4 : demo[k] = Signon[k] /\ game[k] = NewGame
  /\ \A k \in 5..Len(demo) : Change(game[k - 1], demo[k], game[k])
  /\ \A k \in 1..Len(demo) : IsFiniteSet(DOMAIN game[k].entities)

\* An entity has a class that has its baseline.
BaselineFirst ==
  \A k \in 1..Len(demo) :
    /\ DOMAIN game[k].entities # {} => Baseline(game[k]) # 0
    /\ ~BaselineMayChange => Baseline(game[k]) \in 0..1

\* When the commands are, and how far apart the full packets.
Timed ==
  /\ \A j, k \in 1..Len(demo) : j <= k => demo[j].tick <= demo[k].tick
  /\ demo[Len(demo)].tick <= Len(demo) - 5
  /\ \A k \in 5..Len(demo) : demo[k].tick >= 0
  /\ Len(demo) >= 5 => IsFullPacket(5)
  /\ \A k \in 6..Len(demo) : \A j \in 1..k - 1 :
       LastBefore(j, k) => demo[k].tick <= demo[j].tick + FullPacketSpacing

RecordingInv == Recorded /\ BaselineFirst /\ Timed

\* The signon part.
LEMMA SignonFacts ==
  /\ Signon \in Seq(Commands) /\ Len(Signon) = 4 /\ DOMAIN Signon = 1..4
  /\ NewGame \in Games /\ DOMAIN NewGame.entities = {} /\ Baseline(NewGame) = 0
  /\ \A k \in 1..4 : Signon[k].tick = -1 /\ Signon[k].cmd # "DemFullPacket"
<1> DEFINE i == [msg |-> "SvcServerInfo", ratio |-> TickRatio]
           u == CreateStringTable("userinfo")
           b == CreateStringTable(INSTANCE_BASELINE_TABLE_NAME)
           m == <<i, u, b>>
           c1 == Command("DemSignonPacket", -1, m, <<>>)
           c2 == Command("DemSendTables", -1, <<>>, <<>>)
           c3 == Command("DemClassInfo", -1, <<>>, <<>>)
           c4 == Command("DemSyncTick", -1, <<>>, <<>>)
<1>1. Signon = <<c1, c2, c3, c4>>  BY DEF Signon
<1>2. i \in Messages  BY DemoAssumption DEF Messages, InfoMessages
<1>3. u \in Messages /\ b \in Messages
  BY IndexFacts DEF Messages, TableMessages, CreateStringTable, Tables
<1>4. m \in Seq(Messages)
  <2> HIDE DEF i, u, b
  <2> QED  BY <1>2, <1>3
<1>5. <<>> \in Seq(Messages) /\ <<>> \in Partial(Tables, Versions)  BY EmptyIsPartial, EmptySeq
<1>6. -1 \in Ticks  BY DemoAssumption DEF Ticks
<1>7. c1 \in Commands /\ c1.tick = -1 /\ c1.cmd # "DemFullPacket"
  <2> HIDE DEF m
  <2> QED  BY <1>4, <1>5, <1>6 DEF Commands, Command
<1>8. c2 \in Commands /\ c2.tick = -1 /\ c2.cmd # "DemFullPacket"  BY <1>5, <1>6 DEF Commands, Command
<1>9. c3 \in Commands /\ c3.tick = -1 /\ c3.cmd # "DemFullPacket"  BY <1>5, <1>6 DEF Commands, Command
<1>10. c4 \in Commands /\ c4.tick = -1 /\ c4.cmd # "DemFullPacket"  BY <1>5, <1>6 DEF Commands, Command
<1> HIDE DEF c1, c2, c3, c4
<1>11. Signon \in Seq(Commands) /\ Len(Signon) = 4 /\ DOMAIN Signon = 1..4
  BY <1>1, <1>7, <1>8, <1>9, <1>10
<1>12. \A k \in 1..4 : Signon[k].tick = -1 /\ Signon[k].cmd # "DemFullPacket"
  <2>1. \A k \in 1..4 : k = 1 \/ k = 2 \/ k = 3 \/ k = 4  OBVIOUS
  <2>2. Signon[1] = c1 /\ Signon[2] = c2 /\ Signon[3] = c3 /\ Signon[4] = c4  BY <1>1
  <2> QED  BY <1>7, <1>8, <1>9, <1>10, <2>1, <2>2
<1>13. NewGame \in Games /\ DOMAIN NewGame.entities = {} /\ Baseline(NewGame) = 0
  <2>1. <<>> \in Partial(Indexes, Entity) /\ DOMAIN <<>> = {}  BY EmptyIsPartial
  <2>2. <<>> \in Seq(Events)  BY EmptySeq
  <2>3. [t \in Tables |-> 0] \in [Tables -> Versions]  BY IndexFacts
  <2>4. INSTANCE_BASELINE_TABLE_NAME \in Tables  BY DEF Tables
  <2> QED  BY <2>1, <2>2, <2>3, <2>4 DEF NewGame, Games, Baseline
<1> QED  BY <1>11, <1>12, <1>13

\* The signon part alone is a recording.
LEMMA RecordedInit ==
  ASSUME Init PROVE RecordingInv
<1>1. demo = Signon /\ game = [k \in 1..4 |-> NewGame]  BY SignonFacts DEF Init
<1>2. game \in Seq(Games) /\ Len(game) = 4 /\ DOMAIN game = 1..4 /\ \A k \in 1..4 : game[k] = NewGame
  <2>1. game \in [1..4 -> Games]  BY <1>1, SignonFacts
  <2>2. game \in Seq(Games)
    <3> DEFINE n == 4
    <3>1. n \in Nat /\ game \in [1..n -> Games]  BY <2>1
    <3> HIDE DEF n
    <3> QED  BY <3>1, SeqDef
  <2>3. DOMAIN game = 1..4  BY <2>1
  <2>4. DOMAIN game = 1..Len(game) /\ Len(game) \in Nat  BY <2>2, LenProperties
  <2>5. Len(game) = 4  BY <2>3, <2>4
  <2> QED  BY <1>1, <2>2, <2>3, <2>5
<1>3. IsFiniteSet({})  BY FS_EmptySet
<1>4. Recorded
  <2>1. Len(demo) = 4 /\ demo \in Seq(Commands) /\ 4 \in 4..4 + MaxBody /\ 5..4 = {}
    BY <1>1, SignonFacts, DemoAssumption
  <2>2. \A k \in 1..4 : demo[k] = Signon[k] /\ game[k] = NewGame /\ IsFiniteSet(DOMAIN game[k].entities)
    BY <1>1, <1>2, <1>3, SignonFacts
  <2> QED  BY <1>2, <2>1, <2>2 DEF Recorded
<1>5. BaselineFirst  BY <1>1, <1>2, SignonFacts DEF BaselineFirst
<1>6. Timed  BY <1>1, <1>2, SignonFacts DEF Timed
<1> QED  BY <1>4, <1>5, <1>6 DEF RecordingInv

\* What a command may do to the game keeps what is known of it.
LEMMA ChangeFacts ==
  ASSUME NEW g \in Games, NEW h \in Games, NEW c \in Commands, Change(g, c, h),
         IsFiniteSet(DOMAIN g.entities), DOMAIN g.entities # {} => Baseline(g) # 0,
         ~BaselineMayChange => Baseline(g) \in 0..1
  PROVE  /\ IsFiniteSet(DOMAIN h.entities)
         /\ DOMAIN h.entities # {} => Baseline(h) # 0
         /\ ~BaselineMayChange => Baseline(h) \in 0..1
<1> DEFINE m == c.messages[1]
           e == m.entries[1]
           B == INSTANCE_BASELINE_TABLE_NAME
<1>0. g.tables \in [Tables -> Versions] /\ B \in Tables /\ Versions \subseteq Nat
  BY DemoAssumption DEF Games, Tables, Versions
<1>1. CASE h.tables = g.tables /\ h.entities = g.entities  BY <1>1 DEF Baseline
<1>2. CASE m \in TableMessages /\ TableChange(g, m, h)
  <2>1. h.tables = [g.tables EXCEPT ![m.table] = g.tables[m.table] + 1] /\ h.entities = g.entities
        /\ m.table \in Tables
    BY <1>2 DEF TableChange, TableMessages
  <2>2. CASE m.table = B
    <3>1. Baseline(h) = Baseline(g) + 1 /\ (~BaselineMayChange => Baseline(g) = 0)
      BY <1>0, <1>2, <2>1, <2>2 DEF Baseline, TableChange
    <3>2. Baseline(g) \in Nat  BY <1>0 DEF Baseline
    <3> QED  BY <2>1, <3>1, <3>2
  <2>3. CASE m.table # B
    <3>1. Baseline(h) = Baseline(g)  BY <1>0, <2>1, <2>3 DEF Baseline
    <3> QED  BY <2>1, <3>1
  <2> QED  BY <2>2, <2>3
<1>3. CASE e \in Entries /\ EntityChange(g, e, h)
  <2>1. Baseline(h) = Baseline(g)  BY <1>3 DEF EntityChange, Baseline
  <2>2. /\ Baseline(g) # 0
        /\ \/ DOMAIN h.entities = DOMAIN g.entities \cup {e.index}
           \/ DOMAIN h.entities = DOMAIN g.entities
           \/ DOMAIN h.entities = DOMAIN g.entities \ {e.index}
    <3> HIDE DEF e
    <3> QED  BY <1>3 DEF EntityChange
  <2>3. IsFiniteSet(DOMAIN h.entities)  BY <2>2, FS_AddElement, FS_RemoveElement
  <2> QED  BY <2>1, <2>2, <2>3
<1> QED  BY <1>1, <1>2, <1>3 DEF Change

\* The last full packet, once there is one.
LEMMA LastFullPacket ==
  ASSUME RecordingInv
  PROVE  /\ FullPackets # <<>> <=> Len(demo) >= 5
         /\ FullPackets # <<>> =>
              /\ Last(FullPackets) \in 1..Len(demo) /\ IsFullPacket(Last(FullPackets))
              /\ \A i \in Last(FullPackets) + 1..Len(demo) : ~IsFullPacket(i)
<1>0. Recorded /\ Timed  BY DEF RecordingInv
<1> DEFINE F == FullPackets
           N == Len(demo)
<1>1. N \in Nat /\ N >= 4  BY <1>0, DemoAssumption DEF Recorded
<1>2. ListsFullPackets(F, N)  BY <1>1, FullPacketList
<1>3. F \in Seq(Nat) /\ Len(F) \in Nat /\ DOMAIN F = 1..Len(F)  BY <1>2, LenProperties DEF ListsFullPackets
<1>4. F # <<>> => Len(F) \in 1..Len(F)  BY <1>3, EmptySeq
<1>5. ASSUME N >= 5 PROVE F # <<>>
  <2>1. 5 \in 1..N /\ IsFullPacket(5)  BY <1>0, <1>1, <1>5 DEF Timed
  <2>2. PICK o \in 1..Len(F) : F[o] = 5  BY <1>2, <2>1 DEF ListsFullPackets
  <2>3. Len(F) # 0  BY <1>3, <2>2
  <2> QED  BY <2>3, EmptySeq
<1>6. ASSUME F # <<>>
      PROVE  /\ Last(F) \in 1..N /\ IsFullPacket(Last(F))
             /\ \A i \in Last(F) + 1..N : ~IsFullPacket(i)
  <2>1. Len(F) \in 1..Len(F) /\ Last(F) = F[Len(F)]  BY <1>4, <1>6 DEF Last
  <2>2. Last(F) \in 1..N /\ IsFullPacket(Last(F))  BY <1>2, <2>1 DEF ListsFullPackets
  <2>3. ASSUME NEW i \in Last(F) + 1..N, IsFullPacket(i) PROVE FALSE
    <3>1. i \in 1..N  BY <1>1, <2>2
    <3>2. PICK o \in 1..Len(F) : F[o] = i  BY <1>2, <2>3, <3>1 DEF ListsFullPackets
    <3>3. o = Len(F) \/ o < Len(F)
      <4>1. \A n \in Nat : \A x \in 1..n : x = n \/ x < n  OBVIOUS
      <4> QED  BY <1>3, <4>1
    <3>4. F[o] <= F[Len(F)]
      <4>1. o < Len(F) => F[o] < F[Len(F)]  BY <1>2, <2>1 DEF ListsFullPackets
      <4>2. F[o] \in Nat /\ F[Len(F)] \in Nat  BY <1>1, <2>1, <2>2, <3>1, <3>2
      <4> QED  BY <3>3, <4>1, <4>2
    <3> QED  BY <1>1, <2>1, <2>2, <3>1, <3>2, <3>4
  <2> QED  BY <2>2, <2>3
<1>7. ASSUME F # <<>> PROVE N >= 5
  <2>1. Last(F) \in 1..N /\ IsFullPacket(Last(F))  BY <1>6, <1>7
  <2>2. \A k \in 1..4 : ~IsFullPacket(k)  BY <1>0, SignonFacts DEF Recorded, IsFullPacket
  <2> QED  BY <1>1, <2>1, <2>2
<1> QED  BY <1>1, <1>5, <1>6, <1>7

\* One more command.
LEMMA RecordFacts ==
  ASSUME RecordingInv, Recording,
         NEW c \in Commands, NEW h \in Games, Change(Now, c, h), Record(c, h),
         c.tick \in NextTicks, FullPackets = <<>> => c.cmd = "DemFullPacket",
         FullPackets # <<>> => c.tick <= LastFullPacketTick + FullPacketSpacing
  PROVE  RecordingInv'
<1>0. Recorded /\ BaselineFirst /\ Timed  BY DEF RecordingInv
<1> DEFINE N == Len(demo)
           M == N + 1
<1>1. /\ N \in Nat /\ N >= 4 /\ N < 4 + MaxBody /\ MaxBody \in Nat /\ M \in Nat /\ M = N + 1
      /\ N \in 1..N /\ M >= 5 /\ M - 1 = N
      /\ M \in 1..M /\ 1..M = 1..N \cup {M} /\ 5..M = 5..N \cup {M} /\ \A k \in 1..N : k < M
  BY <1>0, SignonFacts, DemoAssumption DEF Recorded, Recording
<1> HIDE DEF M
<1>2. /\ demo' \in Seq(Commands) /\ Len(demo') = M /\ demo'[M] = c
      /\ \A k \in 1..N : demo'[k] = demo[k]
  BY <1>0, AppendProperties DEF Record, Recorded, M
<1>3. /\ game' \in Seq(Games) /\ Len(game') = M /\ game'[M] = h
      /\ \A k \in 1..N : game'[k] = game[k]
  BY <1>0, AppendProperties DEF Record, Recorded, M
<1>4. Now = game[N] /\ Now \in Games /\ Last(demo) = demo[N] /\ demo[N] \in Commands
  BY <1>0, <1>1, ElementOfSeq DEF Now, Last, Recorded
<1>5. /\ IsFiniteSet(DOMAIN Now.entities)
      /\ DOMAIN Now.entities # {} => Baseline(Now) # 0
      /\ ~BaselineMayChange => Baseline(Now) \in 0..1
  BY <1>0, <1>1, <1>4 DEF Recorded, BaselineFirst
<1>6. /\ IsFiniteSet(DOMAIN h.entities)
      /\ DOMAIN h.entities # {} => Baseline(h) # 0
      /\ ~BaselineMayChange => Baseline(h) \in 0..1
  BY <1>4, <1>5, ChangeFacts
<1>7. Recorded'
  <2>1. Len(demo') \in 4..4 + MaxBody  BY <1>1, <1>2
  <2>2. \A k \in 1..4 : demo'[k] = Signon[k] /\ game'[k] = NewGame
    BY <1>0, <1>1, <1>2, <1>3 DEF Recorded
  <2>3. ASSUME NEW k \in 5..M PROVE Change(game'[k - 1], demo'[k], game'[k])
    <3>1. CASE k = M  BY <1>1, <1>2, <1>3, <1>4, <3>1
    <3>2. CASE k \in 5..N
      <4>1. k \in 1..N /\ k - 1 \in 1..N  BY <1>1, <3>2
      <4> QED  BY <1>0, <1>2, <1>3, <3>2, <4>1 DEF Recorded
    <3> QED  BY <1>1, <3>1, <3>2
  <2>4. \A k \in 1..M : IsFiniteSet(DOMAIN game'[k].entities)
    BY <1>0, <1>1, <1>3, <1>6 DEF Recorded
  <2> QED  BY Zenon, <1>0, <1>2, <1>3, <2>1, <2>2, <2>3, <2>4 DEF Recorded, Change, TableChange, EntityChange
<1>8. BaselineFirst'
  <2>1. ASSUME NEW k \in 1..M
        PROVE  /\ DOMAIN game'[k].entities # {} => Baseline(game'[k]) # 0
               /\ ~BaselineMayChange => Baseline(game'[k]) \in 0..1
    <3>1. CASE k = M  BY <1>3, <1>6, <3>1
    <3>2. CASE k \in 1..N  BY <1>0, <1>3, <3>2 DEF BaselineFirst
    <3> QED  BY <1>1, <3>1, <3>2
  <2> QED  BY <1>0, <1>2, <2>1 DEF BaselineFirst, Baseline
<1>9. c.tick \in Int /\ c.tick >= demo[N].tick /\ c.tick <= demo[N].tick + 1 /\ c.tick >= 0
      /\ demo[N].tick \in Int
  <2>1. demo[N].tick \in -1..MaxBody  BY <1>4 DEF Commands, Ticks
  <2> QED  BY <1>1, <1>4, <2>1 DEF NextTicks
<1>10. \A k \in 1..N : demo[k].tick \in Int /\ demo[k].tick <= demo[N].tick
  <2>1. ASSUME NEW k \in 1..N PROVE demo[k].tick \in Int
    <3>1. demo[k] \in Commands  BY <1>0, ElementOfSeq DEF Recorded
    <3> QED  BY <1>1, <3>1 DEF Commands, Ticks
  <2>2. \A k \in 1..N : k <= N  BY <1>1
  <2> QED  BY <1>0, <1>1, <2>1, <2>2 DEF Timed
<1>11. Timed'
  <2>1. ASSUME NEW j \in 1..M, NEW k \in 1..M, j <= k PROVE demo'[j].tick <= demo'[k].tick
    <3>1. CASE k = M
      <4>1. j = M \/ j \in 1..N  BY <1>1
      <4>2. j = M => demo'[j].tick = c.tick  BY <1>2
      <4>3. j \in 1..N => demo'[j].tick = demo[j].tick  BY <1>2
      <4> QED  BY <1>2, <1>9, <1>10, <3>1, <4>1, <4>2, <4>3
    <3>2. CASE k \in 1..N
      <4>1. j \in 1..N  BY <1>1, <2>1, <3>2
      <4> QED  BY <1>0, <1>2, <2>1, <3>2, <4>1 DEF Timed
    <3> QED  BY <1>1, <3>1, <3>2
  <2>2. demo'[M].tick <= M - 5
    <3>1. demo[N].tick <= N - 5  BY <1>0 DEF Timed
    <3> QED  BY <1>1, <1>2, <1>9, <3>1
  <2>3. \A k \in 5..M : demo'[k].tick >= 0
    <3>1. \A k \in 5..N : k \in 1..N  BY <1>1
    <3> QED  BY <1>0, <1>1, <1>2, <1>9, <3>1 DEF Timed
  <2>4. demo'[5].cmd = "DemFullPacket"
    <3>1. CASE N >= 5
      <4>1. 5 \in 1..N  BY <1>1, <3>1
      <4> QED  BY <1>0, <1>2, <3>1, <4>1 DEF Timed, IsFullPacket
    <3>2. CASE N = 4
      <4>1. FullPackets = <<>>  BY <1>1, <3>2, LastFullPacket
      <4> QED  BY <1>2, <3>2, <4>1 DEF M
    <3> QED  BY <1>1, <3>1, <3>2
  <2>5. ASSUME NEW k \in 6..M, NEW j \in 1..k - 1, demo'[j].cmd = "DemFullPacket",
               \A i \in j + 1..k - 1 : demo'[i].cmd # "DemFullPacket"
        PROVE  demo'[k].tick <= demo'[j].tick + FullPacketSpacing
    <3>1. j \in 1..N /\ \A i \in j + 1..k - 1 : i \in 1..N  BY <1>1
    <3>2. IsFullPacket(j) /\ \A i \in j + 1..k - 1 : ~IsFullPacket(i)
      BY <1>2, <2>5, <3>1 DEF IsFullPacket
    <3>3. CASE k = M
      <4> DEFINE l == Last(FullPackets)
      <4>1. FullPackets # <<>>  BY <1>1, <3>3, LastFullPacket
      <4>2. l \in 1..N /\ IsFullPacket(l) /\ \A i \in l + 1..N : ~IsFullPacket(i)
        BY <4>1, LastFullPacket
      <4>3. LastFullPacketTick = demo[l].tick  BY DEF LastFullPacketTick
      <4> HIDE DEF l
      <4>4. j = l
        <5>1. \A i \in j + 1..N : ~IsFullPacket(i)  BY <1>1, <3>2, <3>3
        <5>2. ~ (j \in l + 1..N) /\ ~ (l \in j + 1..N)  BY <3>2, <4>2, <5>1
        <5> QED  BY <1>1, <3>1, <4>2, <5>2
      <4>5. c.tick <= demo[l].tick + FullPacketSpacing  BY <4>1, <4>3
      <4> QED  BY <1>2, <3>1, <3>3, <4>4, <4>5
    <3>4. CASE k \in 6..N
      <4>1. LastBefore(j, k)  BY <3>1, <3>2 DEF LastBefore
      <4>2. k \in 1..N  BY <1>1, <3>4
      <4>3. demo[k].tick <= demo[j].tick + FullPacketSpacing  BY <1>0, <3>4, <4>1 DEF Timed
      <4> QED  BY <1>2, <3>1, <4>2, <4>3
    <3> QED  BY <1>1, <3>3, <3>4
  <2> QED  BY <1>0, <1>2, <2>1, <2>2, <2>3, <2>4, <2>5 DEF Timed, LastBefore, IsFullPacket, FullPacketSpacing
<1> QED  BY <1>7, <1>8, <1>11 DEF RecordingInv

\* What the recorder goes on from.
LEMMA NowFacts ==
  ASSUME RecordingInv
  PROVE  /\ Now \in Games /\ Last(demo) \in Commands
         /\ IsFiniteSet(DOMAIN Now.entities)
         /\ DOMAIN Now.entities # {} => Baseline(Now) # 0
<1> DEFINE N == Len(demo)
<1>1. N \in Nat /\ N \in 1..N /\ Len(game) = N /\ demo \in Seq(Commands) /\ game \in Seq(Games)
  BY DemoAssumption DEF RecordingInv, Recorded
<1>2. Now = game[N] /\ Last(demo) = demo[N]  BY <1>1 DEF Now, Last
<1>3. game[N] \in Games /\ demo[N] \in Commands  BY <1>1, ElementOfSeq
<1>4. /\ IsFiniteSet(DOMAIN game[N].entities)
      /\ DOMAIN game[N].entities # {} => Baseline(game[N]) # 0
  BY <1>1 DEF RecordingInv, Recorded, BaselineFirst
<1> QED  BY <1>2, <1>3, <1>4

\* The next tick of a recording is within its bounds.
LEMMA NextTickFacts ==
  ASSUME RecordingInv, Recording, NEW tick \in NextTicks PROVE tick \in Ticks
<1> DEFINE N == Len(demo)
<1>1. N \in Nat /\ N >= 4 /\ N < 4 + MaxBody /\ MaxBody \in Nat
  BY SignonFacts, DemoAssumption DEF RecordingInv, Recorded, Recording
<1>2. demo[N].tick <= N - 5  BY DEF RecordingInv, Timed
<1>3. demo[N].tick \in Ticks /\ Last(demo) = demo[N]  BY NowFacts DEF Last, Commands
<1> QED  BY <1>1, <1>2, <1>3 DEF NextTicks, Ticks

\* Any DemPacket of one message.
LEMMA RecordPacket ==
  ASSUME RecordingInv, NEW m \in Messages, NEW h \in Games, Packet(m, h),
         \/ m \in TableMessages /\ TableChange(Now, m, h)
         \/ /\ m \in EntityMessages
            /\ \E e \in Entries : m.entries = <<e>> /\ EntityChange(Now, e, h)
  PROVE  RecordingInv'
<1>1. PICK tick \in NextTicks :
        /\ Recording /\ FullPackets # <<>> /\ tick <= LastFullPacketTick + FullPacketSpacing
        /\ Record(Command("DemPacket", tick, <<m>>, <<>>), h)
  BY DEF Packet
<1> DEFINE c == Command("DemPacket", tick, <<m>>, <<>>)
<1>2. tick \in Ticks  BY <1>1, NextTickFacts
<1>3. <<m>> \in Seq(Messages) /\ <<>> \in Partial(Tables, Versions)  BY EmptyIsPartial
<1>4. c \in Commands /\ c.tick = tick /\ c.cmd = "DemPacket" /\ c.messages = <<m>>
  BY <1>2, <1>3 DEF Command, Commands
<1>5. Record(c, h)  BY <1>1
<1> HIDE DEF c
<1>6. Change(Now, c, h)
  <2>1. c.messages[1] = m  BY <1>4
  <2>2. CASE m \in TableMessages /\ TableChange(Now, m, h)  BY <1>4, <2>1, <2>2 DEF Change
  <2>3. CASE m \in EntityMessages /\ \E e \in Entries : m.entries = <<e>> /\ EntityChange(Now, e, h)
    <3>1. PICK e \in Entries : m.entries = <<e>> /\ EntityChange(Now, e, h)  BY <2>3
    <3>2. m.entries[1] = e  BY <3>1
    <3> QED  BY <1>4, <2>1, <2>3, <3>1, <3>2 DEF Change
  <2> QED  BY <2>2, <2>3
<1> QED  BY <1>1, <1>4, <1>5, <1>6, RecordFacts

\* The game after a packet of one entry.
LEMMA RecordEntity ==
  ASSUME RecordingInv, NEW e \in Entries, NEW g, g = [Now EXCEPT !.entities = g.entities],
         g.entities \in Partial(Indexes, Entity), EntityChange(Now, e, g),
         EntityPacket(e.delta, e.index, e.base, e.state, g)
  PROVE  RecordingInv'
<1> DEFINE x == [kind |-> e.delta, index |-> e.index,
                 entity |-> IF e.delta \in {"DELETE", "LEAVE"} THEN Now.entities[e.index]
                            ELSE g.entities[e.index]]
           h == [g EXCEPT !.events = <<x>>]
           m == [msg |-> "SvcPacketEntities", entries |-> <<e>>]
<1>1. Now \in Games  BY NowFacts
<1>2. x \in Events
  <2>1. e.delta \in {"DELETE", "LEAVE"} => Now.entities[e.index] \in Entity
    <3>1. Now.entities \in Partial(Indexes, Entity)  BY <1>1 DEF Games
    <3>2. e.delta \in {"DELETE", "LEAVE"} => e.index \in DOMAIN Now.entities  BY DEF EntityChange
    <3> QED  BY <3>1, <3>2, PartialFacts
  <2>2. e.delta \notin {"DELETE", "LEAVE"} => g.entities[e.index] \in Entity
    <3>1. e.delta \notin {"DELETE", "LEAVE"} => e.index \in DOMAIN g.entities  BY DEF EntityChange
    <3> QED  BY <3>1, PartialFacts
  <2> QED  BY <2>1, <2>2 DEF Events, Entries
<1>3. h \in Games /\ h.entities = g.entities /\ h.tables = Now.tables
  <2> DEFINE ev == <<x>>
  <2>1. ev \in Seq(Events)  BY <1>2
  <2>2. h = [g EXCEPT !.events = ev]  OBVIOUS
  <2> HIDE DEF ev, h, x
  <2> QED  BY <1>1, <2>1, <2>2 DEF Games
<1>4. Packet(m, h)
  <2>1. e = [delta |-> e.delta, index |-> e.index, base |-> e.base, state |-> e.state]  BY DEF Entries
  <2> QED  BY <2>1 DEF EntityPacket
<1>5. m \in EntityMessages /\ m \in Messages /\ m.entries = <<e>>  BY DEF EntityMessages, Messages
<1> HIDE DEF m, h, x
<1>6. EntityChange(Now, e, h)
  <2>1. EntityChange(Now, e, g) /\ g.tables = Now.tables  BY DEF EntityChange
  <2> QED  BY <1>3, <2>1 DEF EntityChange
<1> QED  BY <1>3, <1>4, <1>5, <1>6, RecordPacket

\* A recording goes on with a CREATE of an entity whose class has its baseline.
LEMMA RecordCreateFacts ==
  ASSUME RecordingInv, NEW i \in Indexes, RecordCreate(i) PROVE RecordingInv'
<1> DEFINE entity == [base |-> Baseline(Now), state |-> 0]
           f == [j \in DOMAIN Now.entities \cup {i} |-> IF j = i THEN entity ELSE Now.entities[j]]
           g == [Now EXCEPT !.entities = f]
           e == [delta |-> "CREATE", index |-> i, base |-> Missing, state |-> 0]
<1>1. Now \in Games  BY NowFacts
<1>2. Baseline(Now) \in Versions /\ Baseline(Now) > 0
  <2>1. Now.tables \in [Tables -> Versions] /\ INSTANCE_BASELINE_TABLE_NAME \in Tables
    BY <1>1 DEF Games, Tables
  <2> QED  BY <2>1 DEF RecordCreate, Baseline
<1>3. e \in Entries  BY DemoAssumption DEF Entries
<1>4. EntityPacket("CREATE", i, Missing, 0, g)  BY <1>1 DEF RecordCreate, Baseline, Games
<1>5. f \in Partial(Indexes, Entity)
  <2>1. Now.entities \in Partial(Indexes, Entity)  BY <1>1 DEF Games
  <2>2. DOMAIN Now.entities \subseteq Indexes /\ \A j \in DOMAIN Now.entities : Now.entities[j] \in Entity
    BY <2>1, PartialFacts
  <2>3. entity \in Entity  BY <1>2, DemoAssumption DEF Entity, Versions
  <2>4. f \in [DOMAIN Now.entities \cup {i} -> Entity]  BY <2>2, <2>3
  <2>5. DOMAIN Now.entities \cup {i} \in SUBSET Indexes  BY <2>2
  <2> HIDE DEF f
  <2> QED  BY <2>4, <2>5, PartialIs
<1>6. EntityChange(Now, e, g)
  <2>1. g.entities = f /\ g.tables = Now.tables  BY <1>1 DEF Games
  <2>2. Baseline(Now) # 0  BY <1>2 DEF Versions
  <2> HIDE DEF g
  <2> QED  BY <2>1, <2>2 DEF EntityChange
<1>7. g = [Now EXCEPT !.entities = g.entities] /\ g.entities = f
  <2> HIDE DEF f
  <2> QED  BY <1>1 DEF Games
<1>8. EntityPacket(e.delta, e.index, e.base, e.state, g)  BY <1>4
<1> HIDE DEF f, g, e
<1> QED  BY <1>3, <1>5, <1>6, <1>7, <1>8, RecordEntity

\* A recording goes on with an UPDATE.
LEMMA RecordUpdateFacts ==
  ASSUME RecordingInv, NEW i \in Indexes, RecordUpdate(i) PROVE RecordingInv'
<1> DEFINE s == Now.entities[i].state + 1
           f == [j \in DOMAIN Now.entities |-> IF j = i THEN [Now.entities[j] EXCEPT !.state = s]
                                               ELSE Now.entities[j]]
           g == [Now EXCEPT !.entities = f]
           e == [delta |-> "UPDATE", index |-> i, base |-> Missing, state |-> s]
<1>1. Now \in Games  BY NowFacts
<1>2. Now.entities \in Partial(Indexes, Entity)  BY <1>1 DEF Games
<1>3. /\ DOMAIN Now.entities \subseteq Indexes /\ \A j \in DOMAIN Now.entities : Now.entities[j] \in Entity
      /\ Now.entities = [j \in DOMAIN Now.entities |-> Now.entities[j]]
  BY <1>2, PartialFacts
<1>4. i \in DOMAIN Now.entities /\ Now.entities[i].state < MaxState  BY DEF RecordUpdate
<1>5. s \in 0..MaxState  BY <1>3, <1>4, DemoAssumption DEF Entity
<1>6. e \in Entries
  <2> HIDE DEF s
  <2> QED  BY <1>5 DEF Entries
<1>7. f = [Now.entities EXCEPT ![i].state = @ + 1]  BY <1>3, <1>4
<1>8. EntityPacket("UPDATE", i, Missing, s, g)  BY <1>1, <1>7 DEF RecordUpdate, Games
<1>9. f \in Partial(Indexes, Entity)
  <2>1. f \in [DOMAIN Now.entities -> Entity]  BY <1>3, <1>5 DEF Entity
  <2> HIDE DEF f
  <2> QED  BY <1>3, <2>1, PartialIs
<1>10. EntityChange(Now, e, g)
  <2>1. g.entities = f /\ g.tables = Now.tables  BY <1>1 DEF Games
  <2> HIDE DEF g
  <2> QED  BY <1>4, <2>1 DEF EntityChange
<1>11. g = [Now EXCEPT !.entities = g.entities] /\ g.entities = f
  <2> HIDE DEF f
  <2> QED  BY <1>1 DEF Games
<1>12. EntityPacket(e.delta, e.index, e.base, e.state, g)  BY <1>8
<1> HIDE DEF f, g, e
<1> QED  BY <1>6, <1>9, <1>10, <1>11, <1>12, RecordEntity

\* A recording goes on with a DELETE or a LEAVE.
LEMMA RecordGoneFacts ==
  ASSUME RecordingInv, NEW i \in Indexes, RecordGone(i) PROVE RecordingInv'
<1>1. PICK delta \in {"DELETE", "LEAVE"} :
        EntityPacket(delta, i, Missing, 0,
                     [Now EXCEPT !.entities = Restrict(@, DOMAIN @ \ {i})])
  BY DEF RecordGone
<1> DEFINE f == [j \in DOMAIN Now.entities \ {i} |-> Now.entities[j]]
           g == [Now EXCEPT !.entities = f]
           e == [delta |-> delta, index |-> i, base |-> Missing, state |-> 0]
<1>2. Now \in Games /\ i \in DOMAIN Now.entities  BY NowFacts DEF RecordGone
<1>3. Now.entities \in Partial(Indexes, Entity)  BY <1>2 DEF Games
<1>4. DOMAIN Now.entities \subseteq Indexes /\ \A j \in DOMAIN Now.entities : Now.entities[j] \in Entity
  BY <1>3, PartialFacts
<1>5. e \in Entries  BY DemoAssumption DEF Entries
<1>6. EntityPacket(delta, i, Missing, 0, g)  BY <1>1, <1>2 DEF Restrict, Games
<1>7. f \in Partial(Indexes, Entity)
  <2>1. f \in [DOMAIN Now.entities \ {i} -> Entity]  BY <1>4
  <2>2. DOMAIN Now.entities \ {i} \in SUBSET Indexes  BY <1>4
  <2> HIDE DEF f
  <2> QED  BY <2>1, <2>2, PartialIs
<1>8. EntityChange(Now, e, g)
  <2>1. g.entities = f /\ g.tables = Now.tables  BY <1>2 DEF Games
  <2> HIDE DEF g
  <2> QED  BY <1>2, <2>1 DEF EntityChange
<1>9. g = [Now EXCEPT !.entities = g.entities] /\ g.entities = f
  <2> HIDE DEF f
  <2> QED  BY <1>2 DEF Games
<1>10. EntityPacket(e.delta, e.index, e.base, e.state, g)  BY <1>6
<1> HIDE DEF f, g, e
<1> QED  BY <1>5, <1>7, <1>8, <1>9, <1>10, RecordEntity

\* A recording goes on with an update of a string table.
LEMMA RecordTableFacts ==
  ASSUME RecordingInv, NEW t \in Tables, RecordTableUpdate(t) PROVE RecordingInv'
<1> DEFINE v == Now.tables[t] + 1
           m == [msg |-> "SvcUpdateStringTable", table |-> t, version |-> v]
           f == [Now.tables EXCEPT ![t] = v]
           h == [Now EXCEPT !.tables = f, !.events = <<>>]
<1>1. Now \in Games  BY NowFacts
<1>2. Now.tables \in [Tables -> Versions] /\ Now.tables[t] < MaxVersion  BY <1>1 DEF RecordTableUpdate, Games
<1>3. v \in Versions  BY <1>2, DemoAssumption DEF Versions
<1>4. Packet(m, h)
  <2>1. h = [Now EXCEPT !.tables[t] = @ + 1, !.events = <<>>]  BY <1>1 DEF Games
  <2> QED  BY <2>1 DEF RecordTableUpdate
<1>5. h \in Games /\ h.tables = f /\ h.entities = Now.entities
  <2>1. f \in [Tables -> Versions]  BY <1>2, <1>3
  <2>2. <<>> \in Seq(Events)  BY EmptySeq
  <2> HIDE DEF f
  <2> QED  BY <1>1, <2>1, <2>2 DEF Games
<1>6. m \in TableMessages /\ m \in Messages
  <2> HIDE DEF v
  <2> QED  BY <1>3 DEF TableMessages, Messages
<1>7. TableChange(Now, m, h)
  <2>1. t = INSTANCE_BASELINE_TABLE_NAME /\ ~BaselineMayChange => Now.tables[t] = 0  BY DEF RecordTableUpdate
  <2> HIDE DEF h
  <2> QED  BY <1>5, <2>1 DEF TableChange
<1> HIDE DEF m, h
<1> QED  BY <1>4, <1>5, <1>6, <1>7, RecordPacket

\* A finite set as a sequence.
LEMMA LiveFacts ==
  ASSUME NEW S, IsFiniteSet(S), NEW live, live = SetToSeq(S)
  PROVE  /\ live \in Seq(S) /\ DOMAIN live = 1..Len(live) /\ Len(live) \in Nat
         /\ \A i \in S : \E n \in DOMAIN live : live[n] = i
<1> DEFINE n == Cardinality(S)
<1>1. n \in Nat /\ ExistsBijection(1..n, S)  BY FS_CardinalityType
<1>2. PICK f : f \in Bijection(1..n, S)  BY <1>1 DEF ExistsBijection
<1>3. f \in [1..n -> S] /\ IsInjective(f)
  BY <1>2 DEF Bijection, Injection, IsInjective
<1>4. live \in [1..n -> S] /\ IsInjective(live)
  <2>1. live = CHOOSE x \in [1..n -> S] : IsInjective(x)  BY DEF SetToSeq
  <2> HIDE DEF n
  <2> QED  BY <1>3, <2>1
<1>5. live \in Seq(S)  BY <1>1, <1>4, SeqDef
<1>6. DOMAIN live = 1..Len(live) /\ Len(live) \in Nat  BY <1>5, LenProperties
<1>7. live \in Surjection(1..n, S)
  <2>1. live \in Injection(1..n, S)  BY <1>4 DEF Injection, IsInjective
  <2>2. IsFiniteSet(1..n) /\ Cardinality(1..n) = n  BY <1>1, FS_Interval
  <2> HIDE DEF n
  <2>3. n = Cardinality(S)  BY DEF n
  <2> QED  BY <2>1, <2>2, <2>3, FS_Injection
<1>8. \A i \in S : \E k \in 1..n : live[k] = i  BY <1>7 DEF Surjection
<1>9. DOMAIN live = 1..n  BY <1>4
<1> HIDE DEF n
<1> QED  BY <1>5, <1>6, <1>8, <1>9

\* A recording goes on with a full packet, which restates the game.
LEMMA RecordFullPacketFacts ==
  ASSUME RecordingInv, RecordFullPacket PROVE RecordingInv'
<1> DEFINE live == SetToSeq(DOMAIN Now.entities)
           creates == [n \in DOMAIN live |->
                        [delta |-> "CREATE", index |-> live[n],
                         base |-> Now.entities[live[n]].base, state |-> Now.entities[live[n]].state]]
           m == [msg |-> "SvcPacketEntities", entries |-> creates]
           ev == [n \in DOMAIN live |->
                   [kind |-> "CREATE", index |-> live[n], entity |-> Now.entities[live[n]]]]
           h == [Now EXCEPT !.events = ev]
<1>1. PICK tick \in NextTicks :
        /\ Recording /\ (FullPackets # <<>> => tick <= LastFullPacketTick + FullPacketSpacing)
        /\ Record(Command("DemFullPacket", tick, <<m>>, Now.tables), h)
  BY DEF RecordFullPacket
<1> DEFINE c == Command("DemFullPacket", tick, <<m>>, Now.tables)
<1>2. Now \in Games /\ IsFiniteSet(DOMAIN Now.entities)  BY NowFacts
<1>3. /\ live \in Seq(DOMAIN Now.entities) /\ DOMAIN live = 1..Len(live) /\ Len(live) \in Nat
      /\ \A i \in DOMAIN Now.entities : \E n \in DOMAIN live : live[n] = i
  <2> DEFINE S == DOMAIN Now.entities
  <2>1. IsFiniteSet(S) /\ live = SetToSeq(S)  BY <1>2
  <2> HIDE DEF S, live
  <2>2. /\ live \in Seq(S) /\ DOMAIN live = 1..Len(live) /\ Len(live) \in Nat
        /\ \A i \in S : \E n \in DOMAIN live : live[n] = i
    BY <2>1, LiveFacts
  <2> QED  BY <2>2 DEF S
<1>4. Now.entities \in Partial(Indexes, Entity)  BY <1>2 DEF Games
<1>5. DOMAIN Now.entities \subseteq Indexes /\ \A j \in DOMAIN Now.entities : Now.entities[j] \in Entity
  BY <1>4, PartialFacts
<1>6. ASSUME NEW n \in DOMAIN live PROVE live[n] \in DOMAIN Now.entities
  <2> HIDE DEF live
  <2> QED  BY <1>3, <1>6, ElementOfSeq
<1> HIDE DEF live
<1>7. creates \in Seq(Entries)
  <2>1. ASSUME NEW n \in DOMAIN live
        PROVE  [delta |-> "CREATE", index |-> live[n], base |-> Now.entities[live[n]].base,
                state |-> Now.entities[live[n]].state] \in Entries
    BY <1>5, <1>6 DEF Entries, Entity, Versions
  <2>2. creates \in [1..Len(live) -> Entries]  BY <1>3, <2>1
  <2> HIDE DEF creates
  <2> QED  BY <1>3, <2>2, SeqDef
<1>8. ev \in Seq(Events)
  <2>1. ASSUME NEW n \in DOMAIN live
        PROVE  [kind |-> "CREATE", index |-> live[n], entity |-> Now.entities[live[n]]] \in Events
    BY <1>5, <1>6 DEF Events
  <2>2. ev \in [1..Len(live) -> Events]  BY <1>3, <2>1
  <2> HIDE DEF ev
  <2> QED  BY <1>3, <2>2, SeqDef
<1>9. Restates(creates, Now.entities)  BY <1>3, <1>6 DEF Restates
<1> HIDE DEF creates, ev
<1>10. m \in EntityMessages /\ m \in Messages /\ m.entries = creates
  BY <1>7 DEF EntityMessages, Messages
<1>11. h \in Games /\ h.tables = Now.tables /\ h.entities = Now.entities
  BY <1>2, <1>8 DEF Games
<1>12. Now.tables \in Partial(Tables, Versions)
  <2>1. Now.tables \in [Tables -> Versions]  BY <1>2 DEF Games
  <2> QED  BY <2>1, PartialIs
<1> HIDE DEF m, h
<1>13. tick \in Ticks /\ <<m>> \in Seq(Messages)  BY <1>1, <1>10, NextTickFacts
<1>14. /\ c \in Commands /\ c.tick = tick /\ c.cmd = "DemFullPacket" /\ c.messages = <<m>>
       /\ c.tables = Now.tables
  BY <1>12, <1>13 DEF Commands, Command
<1>15. Record(c, h)  BY <1>1
<1> HIDE DEF c
<1>16. Change(Now, c, h)
  <2>1. c.messages[1] = m  BY <1>14
  <2> QED  BY <1>9, <1>10, <1>11, <1>14, <2>1 DEF Change
<1> QED  BY <1>1, <1>11, <1>14, <1>15, <1>16, RecordFacts

------------------------------------------------------------------------------
(* The loop over the commands.                                             *)

CommandLoop == INSTANCE LoopFacts WITH Body <- RunCommand

RunAll(s, ks) == FoldLeft(RunCommand, s, ks)

\* h holds the states of such a loop, turn by turn.
RunIs(h, s, ks, n) ==
  /\ h[0] = s /\ RunAll(s, ks) = h[n]
  /\ \A i \in 1..n : h[i] = RunCommand(h[i - 1], ks[i])

\* A run, turn by turn.
LEMMA RunTurns ==
  ASSUME NEW s, NEW ks, NEW n \in Nat, DOMAIN ks = 1..n
  PROVE  \E h : RunIs(h, s, ks, n)
<1>1. RunAll(s, ks) = CommandLoop!Loop(s, ks)
  BY DEF CommandLoop!Loop, CommandLoop!Iterates, CommandLoop!Last,
         RunAll, FoldLeft, MapThenFoldSet, Max
<1>2. \E h : CommandLoop!Turns(h, s, ks, n) /\ CommandLoop!Loop(s, ks) = h[n]
  BY CommandLoop!LoopTurns
<1> QED  BY <1>1, <1>2 DEF CommandLoop!Turns, RunIs

\* What a call starts its loop with.
Started(p, l) == [p |-> [p EXCEPT !.result = "ok"], flow |-> "Handle", l |-> l]

\* h[k] is the state of the loop behind command k.
LEMMA RunSeekable ==
  ASSUME Len(demo) \in Nat, NEW p, p.pos \in 0..Len(demo), NEW l
  PROVE  \E h : /\ h[p.pos] = Started(p, l) /\ run_seekable(p, l) = h[Len(demo)].p
                /\ \A k \in p.pos + 1..Len(demo) : h[k] = RunCommand(h[k - 1], k)
<1> DEFINE a == p.pos
           N == Len(demo) - a
           ks == [n \in 1..N |-> a + n]
<1>1. a \in Nat /\ N \in Nat /\ Len(demo) = a + N  OBVIOUS
<1>2. run_seekable(p, l) = RunAll(Started(p, l), ks).p
  BY DEF run_seekable, RunAll, Started, FoldLeft, MapThenFoldSet, Max
<1>3. DOMAIN ks = 1..N /\ \A n \in 1..N : ks[n] = a + n  OBVIOUS
<1> DEFINE s == Started(p, l)
<1> HIDE DEF a, N, ks, s
<1>0. N \in Nat /\ DOMAIN ks = 1..N  BY <1>1, <1>3
<1>4. PICK f : RunIs(f, s, ks, N)  BY <1>0, RunTurns
<1>4a. /\ f[0] = s /\ RunAll(s, ks) = f[N]
       /\ \A i \in 1..N : f[i] = RunCommand(f[i - 1], ks[i])
  BY <1>4 DEF RunIs
<1> DEFINE h == [k \in a..a + N |-> f[k - a]]
<1>5. h[a] = f[0] /\ h[a + N] = f[N]
  <2>1. a \in a..a + N /\ a + N \in a..a + N /\ a - a = 0 /\ a + N - a = N  BY <1>1
  <2> QED  BY <1>1, <2>1
<1>6. ASSUME NEW k \in a + 1..a + N PROVE h[k] = RunCommand(h[k - 1], k)
  <2>1. /\ k \in a..a + N /\ k - 1 \in a..a + N /\ k - a \in 1..N /\ a + (k - a) = k
        /\ k - 1 - a = k - a - 1
    BY <1>1
  <2>2. f[k - a] = RunCommand(f[k - a - 1], k)  BY <1>3, <1>4a, <2>1
  <2> QED  BY <2>1, <2>2
<1> HIDE DEF h
<1> QED  BY <1>1, <1>2, <1>4a, <1>5, <1>6 DEF a, s

\* Induction over the commands of a loop.
LEMMA UpInduction ==
  ASSUME NEW a \in Nat, NEW b \in Nat, NEW S, a \in S, \A k \in a + 1..b : k - 1 \in S => k \in S
  PROVE  \A k \in a..b : k \in S
<1> DEFINE T == {n \in Nat : a + n <= b => a + n \in S}
<1>1. 0 \in T  OBVIOUS
<1>2. ASSUME NEW n \in Nat, n \in T PROVE n + 1 \in T
  <2> SUFFICES ASSUME a + (n + 1) <= b PROVE a + (n + 1) \in S  OBVIOUS
  <2>1. a + (n + 1) \in a + 1..b /\ a + (n + 1) - 1 = a + n /\ a + n <= b  OBVIOUS
  <2>2. a + n \in S  BY <1>2, <2>1
  <2> QED  BY <2>1, <2>2
<1> HIDE DEF T
<1>3. \A n \in Nat : n \in T  BY <1>1, <1>2, NatSetInduction
<1> SUFFICES ASSUME NEW k \in a..b PROVE k \in S  OBVIOUS
<1>4. k - a \in Nat /\ a + (k - a) = k /\ k <= b  OBVIOUS
<1>5. k - a \in T  BY <1>3, <1>4
<1> QED  BY <1>4, <1>5 DEF T

------------------------------------------------------------------------------
(* The handlers of the calls.                                              *)

Flows == {"Handle", "Skip", "Ignore", "Break"}
EndLocals     == [run : {"run_to_end"}]
SeekLocals    == [run : {"run_to_tick"}, target_tick : Int, first_sync_tick : BOOLEAN,
                  last_full_packet : BOOLEAN]
SegmentLocals == [run : {"run_full_packet"}, ordinal : Nat, fp_seen : Nat, collecting : BOOLEAN]
LoopStates    == [p : Parsers, flow : Flows, l : EndLocals \cup SeekLocals \cup SegmentLocals]

\* A handler leaves the parser at the command that it was given.
Stays(p, q) ==
  /\ q \in Parsers /\ q.pos = p.pos /\ q.fails = p.fails
  /\ q.ctx.tick = p.ctx.tick /\ q.ctx.prev_tick = p.ctx.prev_tick

\* Every handler of a command stays at it, and so do two of them.
LEMMA StaysFacts ==
  ASSUME NEW p, NEW q
  PROVE  /\ Handles(p, q) => Stays(p, q)
         /\ p \in Parsers => Stays(p, p)
         /\ \A r : Stays(p, q) /\ Stays(q, r) => Stays(p, r)
BY DEF Handles, Same, Stays

\* The parser behind a full packet that a seek applies.
FullPacketApplied(p, c, with_packet) ==
  LET q == handle_cmd_full_packet(on_cmd(p), c, with_packet)
  IN IF q.result = "ok" THEN on_tick_end(q) ELSE q

\* Such a full packet keeps the types.
LEMMA FullPacketAppliedFacts ==
  ASSUME NEW p \in Parsers, p.result = "ok", NEW c \in Commands, NEW with_packet \in BOOLEAN,
         NEW q, q = FullPacketApplied(p, c, with_packet)
  PROVE  Handles(p, q)
<1> DEFINE r == on_cmd(p)
           s == handle_cmd_full_packet(r, c, with_packet)
<1>1. r \in Parsers /\ Same(p, r)  BY OnCmdFacts
<1>2. Handles(p, r)  BY <1>1 DEF Handles
<1>3. q = IF s.result = "ok" THEN on_tick_end(s) ELSE s  BY DEF FullPacketApplied
<1>4. Handles(r, s)
  <2> HIDE DEF r
  <2> QED  BY <1>1, FullPacketFacts
<1>5. Handles(p, s)
  <2> HIDE DEF r, s
  <2> QED  BY <1>2, <1>4, HandlesTransitive
<1> HIDE DEF s
<1>6. s \in Parsers  BY <1>5 DEF Handles
<1>7. s.result = "ok" => Handles(s, on_tick_end(s))
  <2>1. on_tick_end(s) \in Parsers /\ Same(s, on_tick_end(s))  BY <1>6, OnCmdFacts
  <2> QED  BY <2>1 DEF Handles
<1> QED  BY <1>3, <1>5, <1>7, HandlesTransitive

\* The state of a seek, changed.
LEMMA SeekStateIs ==
  ASSUME NEW p, NEW f, NEW t, NEW a, NEW b, NEW s,
         s = [p |-> p, flow |-> f,
              l |-> [run |-> "run_to_tick", target_tick |-> t, first_sync_tick |-> a,
                     last_full_packet |-> b]],
         NEW f2, NEW x, NEW p2
  PROVE  /\ [s EXCEPT !.flow = f2, !.l.first_sync_tick = x] =
              [p |-> p, flow |-> f2,
               l |-> [run |-> "run_to_tick", target_tick |-> t, first_sync_tick |-> x,
                      last_full_packet |-> b]]
         /\ [s EXCEPT !.flow = f2, !.l.last_full_packet = x, !.p = p2] =
              [p |-> p2, flow |-> f2,
               l |-> [run |-> "run_to_tick", target_tick |-> t, first_sync_tick |-> a,
                      last_full_packet |-> x]]
<1> DEFINE l  == [run |-> "run_to_tick", target_tick |-> t, first_sync_tick |-> a,
                  last_full_packet |-> b]
           l1 == [run |-> "run_to_tick", target_tick |-> t, first_sync_tick |-> x,
                  last_full_packet |-> b]
           l2 == [run |-> "run_to_tick", target_tick |-> t, first_sync_tick |-> a,
                  last_full_packet |-> x]
<1>1. [l EXCEPT !.first_sync_tick = x] = l1  OBVIOUS
<1>2. [l EXCEPT !.last_full_packet = x] = l2  OBVIOUS
<1>3. s = [p |-> p, flow |-> f, l |-> l]  OBVIOUS
<1> HIDE DEF l, l1, l2
<1> DEFINE u == [s EXCEPT !.flow = f2]
           v == [u EXCEPT !.l.last_full_packet = x]
<1>4. u = [p |-> p, flow |-> f2, l |-> l]  BY <1>3
<1>5. /\ [s EXCEPT !.flow = f2, !.l.first_sync_tick = x] = [u EXCEPT !.l.first_sync_tick = x]
      /\ [s EXCEPT !.flow = f2, !.l.last_full_packet = x, !.p = p2] = [v EXCEPT !.p = p2]
  OBVIOUS
<1> HIDE DEF u
<1>6. [u EXCEPT !.l.first_sync_tick = x] = [p |-> p, flow |-> f2, l |-> l1]  BY <1>1, <1>4
<1>7. v = [p |-> p, flow |-> f2, l |-> l2]  BY <1>2, <1>4
<1> HIDE DEF v
<1>8. [v EXCEPT !.p = p2] = [p |-> p2, flow |-> f2, l |-> l2]  BY <1>7
<1> QED  BY <1>5, <1>6, <1>8 DEF l1, l2

\* The handler of run_to_tick, case by case.
LEMMA SeekHandlerFacts ==
  ASSUME NEW s \in LoopStates, s.l \in SeekLocals, NEW c \in Commands, s.p.result = "ok",
         NEW h, h = SeekHandler(s, c)
  PROVE  /\ h \in LoopStates /\ h.l \in SeekLocals /\ h.l.target_tick = s.l.target_tick
         /\ Stays(s.p, h.p)
         /\ c.tick > s.l.target_tick => h.p = s.p /\ h.flow = "Break" /\ h.l = s.l
         /\ c.tick <= s.l.target_tick /\ ~s.l.first_sync_tick =>
              /\ h.p = s.p /\ h.flow = "Handle" /\ h.l.last_full_packet = s.l.last_full_packet
              /\ h.l.first_sync_tick <=> c.cmd = "DemSyncTick"
         /\ c.tick <= s.l.target_tick /\ s.l.first_sync_tick /\ c.cmd # "DemFullPacket" =>
              /\ h.p = s.p /\ h.l = s.l
              /\ h.flow = IF s.l.last_full_packet THEN "Handle" ELSE "Skip"
         /\ c.tick <= s.l.target_tick /\ s.l.first_sync_tick /\ c.cmd = "DemFullPacket" =>
              /\ h.flow = "Ignore" /\ h.l.first_sync_tick
              /\ h.l.last_full_packet <=> ~HasFullPacketAhead(s.p, s.l.target_tick)
              /\ h.p = FullPacketApplied(s.p, c, ~HasFullPacketAhead(s.p, s.l.target_tick))
<1>1. /\ s = [p |-> s.p, flow |-> s.flow, l |-> s.l] /\ s.p \in Parsers /\ s.flow \in Flows
      /\ s.l = [run |-> "run_to_tick", target_tick |-> s.l.target_tick,
                first_sync_tick |-> s.l.first_sync_tick, last_full_packet |-> s.l.last_full_packet]
      /\ s.l.target_tick \in Int /\ s.l.first_sync_tick \in BOOLEAN /\ s.l.last_full_packet \in BOOLEAN
      /\ c.tick \in Int
  BY DemoAssumption DEF LoopStates, SeekLocals, Commands, Ticks
<1>2. CASE c.tick > s.l.target_tick
  <2>1. h = [p |-> s.p, flow |-> "Break", l |-> s.l]  BY <1>1, <1>2 DEF SeekHandler
  <2> QED  BY <1>1, <1>2, <2>1, StaysFacts DEF LoopStates, Flows
<1>3. CASE c.tick <= s.l.target_tick /\ ~s.l.first_sync_tick
  <2> DEFINE b == c.cmd = "DemSyncTick"
             l == [run |-> "run_to_tick", target_tick |-> s.l.target_tick,
                   first_sync_tick |-> b, last_full_packet |-> s.l.last_full_packet]
  <2>1. h = Initialize(s, c)  BY <1>1, <1>3 DEF SeekHandler
  <2>2. h = [p |-> s.p, flow |-> "Handle", l |-> l]
    <3>1. h = [s EXCEPT !.flow = "Handle", !.l.first_sync_tick = b]  BY <2>1 DEF Initialize
    <3> DEFINE y == s.p
               t == s.l.target_tick
               a == s.l.first_sync_tick
               z == s.l.last_full_packet
               g == s.flow
               k == "Handle"
    <3>2. s = [p |-> y, flow |-> g,
               l |-> [run |-> "run_to_tick", target_tick |-> t, first_sync_tick |-> a,
                      last_full_packet |-> z]]
      BY <1>1
    <3>3. h = [s EXCEPT !.flow = k, !.l.first_sync_tick = b]  BY <3>1
    <3> HIDE DEF b, y, t, a, z, g, k
    <3>4. h = [p |-> y, flow |-> k,
               l |-> [run |-> "run_to_tick", target_tick |-> t, first_sync_tick |-> b,
                      last_full_packet |-> z]]
      BY <3>2, <3>3, SeekStateIs
    <3> QED  BY <3>4 DEF y, t, a, z, g, k
  <2>3. b \in BOOLEAN  OBVIOUS
  <2>4. l \in SeekLocals
    <3> HIDE DEF b
    <3> QED  BY <1>1, <2>3 DEF SeekLocals
  <2>5. l.target_tick = s.l.target_tick /\ l.last_full_packet = s.l.last_full_packet
        /\ (l.first_sync_tick <=> c.cmd = "DemSyncTick")
    OBVIOUS
  <2> HIDE DEF l
  <2>6. h.p = s.p /\ h.flow = "Handle" /\ h.l = l /\ h \in LoopStates
    BY <1>1, <2>2, <2>4 DEF LoopStates, Flows
  <2> QED  BY <1>1, <1>3, <2>4, <2>5, <2>6, StaysFacts
<1>4. CASE c.tick <= s.l.target_tick /\ s.l.first_sync_tick /\ c.cmd # "DemFullPacket"
  <2> DEFINE f == IF s.l.last_full_packet THEN "Handle" ELSE "Skip"
  <2>1. h = [s EXCEPT !.flow = f]  BY <1>1, <1>4 DEF SeekHandler
  <2>2. f \in Flows  BY DEF Flows
  <2> HIDE DEF f
  <2>3. h.p = s.p /\ h.flow = f /\ h.l = s.l /\ h \in LoopStates  BY <1>1, <2>1, <2>2 DEF LoopStates
  <2> QED  BY <1>1, <1>4, <2>3, StaysFacts DEF f
<1>5. CASE c.tick <= s.l.target_tick /\ s.l.first_sync_tick /\ c.cmd = "DemFullPacket"
  <2> DEFINE b == ~HasFullPacketAhead(s.p, s.l.target_tick)
             p == FullPacketApplied(s.p, c, b)
             l == [run |-> "run_to_tick", target_tick |-> s.l.target_tick,
                   first_sync_tick |-> s.l.first_sync_tick, last_full_packet |-> b]
  <2>1. h = ApplyFullPacket(s, c)  BY <1>1, <1>5 DEF SeekHandler
  <2>2. h = [p |-> p, flow |-> "Ignore", l |-> l]
    <3>1. HasFullPacketAhead(s.p, s.l.target_tick) \in BOOLEAN  BY DEF HasFullPacketAhead
    <3>2. h = [s EXCEPT !.flow = "Ignore", !.l.last_full_packet = b, !.p = p]
      BY <2>1, <3>1 DEF ApplyFullPacket, FullPacketApplied
    <3> DEFINE y == s.p
               t == s.l.target_tick
               a == s.l.first_sync_tick
               z == s.l.last_full_packet
               g == s.flow
               k == "Ignore"
    <3>3. s = [p |-> y, flow |-> g,
               l |-> [run |-> "run_to_tick", target_tick |-> t, first_sync_tick |-> a,
                      last_full_packet |-> z]]
      BY <1>1
    <3>4. h = [s EXCEPT !.flow = k, !.l.last_full_packet = b, !.p = p]  BY <3>2
    <3> HIDE DEF b, p, y, t, a, z, g, k
    <3>5. h = [p |-> p, flow |-> k,
               l |-> [run |-> "run_to_tick", target_tick |-> t, first_sync_tick |-> a,
                      last_full_packet |-> b]]
      BY ZenonT(60), <3>3, <3>4, SeekStateIs
    <3> QED  BY <3>5 DEF y, t, a, z, g, k
  <2>3. b \in BOOLEAN  BY DEF HasFullPacketAhead
  <2>4. l \in SeekLocals
    <3> HIDE DEF b
    <3> QED  BY <1>1, <2>3 DEF SeekLocals
  <2>5. Handles(s.p, p)
    <3> HIDE DEF b
    <3> QED  BY <1>1, <2>3, FullPacketAppliedFacts
  <2>6. l.target_tick = s.l.target_tick /\ l.last_full_packet = b /\ l.first_sync_tick = s.l.first_sync_tick
    <3> HIDE DEF b
    <3> QED  OBVIOUS
  <2>7. p \in Parsers /\ Stays(s.p, p)  BY <2>5, StaysFacts DEF Stays
  <2> HIDE DEF l, p
  <2>8. h.p = p /\ h.flow = "Ignore" /\ h.l = l /\ h \in LoopStates
    BY <1>1, <2>2, <2>4, <2>7 DEF LoopStates, Flows
  <2>9. h.p = FullPacketApplied(s.p, c, ~HasFullPacketAhead(s.p, s.l.target_tick))  BY <2>8 DEF p
  <2>10. h.l.last_full_packet <=> ~HasFullPacketAhead(s.p, s.l.target_tick)  BY <2>6, <2>8
  <2>11. h.l.first_sync_tick /\ h.l.target_tick = s.l.target_tick  BY <1>5, <2>6, <2>8
  <2>12. Stays(s.p, h.p) /\ h \in LoopStates /\ h.l \in SeekLocals /\ h.flow = "Ignore"
    BY <2>4, <2>7, <2>8
  <2>13. ~ (c.tick > s.l.target_tick)  BY <1>1, <1>5
  <2> HIDE DEF b
  <2> QED  BY <1>5, <2>9, <2>10, <2>11, <2>12, <2>13
<1> QED  BY <1>1, <1>2, <1>3, <1>4, <1>5

\* The state of a segment, changed.
LEMMA SegmentSeenIs ==
  ASSUME NEW p, NEW f, NEW o, NEW n, NEW b, NEW s,
         s = [p |-> p, flow |-> f,
              l |-> [run |-> "run_full_packet", ordinal |-> o, fp_seen |-> n, collecting |-> b]],
         NEW x
  PROVE  [s EXCEPT !.l.fp_seen = x] =
           [p |-> p, flow |-> f,
            l |-> [run |-> "run_full_packet", ordinal |-> o, fp_seen |-> x, collecting |-> b]]
<1> DEFINE l  == [run |-> "run_full_packet", ordinal |-> o, fp_seen |-> n, collecting |-> b]
           l1 == [run |-> "run_full_packet", ordinal |-> o, fp_seen |-> x, collecting |-> b]
<1>1. [l EXCEPT !.fp_seen = x] = l1  OBVIOUS
<1>2. s = [p |-> p, flow |-> f, l |-> l]  OBVIOUS
<1> HIDE DEF l, l1
<1>3. [s EXCEPT !.l.fp_seen = x] = [p |-> p, flow |-> f, l |-> l1]  BY <1>1, <1>2
<1> QED  BY <1>3 DEF l1

\* The flow, changed.
LEMMA SegmentFlowIs ==
  ASSUME NEW p, NEW f, NEW l, NEW s, s = [p |-> p, flow |-> f, l |-> l], NEW f2
  PROVE  [s EXCEPT !.flow = f2] = [p |-> p, flow |-> f2, l |-> l]
OBVIOUS

CollectedAs(p, x, y) == [[p EXCEPT !.collecting = x] EXCEPT !.skip_entity_packets = y]
Collects(s, f, x, y) ==
  [s EXCEPT !.flow = f, !.l.collecting = x, !.p.collecting = x, !.p.skip_entity_packets = y]

\* The state of a segment whose output is collected from here on.
LEMMA SegmentCollectsIs ==
  ASSUME NEW p, NEW f, NEW o, NEW n, NEW b, NEW s,
         s = [p |-> p, flow |-> f,
              l |-> [run |-> "run_full_packet", ordinal |-> o, fp_seen |-> n, collecting |-> b]],
         NEW f2, NEW x, NEW y
  PROVE  Collects(s, f2, x, y) =
           [p |-> CollectedAs(p, x, y), flow |-> f2,
            l |-> [run |-> "run_full_packet", ordinal |-> o, fp_seen |-> n, collecting |-> x]]
<1> DEFINE l  == [run |-> "run_full_packet", ordinal |-> o, fp_seen |-> n, collecting |-> b]
           l2 == [run |-> "run_full_packet", ordinal |-> o, fp_seen |-> n, collecting |-> x]
           p1 == [p EXCEPT !.collecting = x]
           p2 == [p1 EXCEPT !.skip_entity_packets = y]
           u == [s EXCEPT !.flow = f2]
           v == [u EXCEPT !.l.collecting = x]
           w == [v EXCEPT !.p.collecting = x]
           z == [w EXCEPT !.p.skip_entity_packets = y]
<1>1. [l EXCEPT !.collecting = x] = l2  OBVIOUS
<1>2. s = [p |-> p, flow |-> f, l |-> l]  OBVIOUS
<1>3. Collects(s, f2, x, y) = z  BY DEF Collects
<1>0. CollectedAs(p, x, y) = p2  BY DEF CollectedAs
<1>4. p1 = [p EXCEPT !.collecting = x] /\ p2 = [p1 EXCEPT !.skip_entity_packets = y]  OBVIOUS
<1> HIDE DEF l, l2, p1, p2
<1>5. u = [p |-> p, flow |-> f2, l |-> l]  BY <1>2
<1> HIDE DEF u
<1>6. v = [p |-> p, flow |-> f2, l |-> l2]  BY <1>1, <1>5
<1> HIDE DEF v
<1>7. w = [p |-> p1, flow |-> f2, l |-> l2]  BY <1>4, <1>6
<1> HIDE DEF w
<1>8. z = [p |-> p2, flow |-> f2, l |-> l2]  BY <1>4, <1>7
<1> HIDE DEF z
<1> QED  BY <1>0, <1>3, <1>8 DEF l2

\* The parser of which the output is collected.
Collected(p) == CollectedAs(p, TRUE, FALSE)

\* Only the two flags change.
LEMMA CollectedFacts ==
  ASSUME NEW p \in Parsers, NEW q, q = Collected(p)
  PROVE  /\ q \in Parsers /\ Stays(p, q) /\ q.ctx = p.ctx /\ q.result = p.result
         /\ q.collecting /\ ~q.skip_entity_packets
BY DEF Collected, CollectedAs, Parsers, Stays

\* What the handler of run_full_packet makes of a command, case by case.
SegmentStep(s, c, h) ==
  /\ h \in LoopStates /\ h.l \in SegmentLocals /\ h.l.ordinal = s.l.ordinal
  /\ Stays(s.p, h.p) /\ h.p.ctx = s.p.ctx /\ h.p.result = s.p.result
  /\ c.cmd = "DemFullPacket" => h.l.fp_seen = s.l.fp_seen + 1
  /\ c.cmd = "DemFullPacket" /\ s.l.fp_seen < s.l.ordinal =>
       h.p = s.p /\ h.flow = "Skip" /\ h.l.collecting = s.l.collecting
  /\ c.cmd = "DemFullPacket" /\ s.l.fp_seen = s.l.ordinal =>
       h.p = Collected(s.p) /\ h.flow = "Handle" /\ h.l.collecting
  /\ c.cmd = "DemFullPacket" /\ s.l.fp_seen > s.l.ordinal =>
       h.p = s.p /\ h.flow = "Break" /\ h.l.collecting = s.l.collecting
  /\ c.cmd # "DemFullPacket" =>
       /\ h.p = s.p /\ h.l = s.l
       /\ h.flow = IF s.l.collecting \/ c.cmd \in {"DemSendTables", "DemClassInfo", "DemSignonPacket"}
                   THEN "Handle" ELSE "Skip"

LEMMA SegmentHandlerFacts ==
  ASSUME NEW s \in LoopStates, s.l \in SegmentLocals, NEW c, NEW h, h = SegmentHandler(s, c)
  PROVE  SegmentStep(s, c, h)
<1> DEFINE p == s.p
           f == s.flow
           o == s.l.ordinal
           n == s.l.fp_seen
           b == s.l.collecting
           m == n + 1
           L(x, y) == [run |-> "run_full_packet", ordinal |-> o, fp_seen |-> x, collecting |-> y]
<1>1. /\ s = [p |-> p, flow |-> f, l |-> L(n, b)] /\ p \in Parsers /\ f \in Flows
      /\ o \in Nat /\ n \in Nat /\ b \in BOOLEAN /\ m \in Nat /\ s.l = L(n, b)
  BY DEF LoopStates, SegmentLocals
<1>2. ASSUME NEW q \in Parsers, NEW g \in Flows, NEW x \in Nat, NEW y \in BOOLEAN,
             NEW t, t = [p |-> q, flow |-> g, l |-> L(x, y)]
      PROVE  /\ t \in LoopStates /\ t.l \in SegmentLocals /\ t.l.ordinal = o /\ t.l.fp_seen = x
             /\ t.l.collecting = y /\ t.p = q /\ t.flow = g /\ t.l = L(x, y)
  <2>1. o \in Nat  BY <1>1
  <2> HIDE DEF o
  <2>2. L(x, y) \in SegmentLocals  BY <1>2, <2>1 DEF SegmentLocals
  <2>3. L(x, y).ordinal = o /\ L(x, y).fp_seen = x /\ L(x, y).collecting = y  OBVIOUS
  <2> HIDE DEF L
  <2> QED  BY <1>2, <2>2, <2>3 DEF LoopStates
<1>3. Stays(p, p) /\ Collected(p) \in Parsers /\ Stays(p, Collected(p))
      /\ Collected(p).ctx = p.ctx /\ Collected(p).result = p.result
  BY <1>1, CollectedFacts, StaysFacts
<1>4. CASE c.cmd # "DemFullPacket"
  <2> DEFINE g == IF b \/ c.cmd \in {"DemSendTables", "DemClassInfo", "DemSignonPacket"}
                  THEN "Handle" ELSE "Skip"
  <2>1. h = [s EXCEPT !.flow = g]  BY <1>4, <1>1 DEF SegmentHandler
  <2>2. g \in Flows  BY DEF Flows
  <2> HIDE DEF g, p, f, o, n, b
  <2>3. h = [p |-> p, flow |-> g, l |-> L(n, b)]  BY <1>1, <2>1, SegmentFlowIs
  <2>4. h \in LoopStates /\ h.l \in SegmentLocals /\ h.p = p /\ h.flow = g /\ h.l = L(n, b)
        /\ h.l.ordinal = o
    BY <1>1, <1>2, <2>2, <2>3
  <2>5. h.l = s.l /\ h.p = s.p /\ h.l.ordinal = s.l.ordinal  BY <1>1, <2>4 DEF p, o
  <2> QED  BY <1>3, <1>4, <2>4, <2>5 DEF g, p, b, SegmentStep
<1>5. CASE c.cmd = "DemFullPacket"
  <2> DEFINE t == [s EXCEPT !.l.fp_seen = m]
             kh == "Handle"
             ks == "Skip"
             kb == "Break"
  <2>1. h = AtFullPacket(s)  BY <1>5 DEF SegmentHandler
  <2>2. /\ n < o => h = [t EXCEPT !.flow = ks]
        /\ n = o => h = [t EXCEPT !.flow = kh, !.l.collecting = TRUE, !.p.collecting = TRUE,
                                  !.p.skip_entity_packets = FALSE]
        /\ n > o => h = [t EXCEPT !.flow = kb]
    BY <1>1, <2>1 DEF AtFullPacket
  <2>3. t = [p |-> p, flow |-> f, l |-> L(m, b)]
    <3> HIDE DEF p, f, o, n, b, m
    <3> QED  BY <1>1, SegmentSeenIs
  <2> HIDE DEF t
  <2>4. ks \in Flows /\ kh \in Flows /\ kb \in Flows  BY DEF Flows
  <2> HIDE DEF p, f, o, n, b, m, kh, ks, kb
  <2>5. n < o \/ n = o \/ n > o  BY <1>1
  <2>6. CASE n < o
    <3>1. h = [p |-> p, flow |-> ks, l |-> L(m, b)]  BY <2>2, <2>3, <2>6, SegmentFlowIs
    <3>2. /\ h \in LoopStates /\ h.l \in SegmentLocals /\ h.l.ordinal = o /\ h.l.fp_seen = m
          /\ h.l.collecting = b /\ h.p = p /\ h.flow = ks
      BY <1>1, <1>2, <2>4, <3>1
    <3> QED  BY <1>1, <1>3, <1>5, <2>6, <3>2 DEF p, f, o, n, b, m, ks, SegmentStep
  <2>7. CASE n = o
    <3> DEFINE y == TRUE
               z == FALSE
    <3>0. y \in BOOLEAN /\ Collected(p) = CollectedAs(p, y, z) /\ h = Collects(t, kh, y, z)
      BY <2>2, <2>7 DEF Collected, Collects
    <3> HIDE DEF y, z
    <3>1. h = [p |-> Collected(p), flow |-> kh, l |-> L(m, y)]  BY <2>3, <3>0, SegmentCollectsIs
    <3>2. /\ h \in LoopStates /\ h.l \in SegmentLocals /\ h.l.ordinal = o /\ h.l.fp_seen = m
          /\ h.l.collecting = y /\ h.p = Collected(p) /\ h.flow = kh
      BY <1>1, <1>2, <1>3, <2>4, <3>0, <3>1
    <3>3. h.l.collecting = TRUE  BY <3>2 DEF y
    <3> QED  BY <1>1, <1>3, <1>5, <2>7, <3>2, <3>3 DEF p, f, o, n, b, m, kh, SegmentStep
  <2>8. CASE n > o
    <3>1. h = [p |-> p, flow |-> kb, l |-> L(m, b)]  BY <2>2, <2>3, <2>8, SegmentFlowIs
    <3>2. /\ h \in LoopStates /\ h.l \in SegmentLocals /\ h.l.ordinal = o /\ h.l.fp_seen = m
          /\ h.l.collecting = b /\ h.p = p /\ h.flow = kb
      BY <1>1, <1>2, <2>4, <3>1
    <3> QED  BY <1>1, <1>3, <1>5, <2>8, <3>2 DEF p, f, o, n, b, m, kb, SegmentStep
  <2> QED  BY <2>5, <2>6, <2>7, <2>8
<1> QED  BY <1>4, <1>5

\* Any of the three handlers.
LEMMA HandlerFacts ==
  ASSUME NEW s \in LoopStates, NEW c \in Commands, s.p.result = "ok", NEW h, h = Handler(s, c)
  PROVE  /\ h \in LoopStates /\ Stays(s.p, h.p)
         /\ h.flow = "Handle" => h.p.result = "ok"
<1>1. s.l \in EndLocals \cup SeekLocals \cup SegmentLocals /\ s.p \in Parsers  BY DEF LoopStates
<1>2. CASE s.l \in SeekLocals
  <2>1. h = SeekHandler(s, c)  BY <1>2 DEF Handler, SeekLocals
  <2>2. h \in LoopStates /\ Stays(s.p, h.p)  BY <1>2, <2>1, SeekHandlerFacts
  <2>3. c.tick \in Int /\ s.l.target_tick \in Int /\ s.l.first_sync_tick \in BOOLEAN
    BY <1>2, DemoAssumption DEF Commands, Ticks, SeekLocals
  <2>4. CASE c.tick > s.l.target_tick  BY <1>2, <2>1, <2>2, <2>4, SeekHandlerFacts
  <2>5. CASE c.tick <= s.l.target_tick /\ ~s.l.first_sync_tick
    <3>1. h.p = s.p  BY <1>2, <2>1, <2>5, SeekHandlerFacts
    <3> QED  BY <2>2, <3>1
  <2>6. CASE c.tick <= s.l.target_tick /\ s.l.first_sync_tick /\ c.cmd # "DemFullPacket"
    <3>1. h.p = s.p  BY <1>2, <2>1, <2>6, SeekHandlerFacts
    <3> QED  BY <2>2, <3>1
  <2>7. CASE c.tick <= s.l.target_tick /\ s.l.first_sync_tick /\ c.cmd = "DemFullPacket"
    <3>1. h.flow = "Ignore"  BY <1>2, <2>1, <2>7, SeekHandlerFacts
    <3> QED  BY <2>2, <3>1
  <2> QED  BY <2>3, <2>4, <2>5, <2>6, <2>7
<1>3. CASE s.l \in SegmentLocals
  <2>1. h = SegmentHandler(s, c)  BY <1>3 DEF Handler, SegmentLocals
  <2> QED  BY <1>3, <2>1, SegmentHandlerFacts DEF SegmentStep
<1>4. CASE s.l \in EndLocals
  <2>1. h = [s EXCEPT !.flow = "Handle"]  BY <1>4 DEF Handler, EndLocals
  <2>2. h \in LoopStates /\ h.p = s.p  BY <2>1 DEF LoopStates, Flows
  <2> QED  BY <1>1, <2>2, StaysFacts
<1> QED  BY <1>1, <1>2, <1>3, <1>4

\* A recorded command has its type.
LEMMA CommandFacts ==
  ASSUME RecordingInv, NEW k \in 1..Len(demo)
  PROVE  demo[k] \in Commands /\ demo[k].tick \in Ticks /\ demo[k].tick \in Int
<1>1. demo[k] \in Commands  BY ElementOfSeq DEF RecordingInv, Recorded
<1> QED  BY <1>1, DemoAssumption DEF Commands, Ticks

\* The context when the header of a command at a tick was read, and was unread again.
HeaderRead(c, tick) == [c EXCEPT !.prev_tick = c.tick, !.tick = tick]
HeaderUnread(c)     == [c EXCEPT !.tick = c.prev_tick]

\* read_cmd_header and the ticks that run keeps.
LEMMA ReadHeaderFacts ==
  ASSUME RecordingInv, NEW p \in Parsers, NEW k \in 1..Len(demo), NEW q, q = ReadHeader(p, k)
  PROVE  /\ q \in Parsers /\ q.pos = k /\ q.fails = p.fails /\ q.result = p.result
         /\ q.ctx.tick = demo[k].tick /\ q.ctx.prev_tick = p.ctx.tick
         /\ q.skip_entity_packets = p.skip_entity_packets /\ q.collecting = p.collecting
         /\ q.ctx = HeaderRead(p.ctx, demo[k].tick)
<1> DEFINE x == demo[k].tick
           y == p.ctx.tick
           c == [p.ctx EXCEPT !.prev_tick = y, !.tick = x]
           r == [p EXCEPT !.pos = k]
           s == [r EXCEPT !.ctx.prev_tick = y]
<1>1. p.ctx \in Contexts /\ y \in Ticks /\ x \in Ticks /\ k \in Nat
  BY CommandFacts DEF Parsers, Contexts
<1>2. q = [s EXCEPT !.ctx.tick = x]  BY DEF ReadHeader
<1> HIDE DEF x, y
<1>3. r \in Parsers /\ r = [p EXCEPT !.pos = k]  BY <1>1 DEF Parsers
<1> HIDE DEF r
<1>4. s \in Parsers /\ s.ctx = [p.ctx EXCEPT !.prev_tick = y] /\ s.pos = k /\ s.fails = p.fails
      /\ s.result = p.result /\ s.skip_entity_packets = p.skip_entity_packets
      /\ s.collecting = p.collecting
  BY <1>1, <1>3 DEF Parsers, Contexts
<1> HIDE DEF s
<1>5. c \in Contexts /\ c.tick = x /\ c.prev_tick = y  BY <1>1 DEF Contexts
<1>6. q.ctx = c /\ q = [s EXCEPT !.ctx = c]
  BY <1>1, <1>2, <1>4 DEF Parsers, Contexts
<1> HIDE DEF c
<1>7. q \in Parsers /\ q.pos = k /\ q.fails = p.fails /\ q.result = p.result /\ q.ctx = c
      /\ q.skip_entity_packets = p.skip_entity_packets /\ q.collecting = p.collecting
  BY <1>4, <1>5, <1>6 DEF Parsers
<1> QED  BY <1>5, <1>7 DEF x, y, c, HeaderRead

\* unread_cmd_header: only the position and the tick go back.
LEMMA UnreadHeaderFacts ==
  ASSUME NEW p \in Parsers, p.pos >= 1, NEW q, q = UnreadHeader(p)
  PROVE  /\ q \in Parsers /\ q.pos = p.pos - 1 /\ q.fails = p.fails /\ q.result = p.result
         /\ q.skip_entity_packets = p.skip_entity_packets /\ q.collecting = p.collecting
         /\ q.ctx = HeaderUnread(p.ctx)
<1> DEFINE n == p.pos - 1
           y == p.ctx.prev_tick
           c == [p.ctx EXCEPT !.tick = y]
           r == [p EXCEPT !.pos = n]
<1>1. p.ctx \in Contexts /\ y \in Ticks /\ n \in Nat  BY DEF Parsers, Contexts
<1>2. q = [r EXCEPT !.ctx.tick = y]  BY DEF UnreadHeader
<1> HIDE DEF n, y
<1>3. r \in Parsers /\ r.ctx = p.ctx /\ r.pos = n /\ r.fails = p.fails /\ r.result = p.result
      /\ r.skip_entity_packets = p.skip_entity_packets /\ r.collecting = p.collecting
  BY <1>1 DEF Parsers
<1> HIDE DEF r
<1>4. c \in Contexts  BY <1>1 DEF Contexts
<1>5. q = [r EXCEPT !.ctx = c]  BY <1>2, <1>3 DEF Parsers
<1> HIDE DEF c
<1>6. q \in Parsers /\ q.ctx = c /\ q.pos = n /\ q.fails = p.fails /\ q.result = p.result
      /\ q.skip_entity_packets = p.skip_entity_packets /\ q.collecting = p.collecting
  BY <1>3, <1>4, <1>5 DEF Parsers
<1> QED  BY <1>6 DEF n, y, c, HeaderUnread

\* One turn of a run: the command is read and handled, or left alone.
LEMMA RunCommandFacts ==
  ASSUME RecordingInv, NEW s \in LoopStates, NEW k \in 1..Len(demo), NEW t, t = RunCommand(s, k)
  PROVE  /\ t \in LoopStates /\ t.p.fails = s.p.fails
         /\ t.p.pos = s.p.pos \/ t.p.pos \in {k - 1, k}
<1>1. s.p \in Parsers  BY DEF LoopStates
<1>2. CASE s.flow = "Break" \/ s.p.result = "error"  BY <1>2 DEF RunCommand
<1>3. CASE s.flow # "Break" /\ s.p.result = "ok"
  <2> DEFINE r == ReadHeader(s.p, k)
             u == [s EXCEPT !.p = r]
             h == Handler(u, demo[k])
             p2 == IF h.flow = "Break" THEN UnreadHeader(h.p) ELSE dispatch(h.flow, h.p, demo[k])
  <2>0. r = ReadHeader(s.p, k)  OBVIOUS
  <2> HIDE DEF r
  <2>1. r \in Parsers /\ r.pos = k /\ r.fails = s.p.fails /\ r.result = "ok"
    <3> DEFINE x == s.p
    <3>1. x \in Parsers /\ r = ReadHeader(x, k) /\ x.result = "ok"  BY <1>1, <1>3, <2>0
    <3> HIDE DEF x
    <3>2. r \in Parsers /\ r.pos = k /\ r.fails = x.fails /\ r.result = x.result
      BY <3>1, ReadHeaderFacts
    <3> QED  BY <3>1, <3>2 DEF x
  <2>2. u \in LoopStates /\ u.p = r  BY <2>1 DEF LoopStates
  <2>3. demo[k] \in Commands  BY CommandFacts
  <2>4. t = [h EXCEPT !.p = p2]  BY <1>3 DEF RunCommand, r
  <2> HIDE DEF u
  <2>5. h \in LoopStates /\ Stays(r, h.p) /\ (h.flow = "Handle" => h.p.result = "ok")
    BY <2>1, <2>2, <2>3, HandlerFacts
  <2> HIDE DEF h
  <2>6. h.p \in Parsers /\ h.p.pos = k /\ h.p.fails = s.p.fails  BY <2>1, <2>5 DEF Stays
  <2>7. p2 \in Parsers /\ p2.fails = s.p.fails /\ p2.pos \in {k - 1, k}
    <3>1. CASE h.flow = "Break"
      <4> DEFINE x == h.p
      <4>1. x \in Parsers /\ x.pos = k /\ x.fails = s.p.fails /\ p2 = UnreadHeader(x)  BY <2>6, <3>1
      <4> HIDE DEF x, p2
      <4>2. k >= 1 /\ k \in Int  BY DemoAssumption DEF RecordingInv, Recorded
      <4>3. p2 \in Parsers /\ p2.pos = x.pos - 1 /\ p2.fails = x.fails  BY <4>1, <4>2, UnreadHeaderFacts
      <4> QED  BY <4>1, <4>3
    <3>2. CASE h.flow = "Handle"
      <4>1. p2 = dispatch(h.flow, h.p, demo[k])  BY <3>2
      <4>2. Handles(h.p, p2)  BY <2>3, <2>5, <2>6, <3>2, <4>1, DispatchFacts
      <4> QED  BY <2>6, <4>2 DEF Handles, Same
    <3>3. CASE h.flow # "Handle" /\ h.flow # "Break"
      <4>1. p2 = h.p  BY <3>3 DEF dispatch
      <4> QED  BY <2>6, <4>1
    <3> QED  BY <3>1, <3>2, <3>3
  <2> HIDE DEF p2
  <2>8. t \in LoopStates /\ t.p = p2  BY <2>4, <2>5, <2>7 DEF LoopStates
  <2> QED  BY <2>7, <2>8
<1> QED  BY <1>1, <1>2, <1>3 DEF Parsers

Restarted(p) == [p EXCEPT !.result = "ok"]

\* A run starts where the parser is, whatever the last call came to.
LEMMA StartedFacts ==
  ASSUME NEW p \in Parsers, NEW l \in EndLocals \cup SeekLocals \cup SegmentLocals,
         NEW s, s = Started(p, l)
  PROVE  /\ s \in LoopStates /\ s.p = Restarted(p) /\ s.flow = "Handle" /\ s.l = l
         /\ s.p.pos = p.pos /\ s.p.fails = p.fails /\ s.p.ctx = p.ctx /\ s.p.result = "ok"
         /\ s.p.skip_entity_packets = p.skip_entity_packets /\ s.p.collecting = p.collecting
<1> DEFINE r == Restarted(p)
<1>1. /\ r \in Parsers /\ r.pos = p.pos /\ r.fails = p.fails /\ r.ctx = p.ctx /\ r.result = "ok"
      /\ r.skip_entity_packets = p.skip_entity_packets /\ r.collecting = p.collecting
  BY DEF Parsers, Restarted
<1>2. s = [p |-> r, flow |-> "Handle", l |-> l]  BY DEF Started, Restarted
<1> HIDE DEF r
<1>3. s \in LoopStates /\ s.p = r /\ s.flow = "Handle" /\ s.l = l  BY <1>1, <1>2 DEF LoopStates, Flows
<1> QED  BY <1>1, <1>3 DEF r

\* A run keeps the types, and stays within the recording.
LEMMA RunFacts ==
  ASSUME RecordingInv, NEW p \in Parsers, p.pos \in 0..Len(demo),
         NEW l \in EndLocals \cup SeekLocals \cup SegmentLocals, NEW q, q = run_seekable(p, l)
  PROVE  q \in Parsers /\ q.fails = p.fails /\ q.pos \in 0..Len(demo)
<1> DEFINE N == Len(demo)
           a == p.pos
<1>1. N \in Nat /\ a \in Nat /\ a <= N  BY DemoAssumption DEF RecordingInv, Recorded
<1>2. PICK h : /\ h[a] = Started(p, l) /\ q = h[N].p
               /\ \A k \in a + 1..N : h[k] = RunCommand(h[k - 1], k)
  BY <1>1, RunSeekable
<1> DEFINE S == {k \in Nat : h[k] \in LoopStates /\ h[k].p.fails = p.fails /\ h[k].p.pos \in 0..N}
<1>3. a \in S
  <2> DEFINE s == Started(p, l)
  <2>1. s \in LoopStates /\ s.p.fails = p.fails /\ s.p.pos = p.pos  BY StartedFacts
  <2> HIDE DEF s
  <2> QED  BY <1>1, <1>2, <2>1 DEF s
<1>4. ASSUME NEW k \in a + 1..N, k - 1 \in S PROVE k \in S
  <2>1. k \in Nat /\ k \in 1..N /\ k - 1 \in 0..N /\ k \in 0..N  BY <1>1
  <2>2. h[k] = RunCommand(h[k - 1], k) /\ h[k - 1] \in LoopStates  BY <1>2, <1>4
  <2>3. /\ h[k] \in LoopStates /\ h[k].p.fails = h[k - 1].p.fails
        /\ h[k].p.pos = h[k - 1].p.pos \/ h[k].p.pos \in {k - 1, k}
    BY <2>1, <2>2, RunCommandFacts
  <2> QED  BY <1>4, <2>1, <2>3
<1> HIDE DEF S, a, N
<1>5. \A k \in a..N : k \in S  BY <1>1, <1>3, <1>4, UpInduction
<1>6. N \in S  BY <1>1, <1>5
<1> QED  BY <1>2, <1>6 DEF S, N, LoopStates

------------------------------------------------------------------------------
(* The parser of a stream.  It skips no entity packets, and then handles   *)
(* a command as the other parser does.                                     *)

AsyncMessageLoop == INSTANCE LoopFacts WITH Body <- AsyncHandleMessage
AsyncCommandLoop == INSTANCE LoopFacts WITH Body <- AsyncCommand

\* The messages of a packet, one after another.
LEMMA AsyncMessageTurns ==
  ASSUME NEW p, NEW messages, NEW n \in Nat, DOMAIN messages = 1..n
  PROVE  \E h : /\ h[0] = p /\ async_handle_cmd_packet(p, messages) = h[n]
                /\ \A i \in 1..n : h[i] = AsyncHandleMessage(h[i - 1], messages[i])
<1>1. async_handle_cmd_packet(p, messages) = AsyncMessageLoop!Loop(p, messages)
  BY DEF AsyncMessageLoop!Loop, AsyncMessageLoop!Iterates, AsyncMessageLoop!Last,
         async_handle_cmd_packet, FoldLeft, MapThenFoldSet, Max
<1>2. \E h : AsyncMessageLoop!Turns(h, p, messages, n) /\ AsyncMessageLoop!Loop(p, messages) = h[n]
  BY AsyncMessageLoop!LoopTurns
<1> QED  BY <1>1, <1>2 DEF AsyncMessageLoop!Turns

\* A message is handled as the other parser does where no entity packet is skipped.
LEMMA AsyncMatchIs ==
  ASSUME NEW p \in Parsers, ~p.skip_entity_packets, NEW m \in Messages
  PROVE  AsyncMatchMessage(p, m) = MatchMessage(p, m)
<1>1. CASE m \in EntityMessages /\ p.result = "ok"
  <2>1. m.msg = "SvcPacketEntities"  BY <1>1 DEF EntityMessages
  <2>2. AsyncMatchMessage(p, m) = handle_svc_packet_entities(p, m)  BY <1>1, <2>1 DEF AsyncMatchMessage
  <2>3. MatchMessage(p, m) = handle_svc_packet_entities(p, m)  BY <1>1, <2>1 DEF MatchMessage
  <2> QED  BY <2>2, <2>3
<1>2. CASE m \notin EntityMessages \/ p.result # "ok"
  <2>1. m.msg # "SvcPacketEntities" \/ p.result # "ok"
    BY <1>2 DEF Messages, TableMessages, InfoMessages, EntityMessages
  <2> QED  BY <2>1 DEF AsyncMatchMessage
<1> QED  BY <1>1, <1>2

\* And shown as it does.
LEMMA AsyncMessageIs ==
  ASSUME NEW p \in Parsers, ~p.skip_entity_packets, NEW m \in Messages
  PROVE  AsyncHandleMessage(p, m) = HandleMessage(p, m)
<1>1. CASE p.result = "error"  BY <1>1 DEF AsyncHandleMessage, HandleMessage
<1>2. CASE p.result # "error"
  <2> DEFINE r == on_packet(p, m)
  <2>1. r \in Parsers /\ ~r.skip_entity_packets  BY OnPacketFacts DEF Same
  <2>2. AsyncHandleMessage(p, m) = AsyncMatchMessage(r, m) /\ HandleMessage(p, m) = MatchMessage(r, m)
    BY <1>2 DEF AsyncHandleMessage, HandleMessage
  <2> HIDE DEF r
  <2> QED  BY <2>1, <2>2, AsyncMatchIs
<1> QED  BY <1>1, <1>2

\* So is a packet.
LEMMA AsyncPacketIs ==
  ASSUME NEW p \in Parsers, ~p.skip_entity_packets, NEW messages \in Seq(Messages)
  PROVE  async_handle_cmd_packet(p, messages) = handle_cmd_packet(p, messages)
<1> DEFINE N == Len(messages)
           q == handle_cmd_packet(p, messages)
           r == async_handle_cmd_packet(p, messages)
<1>1. N \in Nat /\ DOMAIN messages = 1..N /\ \A i \in 1..N : messages[i] \in Messages
  BY LenProperties, ElementOfSeq
<1>0. q = handle_cmd_packet(p, messages) /\ r = async_handle_cmd_packet(p, messages)  OBVIOUS
<1> HIDE DEF N, q, r
<1>2. PICK h : /\ h[0] = p /\ q = h[N]
               /\ \A i \in 1..N : h[i] = HandleMessage(h[i - 1], messages[i])
  BY <1>0, <1>1, MessageTurns
<1>3. PICK f : /\ f[0] = p /\ r = f[N]
               /\ \A i \in 1..N : f[i] = AsyncHandleMessage(f[i - 1], messages[i])
  BY <1>0, <1>1, AsyncMessageTurns
<1> DEFINE S == {n \in Nat : n <= N => f[n] = h[n] /\ Handles(p, h[n])}
<1>4. 0 \in S  BY <1>2, <1>3, HandlesItself
<1>5. ASSUME NEW n \in Nat, n \in S PROVE n + 1 \in S
  <2> SUFFICES ASSUME n + 1 <= N PROVE f[n + 1] = h[n + 1] /\ Handles(p, h[n + 1])  OBVIOUS
  <2> DEFINE m == n + 1
  <2>1. n <= N /\ m \in 1..N /\ m - 1 = n  BY <1>1
  <2> HIDE DEF m
  <2>2. f[n] = h[n] /\ Handles(p, h[n])  BY <1>5, <2>1
  <2> HIDE DEF S
  <2>3. /\ h[m] = HandleMessage(h[n], messages[m]) /\ messages[m] \in Messages
        /\ f[m] = AsyncHandleMessage(h[n], messages[m])
    BY <1>1, <1>2, <1>3, <2>1, <2>2
  <2>4. h[n] \in Parsers /\ ~h[n].skip_entity_packets  BY <2>2 DEF Handles, Same
  <2>5. f[m] = h[m]  BY <2>3, <2>4, AsyncMessageIs
  <2>6. Handles(h[n], h[m])  BY <2>3, <2>4, MessageFacts
  <2>7. Handles(p, h[m])  BY <2>2, <2>6, HandlesTransitive
  <2> QED  BY <2>5, <2>7 DEF m
<1> HIDE DEF S
<1>6. \A n \in Nat : n \in S  BY <1>4, <1>5, NatSetInduction
<1>7. f[N] = h[N]  BY <1>1, <1>6 DEF S
<1>8. r = q  BY <1>2, <1>3, <1>7
<1> QED  BY <1>0, <1>8

\* And a command: the two copies of the handlers agree.
LEMMA AsyncCmdIs ==
  ASSUME NEW p \in Parsers, ~p.skip_entity_packets, NEW c \in Commands
  PROVE  async_handle_cmd(p, c) = handle_cmd(p, c)
<1> DEFINE r == on_cmd(p)
<1>1. r \in Parsers /\ ~r.skip_entity_packets  BY OnCmdFacts DEF Same
<1>2. c.messages \in Seq(Messages) /\ c.tables \in Partial(Tables, Versions)  BY DEF Commands
<1>3. CASE r.result = "error"  BY <1>3 DEF async_handle_cmd, handle_cmd
<1>4. CASE r.result # "error" /\ c.cmd \in {"DemPacket", "DemSignonPacket"}
  <2>1. async_handle_cmd(p, c) = async_handle_cmd_packet(r, c.messages)  BY <1>4 DEF async_handle_cmd
  <2>2. handle_cmd(p, c) = handle_cmd_packet(r, c.messages)  BY <1>4 DEF handle_cmd
  <2> HIDE DEF r
  <2> QED  BY <1>1, <1>2, <2>1, <2>2, AsyncPacketIs
<1>5. CASE r.result # "error" /\ c.cmd = "DemFullPacket"
  <2> DEFINE q == handle_cmd_string_tables(r, c.tables)
  <2>1. async_handle_cmd(p, c) = IF q.result = "error" THEN q ELSE async_handle_cmd_packet(q, c.messages)
    BY <1>5 DEF async_handle_cmd, async_handle_cmd_full_packet
  <2>2. handle_cmd(p, c) = IF q.result = "error" THEN q ELSE handle_cmd_packet(q, c.messages)
    BY <1>5 DEF handle_cmd, handle_cmd_full_packet
  <2>3. q \in Parsers /\ ~q.skip_entity_packets
    <3> HIDE DEF r
    <3>1. Handles(r, q)  BY <1>1, <1>2, SnapshotFacts
    <3> QED  BY <1>1, <3>1 DEF Handles, Same
  <2> HIDE DEF q
  <2> QED  BY <1>2, <2>1, <2>2, <2>3, AsyncPacketIs
<1>6. CASE r.result # "error" /\ c.cmd = "DemSendTables"
  BY <1>6 DEF async_handle_cmd, handle_cmd
<1>7. CASE r.result # "error" /\ c.cmd = "DemClassInfo"
  BY <1>7 DEF async_handle_cmd, handle_cmd
<1>8. CASE r.result # "error" /\ c.cmd \notin {"DemPacket", "DemSignonPacket", "DemFullPacket",
                                              "DemSendTables", "DemClassInfo"}
  BY <1>8 DEF async_handle_cmd, handle_cmd
<1> QED  BY <1>3, <1>4, <1>5, <1>6, <1>7, <1>8

AsyncAll(s, ks) == FoldLeft(AsyncCommand, s, ks)

\* h holds the states of such a loop, turn by turn.
AsyncRunIs(h, s, ks, n) ==
  /\ h[0] = s /\ AsyncAll(s, ks) = h[n]
  /\ \A i \in 1..n : h[i] = AsyncCommand(h[i - 1], ks[i])

\* A run of the stream's parser, turn by turn.
LEMMA AsyncTurns ==
  ASSUME NEW s, NEW ks, NEW n \in Nat, DOMAIN ks = 1..n
  PROVE  \E h : AsyncRunIs(h, s, ks, n)
<1>1. AsyncAll(s, ks) = AsyncCommandLoop!Loop(s, ks)
  BY DEF AsyncCommandLoop!Loop, AsyncCommandLoop!Iterates, AsyncCommandLoop!Last,
         AsyncAll, FoldLeft, MapThenFoldSet, Max
<1>2. \E h : AsyncCommandLoop!Turns(h, s, ks, n) /\ AsyncCommandLoop!Loop(s, ks) = h[n]
  BY AsyncCommandLoop!LoopTurns
<1> QED  BY <1>1, <1>2 DEF AsyncCommandLoop!Turns, AsyncRunIs

AsyncStarted(p, clears) == [p |-> Restarted(p), reset_on_full_packet |-> clears]

\* h[k] is the state of the loop of run_internal behind command k.
LEMMA RunInternal ==
  ASSUME Len(demo) \in Nat, NEW p, p.pos \in 0..Len(demo), NEW clears
  PROVE  \E h : /\ h[p.pos] = AsyncStarted(p, clears) /\ run_internal(p, clears) = h[Len(demo)].p
                /\ \A k \in p.pos + 1..Len(demo) : h[k] = AsyncCommand(h[k - 1], k)
<1> DEFINE a == p.pos
           N == Len(demo) - a
           ks == [n \in 1..N |-> a + n]
<1>1. a \in Nat /\ N \in Nat /\ Len(demo) = a + N  OBVIOUS
<1>2. run_internal(p, clears) = AsyncAll(AsyncStarted(p, clears), ks).p
  BY DEF run_internal, AsyncAll, AsyncStarted, Restarted, FoldLeft, MapThenFoldSet, Max
<1>3. DOMAIN ks = 1..N /\ \A n \in 1..N : ks[n] = a + n  OBVIOUS
<1> DEFINE s == AsyncStarted(p, clears)
<1> HIDE DEF a, N, ks, s
<1>0. N \in Nat /\ DOMAIN ks = 1..N  BY <1>1, <1>3
<1>4. PICK f : AsyncRunIs(f, s, ks, N)  BY <1>0, AsyncTurns
<1>4a. /\ f[0] = s /\ AsyncAll(s, ks) = f[N]
       /\ \A i \in 1..N : f[i] = AsyncCommand(f[i - 1], ks[i])
  BY <1>4 DEF AsyncRunIs
<1> DEFINE h == [k \in a..a + N |-> f[k - a]]
<1>5. h[a] = f[0] /\ h[a + N] = f[N]
  <2>1. a \in a..a + N /\ a + N \in a..a + N /\ a - a = 0 /\ a + N - a = N  BY <1>1
  <2> QED  BY <1>1, <2>1
<1>6. ASSUME NEW k \in a + 1..a + N PROVE h[k] = AsyncCommand(h[k - 1], k)
  <2>1. /\ k \in a..a + N /\ k - 1 \in a..a + N /\ k - a \in 1..N /\ a + (k - a) = k
        /\ k - 1 - a = k - a - 1
    BY <1>1
  <2>2. f[k - a] = AsyncCommand(f[k - a - 1], k)  BY <1>3, <1>4a, <2>1
  <2> QED  BY <2>1, <2>2
<1> HIDE DEF h
<1> QED  BY <1>1, <1>2, <1>4a, <1>5, <1>6 DEF a, s

AsyncStates == [p : Parsers, reset_on_full_packet : BOOLEAN]

\* The context of which the entities are cleared.
Emptied(c) == [[c EXCEPT !.entities = <<>>] EXCEPT !.baseline_entity = Missing]

\* Clearing the entities keeps the types.
LEMMA EmptiedFacts ==
  ASSUME NEW c \in Contexts, NEW d, d = Emptied(c)
  PROVE  d \in Contexts /\ d.tick = c.tick /\ d.prev_tick = c.prev_tick
<1>1. <<>> \in Partial(Indexes, Entity)  BY EmptyIsPartial
<1> QED  BY <1>1 DEF Emptied, Contexts

\* Entities are cleared before a full packet, and only before one.
LEMMA ClearFacts ==
  ASSUME NEW p \in Parsers, NEW c, NEW q, q = ClearFor(p, c)
  PROVE  /\ q \in Parsers /\ Same(p, q) /\ q.result = p.result
         /\ q.ctx = IF c.cmd = "DemFullPacket" THEN Emptied(p.ctx) ELSE p.ctx
<1>1. CASE c.cmd # "DemFullPacket"  BY <1>1 DEF ClearFor, Same
<1>2. CASE c.cmd = "DemFullPacket"
  <2> DEFINE d == Emptied(p.ctx)
             r == [p EXCEPT !.ctx = d]
  <2>1. p.ctx \in Contexts  BY DEF Parsers
  <2>2. d \in Contexts /\ d.tick = p.ctx.tick /\ d.prev_tick = p.ctx.prev_tick
    BY <2>1, EmptiedFacts
  <2>3. q = r  BY <1>2, <2>1 DEF ClearFor, Emptied, Parsers, Contexts
  <2> HIDE DEF d
  <2>4. r \in Parsers /\ Same(p, r) /\ r.ctx = d /\ r.result = p.result  BY <2>2, WithContext
  <2> HIDE DEF r
  <2> QED  BY <1>2, <2>3, <2>4 DEF d
<1> QED  BY <1>1, <1>2

\* One turn of a run: the command is read and handled.
LEMMA AsyncCommandFacts ==
  ASSUME RecordingInv, NEW s \in AsyncStates, s.p.result = "ok", ~s.p.skip_entity_packets,
         NEW k \in 1..Len(demo), NEW t, t = AsyncCommand(s, k)
  PROVE  \E r, q \in Parsers :
           /\ r = ReadHeader(s.p, k)
           /\ q = IF s.reset_on_full_packet THEN ClearFor(r, demo[k]) ELSE r
           /\ q.pos = k /\ q.fails = s.p.fails /\ q.result = "ok" /\ ~q.skip_entity_packets
           /\ t \in AsyncStates /\ t.reset_on_full_packet = s.reset_on_full_packet
           /\ t.p = TickEnded(handle_cmd(q, demo[k])) /\ Handles(q, t.p)
<1> DEFINE p == s.p
           b == s.reset_on_full_packet
           c == demo[k]
           r == ReadHeader(p, k)
           q == IF b THEN ClearFor(r, c) ELSE r
           x == handle_cmd(q, c)
           y == TickEnded(x)
<1>0. p \in Parsers /\ p.result = "ok" /\ ~p.skip_entity_packets /\ b \in BOOLEAN
      /\ s = [p |-> p, reset_on_full_packet |-> b]
  BY DEF AsyncStates
<1>1. c \in Commands  BY CommandFacts
<1>2. t = [s EXCEPT !.p = LET z == async_handle_cmd(q, c)
                          IN IF z.result = "ok" /\ z.ctx.prev_tick # z.ctx.tick
                             THEN on_tick_end(z) ELSE z]
  BY DEF AsyncCommand
<1> HIDE DEF p, b, c
<1>3. r \in Parsers /\ r.pos = k /\ r.fails = p.fails /\ r.result = "ok" /\ ~r.skip_entity_packets
  <2>1. r = ReadHeader(p, k)  OBVIOUS
  <2> HIDE DEF r
  <2>2. /\ r \in Parsers /\ r.pos = k /\ r.fails = p.fails /\ r.result = p.result
        /\ r.skip_entity_packets = p.skip_entity_packets
    BY <1>0, <2>1, ReadHeaderFacts
  <2> QED  BY <1>0, <2>2
<1> HIDE DEF r
<1>4. q \in Parsers /\ q.pos = k /\ q.fails = p.fails /\ q.result = "ok" /\ ~q.skip_entity_packets
  <2>1. CASE ~b  BY <1>3, <2>1
  <2>2. CASE b
    <3>1. q = ClearFor(r, c)  BY <2>2
    <3> HIDE DEF q
    <3>2. q \in Parsers /\ Same(r, q) /\ q.result = r.result  BY <1>3, <3>1, ClearFacts
    <3> QED  BY <1>3, <3>2 DEF Same
  <2> QED  BY <1>0, <2>1, <2>2
<1>5. q = IF b THEN ClearFor(r, c) ELSE r  OBVIOUS
<1> HIDE DEF q
<1>6. async_handle_cmd(q, c) = x  BY <1>1, <1>4, AsyncCmdIs
<1>7. t = [s EXCEPT !.p = y]  BY <1>2, <1>6 DEF TickEnded
<1>8. Handles(q, x)  BY <1>1, <1>4, HandleCmdFacts
<1> HIDE DEF x
<1>9. Handles(x, y)  BY <1>8, TickEndedFacts DEF Handles
<1>10. Handles(q, y)  BY <1>8, <1>9, HandlesTransitive
<1>11. y \in Parsers  BY <1>10 DEF Handles
<1> HIDE DEF y
<1>12. t \in AsyncStates /\ t.p = y /\ t.reset_on_full_packet = b  BY <1>0, <1>7, <1>11 DEF AsyncStates
<1>13. t.p = TickEnded(handle_cmd(q, c))  BY <1>12 DEF x, y
<1> QED  BY <1>3, <1>4, <1>5, <1>10, <1>12, <1>13 DEF p, b, c, r

\* A run keeps the types, and stays within the recording.
LEMMA AsyncRunFacts ==
  ASSUME RecordingInv, NEW p \in Parsers, p.pos \in 0..Len(demo), ~p.skip_entity_packets,
         NEW clears \in BOOLEAN, NEW q, q = run_internal(p, clears)
  PROVE  q \in Parsers /\ q.fails = p.fails /\ q.pos \in 0..Len(demo) /\ ~q.skip_entity_packets
<1> DEFINE N == Len(demo)
           a == p.pos
           s == AsyncStarted(p, clears)
<1>1. N \in Nat /\ a \in Nat /\ a <= N  BY DemoAssumption DEF RecordingInv, Recorded
<1>2. PICK h : /\ h[a] = s /\ q = h[N].p
               /\ \A k \in a + 1..N : h[k] = AsyncCommand(h[k - 1], k)
  BY <1>1, RunInternal
<1>3. s \in AsyncStates /\ s.p.fails = p.fails /\ s.p.pos = a /\ ~s.p.skip_entity_packets
  BY DEF AsyncStarted, AsyncStates, Restarted, Parsers
<1> HIDE DEF s
<1> DEFINE S == {k \in Nat : /\ h[k] \in AsyncStates /\ h[k].p.fails = p.fails
                             /\ h[k].p.pos \in 0..N /\ ~h[k].p.skip_entity_packets}
<1>4. a \in S  BY <1>1, <1>2, <1>3
<1>5. ASSUME NEW k \in a + 1..N, k - 1 \in S PROVE k \in S
  <2>1. k \in Nat /\ k \in 1..N /\ k \in 0..N  BY <1>1
  <2> DEFINE u == h[k - 1]
  <2>2. h[k] = AsyncCommand(u, k) /\ u \in AsyncStates /\ u.p.fails = p.fails /\ u.p.pos \in 0..N
        /\ ~u.p.skip_entity_packets
    BY <1>2, <1>5
  <2> HIDE DEF u
  <2>3. CASE u.p.result = "error"  BY <2>1, <2>2, <2>3 DEF AsyncCommand
  <2>4. CASE u.p.result = "ok"
    <3>1. PICK x \in Parsers : /\ x.pos = k /\ x.fails = u.p.fails /\ ~x.skip_entity_packets
                               /\ h[k] \in AsyncStates /\ Handles(x, h[k].p)
      BY <2>1, <2>2, <2>4, AsyncCommandFacts
    <3> QED  BY <2>1, <2>2, <3>1 DEF Handles, Same
  <2> QED  BY <2>2, <2>3, <2>4 DEF AsyncStates, Parsers
<1> HIDE DEF S, a, N
<1>6. \A k \in a..N : k \in S  BY <1>1, <1>4, <1>5, UpInduction
<1>7. N \in S  BY <1>1, <1>6
<1> QED  BY <1>2, <1>7 DEF S, N, AsyncStates

------------------------------------------------------------------------------
(* The calls, and the types.                                               *)

\* The context of a parser that was rewound.
Rewound(c) ==
  [string_tables |-> <<>>, instance_baseline |-> 0, serializers |-> c.serializers,
   entity_classes |-> c.entity_classes, entities |-> <<>>, baseline_entity |-> Missing,
   full_packet_interval |-> c.full_packet_interval, tick |-> -1, prev_tick |-> -1]

\* reset leaves the parser at the start, with nothing but what the signon part restates.
LEMMA ResetFacts ==
  ASSUME NEW p \in Parsers, NEW q, q = reset(p)
  PROVE  /\ q \in Parsers /\ q.pos = 0 /\ q.fails = p.fails /\ q.log = p.log
         /\ q.skip_entity_packets = p.skip_entity_packets /\ q.collecting = p.collecting
         /\ q.ctx = Rewound(p.ctx)
<1> DEFINE r0 == [p  EXCEPT !.pos = 0]
           r1 == [r0 EXCEPT !.ctx.entities = <<>>]
           r2 == [r1 EXCEPT !.ctx.baseline_entity = Missing]
           r3 == [r2 EXCEPT !.ctx.string_tables = <<>>]
           r4 == [r3 EXCEPT !.ctx.instance_baseline = 0]
           r5 == [r4 EXCEPT !.ctx.tick = -1]
           r6 == [r5 EXCEPT !.ctx.prev_tick = -1]
           Kept(r) == /\ r.pos = 0 /\ r.fails = p.fails /\ r.log = p.log
                      /\ r.skip_entity_packets = p.skip_entity_packets
                      /\ r.collecting = p.collecting
           c == p.ctx
           c1 == [c  EXCEPT !.entities = <<>>]
           c2 == [c1 EXCEPT !.baseline_entity = Missing]
           c3 == [c2 EXCEPT !.string_tables = <<>>]
           c4 == [c3 EXCEPT !.instance_baseline = 0]
           c5 == [c4 EXCEPT !.tick = -1]
           c6 == [c5 EXCEPT !.prev_tick = -1]
<1>1. q = r6  BY DEF reset
<1>2. c \in Contexts  BY DEF Parsers
<1>3. <<>> \in Partial(Indexes, Entity) /\ <<>> \in Partial(Tables, Versions)  BY EmptyIsPartial
<1>4. 0 \in Versions /\ -1 \in Ticks  BY IndexFacts, DemoAssumption DEF Ticks
<1>5. c1 \in Contexts  BY <1>2, <1>3 DEF Contexts
<1>6. c2 \in Contexts
  <2> HIDE DEF c1
  <2> QED  BY <1>5 DEF Contexts
<1>7. c3 \in Contexts
  <2> HIDE DEF c2
  <2> QED  BY <1>3, <1>6 DEF Contexts
<1>8. c4 \in Contexts
  <2> HIDE DEF c3
  <2> QED  BY <1>4, <1>7 DEF Contexts
<1>9. c5 \in Contexts
  <2> HIDE DEF c4
  <2> QED  BY <1>4, <1>8 DEF Contexts
<1>10. c6 \in Contexts
  <2> HIDE DEF c5
  <2> QED  BY <1>4, <1>9 DEF Contexts
<1>11. c6 = Rewound(c)
  <2> HIDE DEF c
  <2>1. /\ c3.serializers = c.serializers /\ c3.entity_classes = c.entity_classes
        /\ c3.full_packet_interval = c.full_packet_interval
        /\ c3.entities = <<>> /\ c3.baseline_entity = Missing /\ c3.string_tables = <<>>
    BY <1>2 DEF Contexts
  <2>2. /\ c6.serializers = c3.serializers /\ c6.entity_classes = c3.entity_classes
        /\ c6.full_packet_interval = c3.full_packet_interval
        /\ c6.entities = c3.entities /\ c6.baseline_entity = c3.baseline_entity
        /\ c6.string_tables = c3.string_tables
        /\ c6.instance_baseline = 0 /\ c6.tick = -1 /\ c6.prev_tick = -1
    <3> HIDE DEF c3
    <3> QED  BY <1>7 DEF Contexts
  <2> HIDE DEF c3, c6
  <2> QED  BY <1>10, <2>1, <2>2 DEF Rewound, Contexts
<1> HIDE DEF c, c1, c2, c3, c4, c5, c6
<1>12. r0 \in Parsers /\ Kept(r0) /\ r0.ctx = c  BY DEF Parsers, c
<1> HIDE DEF r0
<1>13. r1 \in Parsers /\ Kept(r1) /\ r1.ctx = c1  BY <1>5, <1>12 DEF Parsers, c1
<1> HIDE DEF r1
<1>14. r2 \in Parsers /\ Kept(r2) /\ r2.ctx = c2  BY <1>6, <1>13 DEF Parsers, c2
<1> HIDE DEF r2
<1>15. r3 \in Parsers /\ Kept(r3) /\ r3.ctx = c3  BY <1>7, <1>14 DEF Parsers, c3
<1> HIDE DEF r3
<1>16. r4 \in Parsers /\ Kept(r4) /\ r4.ctx = c4  BY <1>8, <1>15 DEF Parsers, c4
<1> HIDE DEF r4
<1>17. r5 \in Parsers /\ Kept(r5) /\ r5.ctx = c5  BY <1>9, <1>16 DEF Parsers, c5
<1> HIDE DEF r5
<1>18. r6 \in Parsers /\ Kept(r6) /\ r6.ctx = c6  BY <1>10, <1>17 DEF Parsers, c6
<1> HIDE DEF r6
<1> QED  BY <1>1, <1>11, <1>18 DEF c

\* A new parser has its types.
LEMMA NewParserFacts ==
  /\ NewParser \in Parsers /\ NewParser.pos = 0 /\ NewParser.fails = NoFailure
  /\ ~NewParser.skip_entity_packets
<1>1. <<>> \in Partial(Indexes, Entity) /\ <<>> \in Partial(Tables, Versions)  BY EmptyIsPartial
<1>2. 0 \in Versions /\ -1 \in Ticks  BY IndexFacts, DemoAssumption DEF Ticks
<1>3. NewContext \in Contexts  BY <1>1, <1>2 DEF NewContext, Contexts
<1>4. NoFailure \in [at : Nat, kind : Callbacks \cup {"none"}]  BY DEF NoFailure
<1>5. <<>> \in Seq(Visited)  OBVIOUS
<1> QED  BY <1>3, <1>4, <1>5 DEF NewParser, Parsers

\* What is known of the parser between the calls.
SessionInv ==
  /\ RecordingInv
  /\ parser \in Parsers /\ parser.pos \in 0..Len(demo) /\ parser.fails = NoFailure
  /\ call.name \in AsyncCalls \cup {"none"} => ~parser.skip_entity_packets

\* Between calls the caller may change the visitor, and takes what it collected.
LEMMA IdleFacts ==
  ASSUME SessionInv, NEW f \in Failures, NEW q, q = Idle(f)
  PROVE  /\ q \in Parsers /\ q.pos = parser.pos /\ q.fails = f /\ q.ctx = parser.ctx
         /\ q.skip_entity_packets = parser.skip_entity_packets
         /\ q.collecting = parser.collecting /\ q.log = <<>>
<1>1. parser \in Parsers  BY DEF SessionInv
<1>2. f \in [at : Nat, kind : Callbacks \cup {"none"}]
  <2>1. f = NoFailure \/ f \in [at : DOMAIN demo, kind : Callbacks]  BY DEF Failures
  <2>2. DOMAIN demo \subseteq Nat
    <3>1. demo \in Seq(Commands)  BY DEF SessionInv, RecordingInv, Recorded
    <3> QED  BY <3>1
  <2> QED  BY <2>1, <2>2 DEF NoFailure
<1>3. <<>> \in Seq(Visited)  OBVIOUS
<1> DEFINE r == [parser EXCEPT !.log = <<>>]
<1>4. r \in Parsers /\ r.pos = parser.pos /\ r.ctx = parser.ctx /\ r.log = <<>>
      /\ r.skip_entity_packets = parser.skip_entity_packets /\ r.collecting = parser.collecting
  BY <1>1, <1>3 DEF Parsers
<1>5. q = [r EXCEPT !.fails = f]  BY DEF Idle
<1> HIDE DEF r
<1> QED  BY <1>2, <1>4, <1>5 DEF Parsers

\* A call leaves the recording alone.
LEMMA RecordingStays ==
  ASSUME RecordingInv, UNCHANGED <<demo, game>> PROVE RecordingInv'
BY DEF RecordingInv, Recorded, BaselineFirst, Timed, LastBefore, IsFullPacket

\* A call that leaves the parser at p.
LEMMA CallFacts ==
  ASSUME SessionInv, NEW name, NEW arg, NEW p \in Parsers, p.pos \in 0..Len(demo),
         name \in AsyncCalls \cup {"none"} => ~p.skip_entity_packets,
         Calls(name, arg, p)
  PROVE  SessionInv'
<1>1. RecordingInv'  BY RecordingStays DEF SessionInv, Calls
<1>2. parser' = [p EXCEPT !.fails = NoFailure] /\ demo' = demo  BY DEF Calls
<1>3. call'.name = name  BY DEF Calls
<1>4. NoFailure \in [at : Nat, kind : Callbacks \cup {"none"}]  BY DEF NoFailure
<1>5. /\ parser' \in Parsers /\ parser'.pos = p.pos /\ parser'.fails = NoFailure
      /\ parser'.skip_entity_packets = p.skip_entity_packets
  BY <1>2, <1>4 DEF Parsers
<1>6. Parsers' = Parsers
  BY DEF Parsers, Contexts, Visited, Partial, Tables, Versions, Ticks, Callbacks, Deltas, Svcs, Entity
<1> QED  BY <1>1, <1>2, <1>3, <1>5, <1>6 DEF SessionInv

\* A command is recorded.
LEMMA RecordedFacts ==
  ASSUME SessionInv, NEW c, NEW h, Record(c, h), RecordingInv'
  PROVE  SessionInv'
<1>1. demo \in Seq(Commands) /\ Len(demo) \in Nat
  BY DemoAssumption DEF SessionInv, RecordingInv, Recorded
<1>2. demo' = Append(demo, c) /\ parser' = parser /\ call' = call  BY DEF Record
<1>3. Len(demo') = Len(demo) + 1
  <2>1. demo \in Seq(Commands \cup {c})  BY <1>1
  <2> QED  BY <1>2, <2>1, AppendProperties
<1> QED  BY <1>1, <1>2, <1>3 DEF SessionInv

\* The end of run_full_packet.
LEMMA EndedFacts ==
  ASSUME NEW p \in Parsers, NEW q, q = Ended(p)
  PROVE  /\ q \in Parsers /\ q.pos = p.pos /\ q.fails = p.fails /\ q.ctx = p.ctx
         /\ ~q.skip_entity_packets /\ q.collecting = p.collecting /\ q.log = p.log
         /\ q.result = p.result
BY DEF Ended, Parsers

\* run_to_end.
LEMMA RunEndFacts ==
  ASSUME SessionInv, NEW f \in Failures, RunToEnd(f) PROVE SessionInv'
<1> DEFINE r == Idle(f)
           l == [run |-> "run_to_end"]
           q == run_to_end(r)
<1>1. r \in Parsers /\ r.pos \in 0..Len(demo)  BY IdleFacts DEF SessionInv
<1>2. q = run_seekable(r, l)  BY DEF run_to_end
<1>3. l \in EndLocals \cup SeekLocals \cup SegmentLocals  BY DEF EndLocals
<1>4. Calls("run_to_end", 0, q)  BY DEF RunToEnd
<1>5. RecordingInv  BY DEF SessionInv
<1> HIDE DEF r, l, q
<1>6. q \in Parsers /\ q.pos \in 0..Len(demo)  BY <1>1, <1>2, <1>3, <1>5, RunFacts
<1> DEFINE name == "run_to_end"
<1>7. name \notin AsyncCalls \cup {"none"} /\ Calls(name, 0, q)  BY <1>4 DEF AsyncCalls
<1> HIDE DEF name
<1> QED  BY <1>6, <1>7, CallFacts

\* run_to_tick.
LEMMA RunTickFacts ==
  ASSUME SessionInv, NEW f \in Failures, NEW tick \in Ticks, RunToTick(tick, f) PROVE SessionInv'
<1> DEFINE i == Idle(f)
           r == reset(i)
           l == [run |-> "run_to_tick", target_tick |-> tick, first_sync_tick |-> FALSE,
                 last_full_packet |-> FALSE]
           q == run_to_tick(i, tick)
<1>1. r \in Parsers /\ r.pos = 0
  <2>1. i \in Parsers  BY IdleFacts
  <2> HIDE DEF i
  <2> QED  BY <2>1, ResetFacts
<1>2. q = run_seekable(r, l)  BY DEF run_to_tick
<1>3. l \in EndLocals \cup SeekLocals \cup SegmentLocals
  BY DemoAssumption DEF SeekLocals, Ticks
<1>4. Calls("run_to_tick", tick, q)  BY DEF RunToTick
<1>5. RecordingInv /\ 0 \in 0..Len(demo)
  BY DemoAssumption DEF SessionInv, RecordingInv, Recorded
<1> HIDE DEF r, l, q
<1>6. q \in Parsers /\ q.pos \in 0..Len(demo)  BY <1>1, <1>2, <1>3, <1>5, RunFacts
<1> DEFINE name == "run_to_tick"
<1>7. name \notin AsyncCalls \cup {"none"} /\ Calls(name, tick, q)  BY <1>4 DEF AsyncCalls
<1> HIDE DEF name
<1> QED  BY <1>6, <1>7, CallFacts

\* scan_full_packet_ticks.
LEMMA ScanFacts ==
  ASSUME SessionInv, Scan PROVE SessionInv'
<1> DEFINE i == Idle(NoFailure)
           r == reset(i)
           q == Restarted(r)
<1>1. NoFailure \in Failures  BY DEF Failures
<1>2. r \in Parsers /\ r.pos = 0
  <2>1. i \in Parsers  BY <1>1, IdleFacts
  <2> HIDE DEF i
  <2> QED  BY <2>1, ResetFacts
<1>3. Calls("scan_full_packet_ticks", 0, q)  BY DEF Scan, scan_full_packet_ticks, Restarted
<1>4. 0 \in 0..Len(demo)
  BY DemoAssumption DEF SessionInv, RecordingInv, Recorded
<1> HIDE DEF r
<1>5. q \in Parsers /\ q.pos \in 0..Len(demo)  BY <1>2, <1>4 DEF Parsers, Restarted
<1> DEFINE name == "scan_full_packet_ticks"
<1>6. name \notin AsyncCalls \cup {"none"} /\ Calls(name, 0, q)  BY <1>3 DEF AsyncCalls
<1> HIDE DEF name, q
<1> QED  BY <1>5, <1>6, CallFacts

\* The parser that run_full_packet starts its run with.
Warming(p, ordinal) ==
  [[p EXCEPT !.skip_entity_packets = (ordinal # 0)]
     EXCEPT !.collecting = IF ordinal # 0 THEN FALSE ELSE p.collecting]

\* Warming up changes the two flags.
LEMMA WarmingFacts ==
  ASSUME NEW p \in Parsers, NEW o, NEW q, q = Warming(p, o)
  PROVE  /\ q \in Parsers /\ q.pos = p.pos /\ q.fails = p.fails /\ q.ctx = p.ctx
         /\ q.skip_entity_packets = (o # 0) /\ q.log = p.log
         /\ q.collecting = IF o # 0 THEN FALSE ELSE p.collecting
<1> DEFINE b == o # 0
           k == IF b THEN FALSE ELSE p.collecting
<1>1. b \in BOOLEAN /\ k \in BOOLEAN  BY DEF Parsers
<1>2. q = [[p EXCEPT !.skip_entity_packets = b] EXCEPT !.collecting = k]  BY DEF Warming
<1> HIDE DEF b, k
<1>3. /\ q \in Parsers /\ q.pos = p.pos /\ q.fails = p.fails /\ q.ctx = p.ctx
      /\ q.skip_entity_packets = b /\ q.log = p.log /\ q.collecting = k
  BY <1>1, <1>2 DEF Parsers
<1> QED  BY <1>3 DEF b, k

SegmentStartLocals(o) ==
  [run |-> "run_full_packet", ordinal |-> o, fp_seen |-> 0, collecting |-> ~(o # 0)]

\* run_full_packet in the terms of its stages.
LEMMA SegmentRun ==
  ASSUME NEW p, NEW o
  PROVE  run_full_packet(p, o) = Ended(run_seekable(Warming(reset(p), o), SegmentStartLocals(o)))
<1> DEFINE r == reset(p)
           w == [r EXCEPT !.skip_entity_packets = (o # 0),
                          !.collecting = IF o # 0 THEN FALSE ELSE @]
<1>1. w = Warming(r, o)  BY DEF Warming
<1>2. run_full_packet(p, o) = Ended(run_seekable(w, SegmentStartLocals(o)))
  BY DEF run_full_packet, SegmentStartLocals
<1> HIDE DEF w
<1> QED  BY <1>1, <1>2

\* run_full_packet.
LEMMA RunSegmentFacts ==
  ASSUME SessionInv, NEW f \in Failures, NEW o \in Ordinals, RunFullPacket(o, f) PROVE SessionInv'
<1> DEFINE i == Idle(f)
           r == reset(i)
           w == Warming(r, o)
           l == SegmentStartLocals(o)
           x == run_seekable(w, l)
           q == Ended(x)
<1>1. r \in Parsers /\ r.pos = 0
  <2>1. i \in Parsers  BY IdleFacts
  <2> HIDE DEF i
  <2> QED  BY <2>1, ResetFacts
<1>2. w \in Parsers /\ w.pos = 0
  <2> HIDE DEF r
  <2> QED  BY <1>1, WarmingFacts
<1>3. l \in EndLocals \cup SeekLocals \cup SegmentLocals
  BY DemoAssumption DEF SegmentLocals, SegmentStartLocals, Ordinals
<1>4. Calls("run_full_packet", o, q)  BY SegmentRun DEF RunFullPacket
<1>5. RecordingInv /\ 0 \in 0..Len(demo)
  BY DemoAssumption DEF SessionInv, RecordingInv, Recorded
<1> HIDE DEF w, l
<1>6. x \in Parsers /\ x.pos \in 0..Len(demo)  BY <1>2, <1>3, <1>5, RunFacts
<1> HIDE DEF x
<1>7. q \in Parsers /\ q.pos \in 0..Len(demo)  BY <1>6, EndedFacts
<1> DEFINE name == "run_full_packet"
<1>8. name \notin AsyncCalls \cup {"none"} /\ Calls(name, o, q)  BY <1>4 DEF AsyncCalls
<1> HIDE DEF name, q
<1> QED  BY <1>7, <1>8, CallFacts

\* The two calls on the parser of a stream.
LEMMA AsyncRunCallFacts ==
  ASSUME SessionInv, NEW f \in Failures, NEW name \in AsyncCalls, NEW clears \in BOOLEAN,
         NEW q, q = run_internal(Idle(f), clears), Calls(name, 0, q)
  PROVE  SessionInv'
<1> DEFINE r == Idle(f)
<1>1. call.name \in AsyncCalls \cup {"none"}  BY DEF Calls
<1>2. r \in Parsers /\ r.pos \in 0..Len(demo) /\ ~r.skip_entity_packets
  BY <1>1, IdleFacts DEF SessionInv
<1>3. RecordingInv /\ q = run_internal(r, clears)  BY DEF SessionInv
<1> HIDE DEF r
<1>4. q \in Parsers /\ q.pos \in 0..Len(demo) /\ ~q.skip_entity_packets
  BY <1>2, <1>3, AsyncRunFacts
<1> QED  BY <1>4, CallFacts

\* The invariant of a session holds of a new parser and the signon part.
LEMMA SessionInit == ASSUME Init PROVE SessionInv
<1>1. RecordingInv  BY RecordedInit
<1>2. 0 \in 0..Len(demo)  BY <1>1, DemoAssumption DEF RecordingInv, Recorded
<1> QED  BY <1>1, <1>2, NewParserFacts DEF Init, SessionInv

\* Every recorded command and every call keeps it.
LEMMA SessionNext == ASSUME SessionInv, [Next]_vars PROVE SessionInv'
<1>0. RecordingInv  BY DEF SessionInv
<1>1. CASE UNCHANGED vars
  <2>1. RecordingInv'  BY <1>0, <1>1, RecordingStays DEF vars
  <2>2. Parsers' = Parsers
    BY DEF Parsers, Contexts, Visited, Partial, Tables, Versions, Ticks, Callbacks, Deltas, Svcs, Entity
  <2> QED  BY <1>1, <2>1, <2>2 DEF SessionInv, vars
<1>2. CASE RecordFullPacket
  <2>1. RecordingInv'  BY <1>0, <1>2, RecordFullPacketFacts
  <2>2. \E c, h : Record(c, h)  BY <1>2 DEF RecordFullPacket
  <2> QED  BY <2>1, <2>2, RecordedFacts
<1>3. ASSUME NEW i \in Indexes, RecordCreate(i) PROVE SessionInv'
  <2>1. RecordingInv'  BY <1>0, <1>3, RecordCreateFacts
  <2>2. \E c, h : Record(c, h)  BY <1>3 DEF RecordCreate, EntityPacket, Packet
  <2> QED  BY <2>1, <2>2, RecordedFacts
<1>4. ASSUME NEW i \in Indexes, RecordUpdate(i) PROVE SessionInv'
  <2>1. RecordingInv'  BY <1>0, <1>4, RecordUpdateFacts
  <2>2. \E c, h : Record(c, h)  BY <1>4 DEF RecordUpdate, EntityPacket, Packet
  <2> QED  BY <2>1, <2>2, RecordedFacts
<1>5. ASSUME NEW i \in Indexes, RecordGone(i) PROVE SessionInv'
  <2>1. RecordingInv'  BY <1>0, <1>5, RecordGoneFacts
  <2>2. \E c, h : Record(c, h)  BY <1>5 DEF RecordGone, EntityPacket, Packet
  <2> QED  BY <2>1, <2>2, RecordedFacts
<1>6. ASSUME NEW t \in Tables, RecordTableUpdate(t) PROVE SessionInv'
  <2>1. RecordingInv'  BY <1>0, <1>6, RecordTableFacts
  <2>2. \E c, h : Record(c, h)  BY <1>6 DEF RecordTableUpdate, Packet
  <2> QED  BY <2>1, <2>2, RecordedFacts
<1>7. CASE Scan  BY <1>7, ScanFacts
<1>8. ASSUME NEW f \in Failures, RunToEnd(f) PROVE SessionInv'  BY <1>8, RunEndFacts
<1>9. ASSUME NEW f \in Failures, NEW tick \in Ticks, RunToTick(tick, f) PROVE SessionInv'
  BY <1>9, RunTickFacts
<1>10. ASSUME NEW f \in Failures, NEW o \in Ordinals, RunFullPacket(o, f) PROVE SessionInv'
  BY <1>10, RunSegmentFacts
<1>11. ASSUME NEW f \in Failures, AsyncRunToEnd(f) PROVE SessionInv'
  <2> DEFINE name == "async_run_to_end"
             q == run_internal(Idle(f), FALSE)
  <2>1. name \in AsyncCalls /\ Calls(name, 0, q)  BY <1>11 DEF AsyncCalls, AsyncRunToEnd, async_run_to_end
  <2> HIDE DEF name
  <2> QED  BY <2>1, AsyncRunCallFacts
<1>12. ASSUME NEW f \in Failures, RunToEndFinalState(f) PROVE SessionInv'
  <2> DEFINE name == "run_to_end_final_state"
             q == run_internal(Idle(f), TRUE)
  <2>1. name \in AsyncCalls /\ Calls(name, 0, q)
    BY <1>12 DEF AsyncCalls, RunToEndFinalState, run_to_end_final_state
  <2> HIDE DEF name
  <2> QED  BY <2>1, AsyncRunCallFacts
<1> QED  BY <1>1, <1>2, <1>3, <1>4, <1>5, <1>6, <1>7, <1>8, <1>9, <1>10, <1>11, <1>12 DEF Next

\* The recording is well-formed and the parser's types hold, in every session.
THEOREM SessionCorrect == Spec => []SessionInv
<1>1. Init => SessionInv  BY SessionInit
<1>2. SessionInv /\ [Next]_vars => SessionInv'  BY SessionNext
<1> QED  BY <1>1, <1>2, PTL DEF Spec

\* Whatever is called in which order, and wherever a visitor fails, every entity is a
\* complete one of recorded versions and the position is within the recording.
THEOREM TypeCorrect == Spec => []TypeOK
<1>1. SessionInv => TypeOK
  <2> SUFFICES ASSUME SessionInv PROVE TypeOK  OBVIOUS
  <2> DEFINE c == parser.ctx
  <2>1. /\ c \in Contexts /\ parser.pos \in 0..Len(demo) /\ parser.skip_entity_packets \in BOOLEAN
        /\ parser.collecting \in BOOLEAN /\ parser.result \in {"ok", "error"}
    BY DEF SessionInv, Parsers
  <2> HIDE DEF c
  <2>2. /\ c.entities \in Partial(Indexes, Entity) /\ c.string_tables \in Partial(Tables, Versions)
        /\ c.tick \in Ticks /\ c.prev_tick \in Ticks /\ c.instance_baseline \in Versions
        /\ c.baseline_entity \in Versions \cup {Missing}
    BY <2>1 DEF Contexts
  <2>3. /\ DOMAIN c.entities \subseteq Indexes /\ \A i \in DOMAIN c.entities : c.entities[i] \in Entity
        /\ DOMAIN c.string_tables \subseteq Tables
        /\ \A t \in DOMAIN c.string_tables : c.string_tables[t] \in Versions
    BY <2>2, PartialFacts
  <2> QED  BY <2>1, <2>2, <2>3 DEF TypeOK, Versions, c
<1> QED  BY <1>1, SessionCorrect, PTL

------------------------------------------------------------------------------
(* What the context is of the game.                                        *)

TickAt(k) == IF k = 0 THEN -1 ELSE demo[k].tick
GameAt(k) == IF k = 0 THEN NewGame ELSE game[k]

\* What the signon part has set up by command k; reset leaves some of it.
Ready(c, k) ==
  /\ k >= 1 => /\ DOMAIN c.string_tables = Tables
               /\ c.full_packet_interval = DEFAULT_FULL_PACKET_INTERVAL * TickRatio
  /\ k >= 2 => c.serializers
  /\ k >= 3 => c.entity_classes

\* What nothing but the signon part changes.
SameSetup(c, d) ==
  /\ DOMAIN d.string_tables = DOMAIN c.string_tables
  /\ d.full_packet_interval = c.full_packet_interval
  /\ d.serializers = c.serializers /\ d.entity_classes = c.entity_classes

\* Once a baseline was decoded it is the one that the game has.
Cache(c, g) ==
  c.baseline_entity = Missing \/ (c.baseline_entity = Baseline(g) /\ Baseline(g) # 0)

\* The context is that of the game.
Tracks(c, g) ==
  /\ c.string_tables = g.tables
  /\ c.entities = g.entities
  /\ c.instance_baseline = Baseline(g)
  /\ Cache(c, g)

\* The context is one that a full packet makes that of the game.
Behind(c, g) ==
  /\ \A i \in DOMAIN c.entities : i \in DOMAIN g.entities /\ c.entities[i] = g.entities[i]
  /\ c.instance_baseline \in {0, Baseline(g)}
  /\ Cache(c, g)

\* Nothing of the entities is known yet.
Warm(c, g) ==
  /\ DOMAIN c.entities = {} /\ c.baseline_entity = Missing
  /\ c.instance_baseline \in {0, Baseline(g)}

\* A full packet finds the context behind, if not where it should be.
LEMMA BehindFacts ==
  ASSUME NEW c, NEW g
  PROVE  /\ Tracks(c, g) => Behind(c, g)
         /\ Warm(c, g) => Behind(c, g)
BY DEF Tracks, Warm, Behind, Cache

\* What an entry of the entity data leaves alone.
LEMMA EntryKeeps ==
  ASSUME NEW c \in Contexts, NEW e \in Entries, NEW d, d = AfterEntry(c, e)
  PROVE  /\ SameSetup(c, d) /\ d.string_tables = c.string_tables
         /\ d.instance_baseline = c.instance_baseline
<1> DEFINE Kept(x) == /\ SameSetup(c, x) /\ x.string_tables = c.string_tables
                      /\ x.instance_baseline = c.instance_baseline
<1>1. Kept(AfterCreate(c, e))
  <2> DEFINE f == [i \in DOMAIN c.entities \cup {e.index} |->
                     IF i = e.index THEN Created(c, e) ELSE c.entities[i]]
             b == Cached(c)
  <2>1. AfterCreate(c, e) = [c EXCEPT !.baseline_entity = b, !.entities = f]  BY DEF AfterCreate
  <2> HIDE DEF f, b
  <2> QED  BY <2>1 DEF Contexts, SameSetup
<1>2. Kept(AfterUpdate(c, e))
  <2> DEFINE f == [i \in DOMAIN c.entities |->
                     IF i = e.index THEN [c.entities[i] EXCEPT !.state = e.state] ELSE c.entities[i]]
  <2>1. AfterUpdate(c, e) = [c EXCEPT !.entities = f]  BY DEF AfterUpdate
  <2> HIDE DEF f
  <2> QED  BY <2>1 DEF Contexts, SameSetup
<1>3. Kept(AfterGone(c, e))
  <2> DEFINE f == [i \in DOMAIN c.entities \ {e.index} |-> c.entities[i]]
  <2>1. AfterGone(c, e) = [c EXCEPT !.entities = f]  BY DEF AfterGone
  <2> HIDE DEF f
  <2> QED  BY <2>1 DEF Contexts, SameSetup
<1>4. Kept(c)  BY DEF SameSetup
<1>5. e.delta \in {"CREATE", "UPDATE", "DELETE", "LEAVE"}  BY DEF Entries
<1> HIDE DEF Kept
<1>6. Kept(d)  BY <1>1, <1>2, <1>3, <1>4, <1>5 DEF AfterEntry
<1> QED  BY <1>6 DEF Kept

\* The entities with one of them created, updated or gone.
CreatedIn(f, e, x) == [i \in DOMAIN f \cup {e.index} |-> IF i = e.index THEN x ELSE f[i]]
UpdatedIn(f, e) ==
  [i \in DOMAIN f |-> IF i = e.index THEN [f[i] EXCEPT !.state = e.state] ELSE f[i]]
GoneIn(f, e) == [i \in DOMAIN f \ {e.index} |-> f[i]]

\* The entities and the cached baseline after an entry.
LEMMA EntryIs ==
  ASSUME NEW c \in Contexts, NEW e \in Entries, NEW d, d = AfterEntry(c, e)
  PROVE  /\ e.delta = "CREATE" =>
              /\ d.baseline_entity = Cached(c)
              /\ d.entities = CreatedIn(c.entities, e, Created(c, e))
         /\ e.delta = "UPDATE" /\ e.index \in DOMAIN c.entities =>
              d.baseline_entity = c.baseline_entity /\ d.entities = UpdatedIn(c.entities, e)
         /\ e.delta \in {"DELETE", "LEAVE"} /\ e.index \in DOMAIN c.entities =>
              d.baseline_entity = c.baseline_entity /\ d.entities = GoneIn(c.entities, e)
<1>1. ASSUME e.delta = "CREATE"
      PROVE  /\ d.baseline_entity = Cached(c)
             /\ d.entities = CreatedIn(c.entities, e, Created(c, e))
  <2> DEFINE f == CreatedIn(c.entities, e, Created(c, e))
             b == Cached(c)
  <2>1. d = [c EXCEPT !.baseline_entity = b, !.entities = f]
    BY <1>1 DEF AfterCreate, AfterEntry, CreatedIn
  <2> HIDE DEF f, b
  <2>2. d.baseline_entity = b /\ d.entities = f  BY <2>1 DEF Contexts
  <2> QED  BY <2>2 DEF f, b
<1>2. ASSUME e.delta = "UPDATE", e.index \in DOMAIN c.entities
      PROVE  d.baseline_entity = c.baseline_entity /\ d.entities = UpdatedIn(c.entities, e)
  <2> DEFINE f == UpdatedIn(c.entities, e)
  <2>1. d = [c EXCEPT !.entities = f]  BY <1>2 DEF AfterUpdate, AfterEntry, UpdatedIn
  <2> HIDE DEF f
  <2>2. d.baseline_entity = c.baseline_entity /\ d.entities = f  BY <2>1 DEF Contexts
  <2> QED  BY <2>2 DEF f
<1>3. ASSUME e.delta \in {"DELETE", "LEAVE"}, e.index \in DOMAIN c.entities
      PROVE  d.baseline_entity = c.baseline_entity /\ d.entities = GoneIn(c.entities, e)
  <2> DEFINE f == GoneIn(c.entities, e)
  <2>1. d = [c EXCEPT !.entities = f]  BY <1>3 DEF AfterGone, AfterEntry, GoneIn
  <2> HIDE DEF f
  <2>2. d.baseline_entity = c.baseline_entity /\ d.entities = f  BY <2>1 DEF Contexts
  <2> QED  BY <2>2 DEF f
<1> QED  BY <1>1, <1>2, <1>3

\* What the recorder did to the game, in the same terms.
LEMMA EntityChangeIs ==
  ASSUME NEW g, NEW e, NEW h, EntityChange(g, e, h)
  PROVE  /\ h.tables = g.tables /\ Baseline(h) = Baseline(g)
         /\ \/ /\ e.delta = "CREATE" /\ e.base = Missing /\ Baseline(g) # 0
               /\ h.entities = CreatedIn(g.entities, e, [base |-> Baseline(g), state |-> e.state])
            \/ /\ e.delta = "UPDATE" /\ e.index \in DOMAIN g.entities
               /\ h.entities = UpdatedIn(g.entities, e)
            \/ /\ e.delta \in {"DELETE", "LEAVE"} /\ e.index \in DOMAIN g.entities
               /\ h.entities = GoneIn(g.entities, e)
BY DEF EntityChange, Baseline, CreatedIn, UpdatedIn, GoneIn

\* An entry changes the context as its sender changed the game.
LEMMA EntryTracks ==
  ASSUME NEW c \in Contexts, NEW e \in Entries, NEW d, d = AfterEntry(c, e),
         NEW g, NEW h, Tracks(c, g), EntityChange(g, e, h)
  PROVE  Tracks(d, h)
<1>1. d.string_tables = c.string_tables /\ d.instance_baseline = c.instance_baseline
  BY EntryKeeps
<1>2. h.tables = g.tables /\ Baseline(h) = Baseline(g)  BY EntityChangeIs
<1>3. c.entities = g.entities /\ c.instance_baseline = Baseline(g) /\ Cache(c, g) /\ c.string_tables = g.tables
  BY DEF Tracks
<1>4. CASE /\ e.delta = "CREATE" /\ e.base = Missing /\ Baseline(g) # 0
           /\ h.entities = CreatedIn(g.entities, e, [base |-> Baseline(g), state |-> e.state])
  <2>1. Cached(c) = Baseline(g)  BY <1>3 DEF Cached, Cache
  <2>2. Created(c, e) = [base |-> Baseline(g), state |-> e.state]  BY <1>4, <2>1 DEF Created
  <2>3. d.baseline_entity = Cached(c) /\ d.entities = CreatedIn(c.entities, e, Created(c, e))
    BY <1>4, EntryIs
  <2>4. d.entities = h.entities  BY <1>3, <1>4, <2>2, <2>3
  <2> QED  BY <1>1, <1>2, <1>3, <1>4, <2>1, <2>3, <2>4 DEF Tracks, Cache
<1>5. CASE /\ e.delta = "UPDATE" /\ e.index \in DOMAIN g.entities
           /\ h.entities = UpdatedIn(g.entities, e)
  <2>1. d.baseline_entity = c.baseline_entity /\ d.entities = UpdatedIn(c.entities, e)
    BY <1>3, <1>5, EntryIs
  <2>2. d.entities = h.entities  BY <1>3, <1>5, <2>1
  <2> QED  BY <1>1, <1>2, <1>3, <2>1, <2>2 DEF Tracks, Cache
<1>6. CASE /\ e.delta \in {"DELETE", "LEAVE"} /\ e.index \in DOMAIN g.entities
           /\ h.entities = GoneIn(g.entities, e)
  <2>1. d.baseline_entity = c.baseline_entity /\ d.entities = GoneIn(c.entities, e)
    BY <1>3, <1>6, EntryIs
  <2>2. d.entities = h.entities  BY <1>3, <1>6, <2>1
  <2> QED  BY <1>1, <1>2, <1>3, <2>1, <2>2 DEF Tracks, Cache
<1> QED  BY <1>4, <1>5, <1>6, EntityChangeIs

\* The entities that a full packet restates, created one by one.
LEMMA RestatedFacts ==
  ASSUME NEW g \in Games, DOMAIN g.entities # {} => Baseline(g) # 0,
         NEW entries \in Seq(Entries), Restates(entries, g.entities),
         NEW c, \A i \in 0..Len(entries) : c[i] \in Contexts,
         \A i \in 1..Len(entries) : c[i] = AfterEntry(c[i - 1], entries[i]),
         Behind(c[0], g), c[0].instance_baseline = Baseline(g)
  PROVE  LET d == c[Len(entries)]
         IN d.entities = g.entities /\ d.instance_baseline = Baseline(g) /\ Cache(d, g)
            /\ SameSetup(c[0], d) /\ d.string_tables = c[0].string_tables
<1> DEFINE N == Len(entries)
           b == c[0]
           Good(i) == /\ \A j \in DOMAIN c[i].entities :
                           j \in DOMAIN g.entities /\ c[i].entities[j] = g.entities[j]
                      /\ \A m \in 1..i : entries[m].index \in DOMAIN c[i].entities
                      /\ c[i].instance_baseline = Baseline(g) /\ Cache(c[i], g)
                      /\ SameSetup(b, c[i]) /\ c[i].string_tables = b.string_tables
           S == {i \in Nat : i <= N => Good(i)}
<1>1. N \in Nat /\ DOMAIN entries = 1..N /\ \A m \in 1..N : entries[m] \in Entries
  BY LenProperties, ElementOfSeq
<1>2. 0 \in S  BY DEF Behind, SameSetup
<1>3. ASSUME NEW n \in Nat, n \in S PROVE n + 1 \in S
  <2> SUFFICES ASSUME n + 1 <= N PROVE Good(n + 1)  OBVIOUS
  <2> DEFINE k == n + 1
             x == c[n]
             y == c[k]
             e == entries[k]
  <2>1. k \in 1..N /\ k - 1 = n /\ n \in 0..N /\ k \in 0..N /\ n <= N  BY <1>1
  <2>2. Good(n)  BY <1>3, <2>1
  <2> HIDE DEF N, S
  <2>3. x \in Contexts /\ y \in Contexts /\ e \in Entries /\ y = AfterEntry(x, e)  BY <1>1, <2>1
  <2>4. /\ e.delta = "CREATE" /\ e.index \in DOMAIN g.entities
        /\ e.base = g.entities[e.index].base /\ e.state = g.entities[e.index].state
    BY <1>1, <2>1 DEF Restates
  <2>5. g.entities[e.index] \in Entity
    <3>1. g.entities \in Partial(Indexes, Entity)  BY DEF Games
    <3> QED  BY <2>4, <3>1, PartialFacts
  <2>6. \A m \in 1..k : m \in 1..n \/ m = k  BY <2>1
  <2>7. Baseline(g) # 0  BY <2>4
  <2> HIDE DEF k
  <2>8. /\ \A j \in DOMAIN x.entities : j \in DOMAIN g.entities /\ x.entities[j] = g.entities[j]
        /\ \A m \in 1..n : entries[m].index \in DOMAIN x.entities
        /\ x.instance_baseline = Baseline(g) /\ Cache(x, g)
        /\ SameSetup(b, x) /\ x.string_tables = b.string_tables
    BY <2>2
  <2> HIDE DEF x, y, e, b
  <2>9. Created(x, e) = g.entities[e.index]
    <3>1. e.base # Missing  BY <2>4, <2>5, IndexFacts DEF Entity, Versions
    <3> QED  BY <2>4, <2>5, <3>1 DEF Created, Entity
  <2>10. y.baseline_entity = Cached(x) /\ y.entities = CreatedIn(x.entities, e, Created(x, e))
    BY <2>3, <2>4, EntryIs
  <2>11. SameSetup(x, y) /\ y.string_tables = x.string_tables
         /\ y.instance_baseline = x.instance_baseline
    BY <2>3, EntryKeeps
  <2>12. Cache(y, g)  BY <2>7, <2>8, <2>10 DEF Cache, Cached
  <2>13. SameSetup(b, y) /\ y.string_tables = b.string_tables  BY <2>8, <2>11 DEF SameSetup
  <2>14. \A j \in DOMAIN y.entities : j \in DOMAIN g.entities /\ y.entities[j] = g.entities[j]
    BY <2>4, <2>8, <2>9, <2>10 DEF CreatedIn
  <2>15. \A m \in 1..k : entries[m].index \in DOMAIN y.entities
    <3>1. DOMAIN y.entities = DOMAIN x.entities \cup {e.index}  BY <2>10 DEF CreatedIn
    <3> QED  BY <2>6, <2>8, <3>1 DEF e
  <2> QED  BY <2>8, <2>11, <2>12, <2>13, <2>14, <2>15 DEF y, k, b
<1> HIDE DEF S
<1>4. \A n \in Nat : n \in S  BY <1>2, <1>3, NatSetInduction
<1>5. Good(N)  BY <1>1, <1>4 DEF S
<1> DEFINE d == c[N]
<1>6. d \in Contexts /\ N \in 0..N  BY <1>1
<1>7. DOMAIN d.entities = DOMAIN g.entities
  <2>1. \A i \in DOMAIN g.entities : \E m \in 1..N : entries[m].index = i
    BY <1>1 DEF Restates
  <2> QED  BY <1>5, <2>1
<1>8. d.entities = g.entities
  <2>1. d.entities \in Partial(Indexes, Entity) /\ g.entities \in Partial(Indexes, Entity)
    BY <1>6 DEF Contexts, Games
  <2>2. /\ d.entities = [i \in DOMAIN d.entities |-> d.entities[i]]
        /\ g.entities = [i \in DOMAIN g.entities |-> g.entities[i]]
    BY <2>1, PartialFacts
  <2>3. \A i \in DOMAIN d.entities : d.entities[i] = g.entities[i]  BY <1>5
  <2> QED  BY <1>7, <2>2, <2>3
<1> QED  BY <1>5, <1>8

\* The tables with another version of one, and with the versions of a snapshot.
VersionIn(f, t, v) == [u \in DOMAIN f \cup {t} |-> IF u = t THEN v ELSE f[u]]
SnapshotIn(f, tables) == [t \in DOMAIN f |-> IF t \in DOMAIN tables THEN tables[t] ELSE f[t]]

\* What the tables do not change.
SameEntities(c, d) ==
  /\ d.entities = c.entities /\ d.baseline_entity = c.baseline_entity
  /\ d.full_packet_interval = c.full_packet_interval
  /\ d.serializers = c.serializers /\ d.entity_classes = c.entity_classes

\* The context after a refresh of the baseline, field by field.
LEMMA BaselineIs ==
  ASSUME NEW c \in Contexts, INSTANCE_BASELINE_TABLE_NAME \in DOMAIN c.string_tables,
         NEW d, d = UpdateBaseline(c)
  PROVE  /\ SameEntities(c, d) /\ d.string_tables = c.string_tables
         /\ d.instance_baseline = IF c.string_tables[INSTANCE_BASELINE_TABLE_NAME] = 0
                                  THEN c.instance_baseline
                                  ELSE c.string_tables[INSTANCE_BASELINE_TABLE_NAME]
<1> DEFINE v == c.string_tables[INSTANCE_BASELINE_TABLE_NAME]
           b == IF v = 0 THEN c.instance_baseline ELSE v
<1>1. d = IF v = 0 THEN c ELSE [c EXCEPT !.instance_baseline = v]  BY DEF UpdateBaseline
<1> HIDE DEF v
<1>2. SameEntities(c, d) /\ d.string_tables = c.string_tables /\ d.instance_baseline = b
  BY <1>1 DEF Contexts, SameEntities
<1> QED  BY <1>2 DEF v, b

\* The context after a table message, field by field.
LEMMA TableIs ==
  ASSUME NEW c \in Contexts, NEW m \in TableMessages, NEW d, d = AfterTable(c, m)
  PROVE  /\ SameEntities(c, d) /\ d.string_tables = VersionIn(c.string_tables, m.table, m.version)
         /\ d.instance_baseline =
              IF m.table = INSTANCE_BASELINE_TABLE_NAME /\ c.entity_classes /\ m.version # 0
              THEN m.version ELSE c.instance_baseline
<1> DEFINE t == m.table
           v == m.version
           f == VersionIn(c.string_tables, t, v)
           x == WithVersion(c, t, v)
<1>1. t \in Tables /\ v \in Versions  BY DEF TableMessages
<1>2. d = IF t = INSTANCE_BASELINE_TABLE_NAME /\ c.entity_classes THEN UpdateBaseline(x) ELSE x
  BY DEF AfterTable
<1>3. f[t] = v /\ t \in DOMAIN f  BY DEF VersionIn
<1>4. x = [c EXCEPT !.string_tables = f]  BY DEF WithVersion, VersionIn
<1> HIDE DEF t, v, f
<1>5. x \in Contexts  BY <1>1, VersionFacts
<1> HIDE DEF x
<1>6. SameEntities(c, x) /\ x.string_tables = f /\ x.instance_baseline = c.instance_baseline
  BY <1>4 DEF Contexts, SameEntities
<1>7. CASE t = INSTANCE_BASELINE_TABLE_NAME /\ c.entity_classes
  <2>1. d = UpdateBaseline(x)  BY <1>2, <1>7
  <2>2. INSTANCE_BASELINE_TABLE_NAME \in DOMAIN x.string_tables  BY <1>3, <1>6, <1>7
  <2>3. /\ SameEntities(x, d) /\ d.string_tables = x.string_tables
        /\ d.instance_baseline = IF x.string_tables[INSTANCE_BASELINE_TABLE_NAME] = 0
                                 THEN x.instance_baseline
                                 ELSE x.string_tables[INSTANCE_BASELINE_TABLE_NAME]
    BY <1>5, <2>1, <2>2, BaselineIs
  <2>4. x.string_tables[INSTANCE_BASELINE_TABLE_NAME] = v  BY <1>3, <1>6, <1>7
  <2> QED  BY <1>6, <1>7, <2>3, <2>4 DEF SameEntities, t, v, f
<1>8. CASE ~ (t = INSTANCE_BASELINE_TABLE_NAME /\ c.entity_classes)
  BY <1>2, <1>6, <1>8 DEF t, v, f
<1> QED  BY <1>7, <1>8

\* The context after the snapshot of a full packet, field by field.
LEMMA SnapshotIs ==
  ASSUME NEW c \in Contexts, NEW tables \in Partial(Tables, Versions),
         INSTANCE_BASELINE_TABLE_NAME \in DOMAIN c.string_tables,
         NEW d, d = AfterSnapshot(c, tables)
  PROVE  /\ SameEntities(c, d) /\ d.string_tables = SnapshotIn(c.string_tables, tables)
         /\ d.instance_baseline = IF d.string_tables[INSTANCE_BASELINE_TABLE_NAME] = 0
                                  THEN c.instance_baseline
                                  ELSE d.string_tables[INSTANCE_BASELINE_TABLE_NAME]
<1> DEFINE f == SnapshotIn(c.string_tables, tables)
           x == WithTables(c, tables)
<1>1. DOMAIN f = DOMAIN c.string_tables  BY DEF SnapshotIn
<1>2. x = [c EXCEPT !.string_tables = f]  BY DEF WithTables, SnapshotIn
<1>3. d = Refreshed(x)  BY DEF AfterSnapshot
<1> HIDE DEF f
<1>4. x \in Contexts  BY WithTablesFacts
<1> HIDE DEF x
<1>5. SameEntities(c, x) /\ x.string_tables = f /\ x.instance_baseline = c.instance_baseline
  BY <1>2 DEF Contexts, SameEntities
<1>6. INSTANCE_BASELINE_TABLE_NAME \in DOMAIN x.string_tables  BY <1>1, <1>5
<1>7. d = UpdateBaseline(x)  BY <1>3, <1>6 DEF Refreshed
<1>8. /\ SameEntities(x, d) /\ d.string_tables = x.string_tables
      /\ d.instance_baseline = IF x.string_tables[INSTANCE_BASELINE_TABLE_NAME] = 0
                               THEN x.instance_baseline
                               ELSE x.string_tables[INSTANCE_BASELINE_TABLE_NAME]
  BY <1>4, <1>6, <1>7, BaselineIs
<1> QED  BY <1>5, <1>8 DEF SameEntities, f

\* An update of a table changes the context as its sender changed the game.
LEMMA TableTracks ==
  ASSUME NEW c \in Contexts, c.entity_classes, ~BaselineMayChange,
         NEW m \in TableMessages, NEW d, d = AfterTable(c, m),
         NEW g \in Games, NEW h, TableChange(g, m, h), Tracks(c, g)
  PROVE  Tracks(d, h)
<1> DEFINE B == INSTANCE_BASELINE_TABLE_NAME
<1>0. g.tables \in [Tables -> Versions] /\ B \in Tables /\ Versions \subseteq Nat /\ m.table \in Tables
  BY DemoAssumption DEF Games, Tables, Versions, TableMessages
<1>1. /\ h.entities = g.entities /\ h.tables = [g.tables EXCEPT ![m.table] = m.version]
      /\ m.version = g.tables[m.table] + 1 /\ (m.table = B => g.tables[m.table] = 0)
  BY DEF TableChange
<1>2. /\ c.string_tables = g.tables /\ c.entities = g.entities
      /\ c.instance_baseline = Baseline(g) /\ Cache(c, g)
  BY DEF Tracks
<1>3. /\ SameEntities(c, d) /\ d.string_tables = VersionIn(c.string_tables, m.table, m.version)
      /\ d.instance_baseline =
           IF m.table = B /\ c.entity_classes /\ m.version # 0 THEN m.version ELSE c.instance_baseline
  BY TableIs
<1>4. d.string_tables = h.tables
  <2>1. DOMAIN g.tables \cup {m.table} = DOMAIN g.tables /\ DOMAIN g.tables = Tables  BY <1>0
  <2>2. VersionIn(g.tables, m.table, m.version) = [g.tables EXCEPT ![m.table] = m.version]
    BY <1>0, <2>1 DEF VersionIn
  <2> QED  BY <1>1, <1>2, <1>3, <2>2
<1>5. CASE m.table = B
  <2>1. Baseline(g) = 0 /\ m.version = 1 /\ Baseline(h) = 1  BY <1>0, <1>1, <1>5 DEF Baseline
  <2>2. d.instance_baseline = Baseline(h)  BY <1>3, <1>5, <2>1
  <2>3. Cache(d, h)  BY <1>2, <1>3, <2>1 DEF Cache, SameEntities
  <2> QED  BY <1>1, <1>2, <1>3, <1>4, <2>2, <2>3 DEF Tracks, SameEntities
<1>6. CASE m.table # B
  <2>1. Baseline(h) = Baseline(g)  BY <1>0, <1>1, <1>6 DEF Baseline
  <2>2. d.instance_baseline = Baseline(h)  BY <1>2, <1>3, <1>6, <2>1
  <2>3. Cache(d, h)  BY <1>2, <1>3, <2>1 DEF Cache, SameEntities
  <2> QED  BY <1>1, <1>2, <1>3, <1>4, <2>2, <2>3 DEF Tracks, SameEntities
<1> QED  BY <1>5, <1>6

\* A snapshot makes tables and baseline those of the game.
LEMMA SnapshotTracks ==
  ASSUME NEW c \in Contexts, DOMAIN c.string_tables = Tables,
         NEW g \in Games, NEW d, d = AfterSnapshot(c, g.tables)
  PROVE  /\ SameSetup(c, d) /\ SameEntities(c, d) /\ d.string_tables = g.tables
         /\ c.instance_baseline \in {0, Baseline(g)} => d.instance_baseline = Baseline(g)
<1> DEFINE B == INSTANCE_BASELINE_TABLE_NAME
<1>0. g.tables \in [Tables -> Versions] /\ B \in Tables  BY DEF Games, Tables
<1>1. g.tables \in Partial(Tables, Versions)  BY <1>0 DEF Partial
<1>2. /\ SameEntities(c, d) /\ d.string_tables = SnapshotIn(c.string_tables, g.tables)
      /\ d.instance_baseline = IF d.string_tables[B] = 0 THEN c.instance_baseline ELSE d.string_tables[B]
  BY <1>0, <1>1, SnapshotIs
<1>3. SnapshotIn(c.string_tables, g.tables) = g.tables  BY <1>0 DEF SnapshotIn
<1>4. d.string_tables[B] = Baseline(g)  BY <1>2, <1>3 DEF Baseline
<1> QED  BY <1>0, <1>2, <1>3, <1>4 DEF SameSetup, SameEntities

\* What is set up stays so.
LEMMA ReadyStays ==
  ASSUME NEW c, NEW d, SameSetup(c, d), NEW k \in Nat, k >= 4, NEW n \in Nat, n >= 4, Ready(c, k)
  PROVE  Ready(d, n)
BY DEF Ready, SameSetup

------------------------------------------------------------------------------
(* What a command makes of the context.                                    *)

\* Nothing but the visitor fails in two handlers, if it does not in each.
LEMMA HoldsTransitive ==
  ASSUME NEW p, NEW q, NEW r, Handles(p, q), Holds(p, q), Handles(q, r), Holds(q, r)
  PROVE  Holds(p, r)
BY DEF Holds, Handles, Same

\* One message of a packet is shown and matched: what the match keeps to, the message does.
LEMMA ShownFirst ==
  ASSUME NEW p \in Parsers, NEW r, Handles(p, r), Holds(p, r), r.ctx = p.ctx,
         r.result = "error" \/ (r.result = "ok" /\ p.result = "ok"),
         NEW q, r.result = "error" => q = r,
         r.result = "ok" => Handles(r, q) /\ Holds(r, q)
  PROVE  /\ Handles(p, q) /\ Holds(p, q) /\ r \in Parsers
         /\ r.skip_entity_packets = p.skip_entity_packets
BY HandlesTransitive, HoldsTransitive DEF Handles, Same

\* The setup stays in two steps, if it does in each.
LEMMA SetupTransitive ==
  ASSUME NEW c, NEW d, NEW e, SameSetup(c, d), SameSetup(d, e)
  PROVE  SameSetup(c, e)
BY DEF SameSetup

\* Entries leave the setup alone.
LEMMA EntriesKeep ==
  ASSUME NEW N \in Nat, NEW entries, \A i \in 1..N : entries[i] \in Entries,
         NEW c, \A i \in 0..N : c[i] \in Contexts,
         \A i \in 1..N : c[i] = AfterEntry(c[i - 1], entries[i])
  PROVE  SameSetup(c[0], c[N])
<1> DEFINE S == {i \in Nat : SameSetup(c[0], c[i])}
<1>1. 0 \in S  BY DEF SameSetup
<1>2. ASSUME NEW k \in 0 + 1..N, k - 1 \in S PROVE k \in S
  <2>1. k \in Nat /\ k \in 1..N /\ k - 1 \in 0..N  OBVIOUS
  <2> DEFINE x == c[k - 1]
             y == c[k]
             e == entries[k]
  <2>2. x \in Contexts /\ e \in Entries /\ y = AfterEntry(x, e) /\ SameSetup(c[0], x)
    BY <1>2, <2>1
  <2> HIDE DEF x, y, e
  <2>3. SameSetup(x, y)  BY <2>2, EntryKeeps
  <2>4. SameSetup(c[0], y)  BY <2>2, <2>3, SetupTransitive
  <2> QED  BY <2>1, <2>4 DEF y
<1> HIDE DEF S
<1>3. 0 \in Nat /\ N \in 0..N  OBVIOUS
<1>4. \A k \in 0..N : k \in S  BY <1>1, <1>2, <1>3, UpInduction
<1> QED  BY <1>3, <1>4 DEF S

\* The parser has what entity data needs.
Decodes(p) == p.result = "ok" /\ ~p.skip_entity_packets /\ p.ctx.entity_classes /\ p.ctx.serializers

\* A table message that finds its table, or makes it, fails only with the visitor.
LEMMA TableHolds ==
  ASSUME NEW p \in Parsers, p.result = "ok", NEW m \in TableMessages,
         m.msg = "SvcCreateStringTable" \/ m.table \in DOMAIN p.ctx.string_tables,
         NEW q, q = HandleMessage(p, m)
  PROVE  Handles(p, q) /\ Holds(p, q) /\ (q.result = "ok" => q.ctx = AfterTable(p.ctx, m))
<1>1. m \in Messages  BY DEF Messages
<1>2. PICK r \in Parsers : /\ q = MatchMessage(r, m) /\ Handles(p, r) /\ Holds(p, r)
                          /\ r.ctx = p.ctx /\ (r.result = "error" => q = r)
  BY <1>1, MessageIs
<1>3. r.result \in {"ok", "error"}  BY DEF Parsers
<1>4. r.result = "ok" => Handles(r, q) /\ q.result = "ok" /\ q.ctx = AfterTable(r.ctx, m)
  BY <1>2, TableFacts
<1>5. r.result = "ok" => Holds(r, q)  BY <1>4 DEF Holds
<1>6. Handles(p, q) /\ Holds(p, q)  BY <1>2, <1>3, <1>4, <1>5, ShownFirst
<1> QED  BY <1>2, <1>3, <1>4, <1>6

\* The message of the server's ticks fails only with the visitor.
LEMMA InfoHolds ==
  ASSUME NEW p \in Parsers, p.result = "ok", NEW m \in InfoMessages,
         NEW q, q = HandleMessage(p, m)
  PROVE  /\ Handles(p, q) /\ Holds(p, q)
         /\ q.result = "ok" =>
              q.ctx = [p.ctx EXCEPT !.full_packet_interval = DEFAULT_FULL_PACKET_INTERVAL * m.ratio]
<1> DEFINE After(c) == [c EXCEPT !.full_packet_interval = DEFAULT_FULL_PACKET_INTERVAL * m.ratio]
<1>1. m \in Messages  BY DEF Messages
<1>2. PICK r \in Parsers : /\ q = MatchMessage(r, m) /\ Handles(p, r) /\ Holds(p, r)
                          /\ r.ctx = p.ctx /\ (r.result = "error" => q = r)
  BY <1>1, MessageIs
<1>3. r.result \in {"ok", "error"}  BY DEF Parsers
<1>4. r.result = "ok" => Handles(r, q) /\ q.result = "ok" /\ q.ctx = After(r.ctx)
  BY <1>2, InfoFacts
<1> HIDE DEF After
<1>5. r.result = "ok" => Holds(r, q)  BY <1>4 DEF Holds
<1>6. Handles(p, q) /\ Holds(p, q)  BY <1>2, <1>3, <1>4, <1>5, ShownFirst
<1>7. q.result = "ok" => q.ctx = After(p.ctx)  BY <1>2, <1>3, <1>4
<1> QED  BY <1>6, <1>7 DEF After

\* After an error the rest of a packet is left.
LEMMA LeftOut ==
  ASSUME NEW p, p.result = "error", NEW m
  PROVE  HandleMessage(p, m) = p
BY DEF HandleMessage

\* A packet of one entity message fails only with the visitor.
LEMMA EntityPacketHolds ==
  ASSUME NEW p \in Parsers, Decodes(p), NEW m \in EntityMessages, NEW s, s = <<m>>,
         NEW q, q = handle_cmd_packet(p, s)
  PROVE  /\ Handles(p, q) /\ Holds(p, q)
         /\ q.result = "ok" => SameSetup(p.ctx, q.ctx)
         /\ q.result = "ok" => \E c : Passes(c, p.ctx, m.entries, q.ctx)
<1>1. DOMAIN s = 1..1 /\ s[1] = m  OBVIOUS
<1>2. q = HandleMessage(p, m)
  <2>1. q = HandleMessage(p, s[1])  BY <1>1, OneMessage
  <2> QED  BY <1>1, <2>1
<1> DEFINE entries == m.entries
<1>0. p.result = "ok" /\ m \in Messages  BY DEF Decodes, Messages
<1>3. PICK r \in Parsers : /\ q = MatchMessage(r, m) /\ Handles(p, r) /\ Holds(p, r)
                          /\ r.ctx = p.ctx /\ (r.result = "error" => q = r)
  BY <1>0, <1>2, MessageIs
<1>4. entries \in Seq(Entries)  BY DEF EntityMessages
<1>a. r.result \in {"ok", "error"} /\ r.skip_entity_packets = p.skip_entity_packets
  BY <1>3 DEF Parsers, Handles, Same
<1>b. r.result = "ok" => q = AllEntries(r, entries)
  BY <1>3, <1>a, EntityMessageFacts DEF Decodes
<1> HIDE DEF entries
<1>c. r.result = "ok" => /\ Handles(r, q) /\ Holds(r, q)
                         /\ q.result = "ok" => \E c : Passes(c, r.ctx, entries, q.ctx)
  BY <1>b, <1>4, EntriesFacts
<1>d. Handles(p, q) /\ Holds(p, q)  BY <1>0, <1>3, <1>a, <1>c, ShownFirst
<1>e. r.result = "error" => q.result = "error"  BY <1>3
<1>f. q.result = "ok" => \E c : Passes(c, p.ctx, entries, q.ctx)  BY <1>3, <1>a, <1>c, <1>e
<1>5. /\ Handles(p, q) /\ Holds(p, q)
      /\ q.result = "ok" => \E c : Passes(c, p.ctx, entries, q.ctx)
  BY <1>d, <1>f
<1>6. ASSUME q.result = "ok" PROVE SameSetup(p.ctx, q.ctx)
  <2> DEFINE N == Len(entries)
  <2>0. PICK c : Passes(c, p.ctx, entries, q.ctx)  BY <1>5, <1>6
  <2>1. /\ c[0] = p.ctx /\ q.ctx = c[N]
        /\ \A i \in 0..N : c[i] \in Contexts
        /\ \A i \in 1..N : c[i] = AfterEntry(c[i - 1], entries[i])
    BY <2>0 DEF Passes
  <2>2. N \in Nat /\ \A i \in 1..N : entries[i] \in Entries  BY <1>4, LenProperties, ElementOfSeq
  <2> HIDE DEF N
  <2>3. SameSetup(c[0], c[N])  BY <2>1, <2>2, EntriesKeep
  <2> QED  BY <2>1, <2>3
<1> QED  BY <1>5, <1>6 DEF entries

\* A full packet whose entities are read makes of a context that is behind the game's.
LEMMA FullPacketTracks ==
  ASSUME NEW p \in Parsers, Decodes(p), DOMAIN p.ctx.string_tables = Tables,
         NEW g \in Games, DOMAIN g.entities # {} => Baseline(g) # 0,
         NEW c \in Commands, NEW h, Change(g, c, h), c.cmd = "DemFullPacket",
         NEW q, q = handle_cmd_full_packet(p, c, TRUE)
  PROVE  /\ Handles(p, q) /\ Holds(p, q)
         /\ q.result = "ok" => SameSetup(p.ctx, q.ctx)
         /\ q.result = "ok" /\ Behind(p.ctx, g) => Tracks(q.ctx, h)
<1> DEFINE m == c.messages[1]
           s == c.messages
           r == handle_cmd_string_tables(p, c.tables)
           d == AfterSnapshot(p.ctx, g.tables)
<1>1. /\ c.messages = <<m>> /\ c.tables = g.tables /\ m \in EntityMessages
      /\ Restates(m.entries, g.entities) /\ h.tables = g.tables /\ h.entities = g.entities
  BY DEF Change
<1>2. c.tables \in Partial(Tables, Versions) /\ p.ctx \in Contexts  BY DEF Commands, Parsers
<1>3. Handles(p, r) /\ r.result = "ok" /\ r.ctx = d
  BY <1>1, <1>2, SnapshotFacts DEF Decodes
<1>4. q = IF r.result = "error" THEN r ELSE handle_cmd_packet(r, s)
  BY DEF handle_cmd_full_packet
<1>5. /\ SameSetup(p.ctx, d) /\ SameEntities(p.ctx, d) /\ d.string_tables = g.tables
      /\ p.ctx.instance_baseline \in {0, Baseline(g)} => d.instance_baseline = Baseline(g)
  BY <1>2, SnapshotTracks
<1> HIDE DEF m, s, r, d
<1>6. r \in Parsers /\ Decodes(r)  BY <1>3, <1>5 DEF Handles, Same, Decodes, SameSetup
<1>7. q = handle_cmd_packet(r, s) /\ s = <<m>>  BY <1>1, <1>3, <1>4 DEF s
<1>8. /\ Handles(r, q) /\ Holds(r, q)
      /\ q.result = "ok" => SameSetup(r.ctx, q.ctx)
      /\ q.result = "ok" => \E f : Passes(f, r.ctx, m.entries, q.ctx)
  BY <1>1, <1>6, <1>7, EntityPacketHolds
<1>9. Handles(p, q)  BY <1>3, <1>8, HandlesTransitive
<1>10. Holds(p, q)
  <2>1. Holds(p, r)  BY <1>3 DEF Holds, Decodes
  <2> QED  BY <1>3, <1>8, <2>1, HoldsTransitive
<1>11. q.result = "ok" => SameSetup(p.ctx, q.ctx)  BY <1>3, <1>5, <1>8, SetupTransitive
<1>12. ASSUME q.result = "ok", Behind(p.ctx, g) PROVE Tracks(q.ctx, h)
  <2> DEFINE entries == m.entries
             N == Len(entries)
  <2>0. PICK f : Passes(f, r.ctx, entries, q.ctx)  BY <1>8, <1>12
  <2>1. /\ f[0] = r.ctx /\ q.ctx = f[N]
        /\ \A i \in 0..N : f[i] \in Contexts
        /\ \A i \in 1..N : f[i] = AfterEntry(f[i - 1], entries[i])
    BY <2>0 DEF Passes
  <2>2. entries \in Seq(Entries) /\ Restates(entries, g.entities)  BY <1>1 DEF EntityMessages
  <2>3. d.instance_baseline = Baseline(g)  BY <1>5, <1>12 DEF Behind
  <2>4. Behind(d, g)  BY <1>5, <1>12, <2>3 DEF Behind, SameEntities, Cache
  <2>5. f[0] = d  BY <1>3, <2>1
  <2> DEFINE x == f[N]
  <2>6. x.entities = g.entities /\ x.instance_baseline = Baseline(g) /\ Cache(x, g)
        /\ x.string_tables = d.string_tables
    <3> HIDE DEF entries
    <3> QED  BY <2>1, <2>2, <2>3, <2>4, <2>5, RestatedFacts
  <2>7. q.ctx = x  BY <2>1
  <2> HIDE DEF x
  <2>8. Baseline(h) = Baseline(g)  BY <1>1 DEF Baseline
  <2> QED  BY <1>1, <1>5, <2>6, <2>7, <2>8 DEF Tracks, Cache
<1> QED  BY <1>9, <1>10, <1>11, <1>12

\* A full packet whose entities are left out does not fail, and brings no entity.
LEMMA FullPacketSkims ==
  ASSUME NEW p \in Parsers, p.result = "ok", p.ctx.entity_classes, DOMAIN p.ctx.string_tables = Tables,
         NEW g \in Games, NEW c \in Commands, NEW h, Change(g, c, h), c.cmd = "DemFullPacket",
         NEW with_packet, ~with_packet, NEW q, q = handle_cmd_full_packet(p, c, with_packet)
  PROVE  /\ Handles(p, q) /\ q.result = "ok" /\ SameSetup(p.ctx, q.ctx)
         /\ Warm(p.ctx, g) => Warm(q.ctx, h)
<1> DEFINE r == handle_cmd_string_tables(p, c.tables)
           d == AfterSnapshot(p.ctx, g.tables)
<1>1. c.tables = g.tables /\ h.tables = g.tables  BY DEF Change
<1>2. c.tables \in Partial(Tables, Versions) /\ p.ctx \in Contexts  BY DEF Commands, Parsers
<1>3. Handles(p, r) /\ r.result = "ok" /\ r.ctx = d
  BY <1>1, <1>2, SnapshotFacts
<1>4. q = r  BY DEF handle_cmd_full_packet
<1>5. /\ SameSetup(p.ctx, d) /\ SameEntities(p.ctx, d)
      /\ p.ctx.instance_baseline \in {0, Baseline(g)} => d.instance_baseline = Baseline(g)
  BY <1>2, SnapshotTracks
<1> HIDE DEF r, d
<1>6. Baseline(h) = Baseline(g)  BY <1>1 DEF Baseline
<1> QED  BY <1>3, <1>4, <1>5, <1>6 DEF Warm, SameEntities

\* A packet changes the context as its sender changed the game.
LEMMA PacketTracks ==
  ASSUME NEW p \in Parsers, Decodes(p), DOMAIN p.ctx.string_tables = Tables,
         NEW g \in Games, NEW c \in Commands, NEW h, Change(g, c, h), c.cmd = "DemPacket",
         NEW q, q = handle_cmd_packet(p, c.messages)
  PROVE  /\ Handles(p, q) /\ Holds(p, q)
         /\ q.result = "ok" => SameSetup(p.ctx, q.ctx)
         /\ q.result = "ok" /\ ~BaselineMayChange /\ Tracks(p.ctx, g) => Tracks(q.ctx, h)
<1> DEFINE m == c.messages[1]
           s == c.messages
<1>1. /\ s = <<m>>
      /\ \/ m \in TableMessages /\ TableChange(g, m, h)
         \/ /\ m \in EntityMessages
            /\ m.entries = <<m.entries[1]>> /\ m.entries[1] \in Entries
            /\ EntityChange(g, m.entries[1], h)
  BY DEF Change
<1>2. p.ctx \in Contexts  BY DEF Parsers
<1>3. q = handle_cmd_packet(p, s)  OBVIOUS
<1> HIDE DEF m, s
<1>4. CASE m \in TableMessages /\ TableChange(g, m, h)
  <2>1. DOMAIN s = 1..1 /\ s[1] = m  BY <1>1
  <2>2. q = HandleMessage(p, m)
    <3>1. q = HandleMessage(p, s[1])  BY <1>3, <2>1, OneMessage
    <3> QED  BY <2>1, <3>1
  <2>3. m.table \in DOMAIN p.ctx.string_tables  BY <1>4 DEF TableMessages
  <2> DEFINE d == AfterTable(p.ctx, m)
  <2>4. Handles(p, q) /\ Holds(p, q) /\ (q.result = "ok" => q.ctx = d)
    <3>1. p.result = "ok"  BY DEF Decodes
    <3>2. q = HandleMessage(p, m)  BY <2>2
    <3> HIDE DEF d
    <3> QED  BY <1>4, <2>3, <3>1, <3>2, TableHolds DEF d
  <2>5. SameEntities(p.ctx, d) /\ d.string_tables = VersionIn(p.ctx.string_tables, m.table, m.version)
    BY <1>2, <1>4, TableIs
  <2> HIDE DEF d
  <2>6. SameSetup(p.ctx, d)  BY <2>3, <2>5 DEF SameSetup, SameEntities, VersionIn
  <2>7. ASSUME ~BaselineMayChange, Tracks(p.ctx, g) PROVE Tracks(d, h)
    BY <1>2, <1>4, <2>7, TableTracks DEF d, Decodes
  <2> QED  BY <2>4, <2>6, <2>7
<1>5. CASE /\ m \in EntityMessages
           /\ m.entries = <<m.entries[1]>> /\ m.entries[1] \in Entries
           /\ EntityChange(g, m.entries[1], h)
  <2> DEFINE e == m.entries[1]
             N == Len(m.entries)
  <2>1. /\ Handles(p, q) /\ Holds(p, q)
        /\ q.result = "ok" => SameSetup(p.ctx, q.ctx)
        /\ q.result = "ok" => \E f : Passes(f, p.ctx, m.entries, q.ctx)
    BY <1>1, <1>3, <1>5, EntityPacketHolds
  <2>2. N = 1 /\ e \in Entries /\ EntityChange(g, e, h)  BY <1>5
  <2>3. q.result = "ok" => q.ctx = AfterEntry(p.ctx, e)
    <3> SUFFICES ASSUME q.result = "ok" PROVE q.ctx = AfterEntry(p.ctx, e)  OBVIOUS
    <3>0. PICK f : Passes(f, p.ctx, m.entries, q.ctx)  BY <2>1
    <3>1. /\ f[0] = p.ctx /\ q.ctx = f[N]
          /\ \A i \in 1..N : f[i] = AfterEntry(f[i - 1], m.entries[i])
      BY <3>0 DEF Passes
    <3>2. 1 \in 1..N /\ 1 - 1 = 0  BY <2>2
    <3>3. f[1] = AfterEntry(f[0], e)  BY <3>1, <3>2
    <3> QED  BY <2>2, <3>1, <3>3
  <2> HIDE DEF e, N
  <2>4. ASSUME q.result = "ok", Tracks(p.ctx, g) PROVE Tracks(q.ctx, h)
    BY <1>2, <2>2, <2>3, <2>4, EntryTracks
  <2> QED  BY <2>1, <2>4
<1> QED  BY <1>1, <1>4, <1>5

\* The context has nothing yet.
Fresh(c) == c.entities = <<>> /\ c.instance_baseline = 0 /\ c.baseline_entity = Missing

\* The context is that of the game behind command k.
Follows(c, k) == IF k = 0 THEN Fresh(c) ELSE Tracks(c, game[k])

\* The first command of the signon part sets up the tables, with no items in them.
LEMMA SetupMessages ==
  ASSUME NEW p \in Parsers, p.result = "ok", NEW s,
         s = << [msg |-> "SvcServerInfo", ratio |-> TickRatio],
                CreateStringTable("userinfo"),
                CreateStringTable(INSTANCE_BASELINE_TABLE_NAME) >>,
         NEW q, q = handle_cmd_packet(p, s)
  PROVE  /\ Handles(p, q) /\ Holds(p, q)
         /\ q.result = "ok" =>
              /\ q.ctx.entities = p.ctx.entities /\ q.ctx.baseline_entity = p.ctx.baseline_entity
              /\ q.ctx.instance_baseline = p.ctx.instance_baseline
              /\ q.ctx.string_tables = NewGame.tables
              /\ q.ctx.full_packet_interval = DEFAULT_FULL_PACKET_INTERVAL * TickRatio
<1> DEFINE i == [msg |-> "SvcServerInfo", ratio |-> TickRatio]
           u == CreateStringTable("userinfo")
           b == CreateStringTable(INSTANCE_BASELINE_TABLE_NAME)
           x == HandleMessage(p, i)
           y == HandleMessage(x, u)
           I == DEFAULT_FULL_PACKET_INTERVAL * TickRatio
           U == "userinfo"
           B == INSTANCE_BASELINE_TABLE_NAME
           C == "SvcCreateStringTable"
           z == 0
<1>1. i \in InfoMessages /\ i.ratio = TickRatio  BY DemoAssumption DEF InfoMessages
<1>2. /\ u \in TableMessages /\ b \in TableMessages /\ u.msg = C /\ b.msg = C
      /\ u.table = U /\ b.table = B /\ u.version = z /\ b.version = z
  BY IndexFacts DEF TableMessages, CreateStringTable, Tables
<1>3. DOMAIN s = 1..3 /\ s[1] = i /\ s[2] = u /\ s[3] = b
  <2>1. s = <<i, u, b>>  OBVIOUS
  <2> HIDE DEF i, u, b
  <2> QED  BY <2>1
<1>4. q = HandleMessage(y, b)
  <2>1. q = HandleMessage(HandleMessage(HandleMessage(p, s[1]), s[2]), s[3])
    BY <1>3, ThreeMessages
  <2> HIDE DEF i, u, b
  <2> QED  BY <1>3, <2>1
<1> HIDE DEF i, u, b
<1>5. /\ Handles(p, x) /\ Holds(p, x)
      /\ x.result = "ok" =>
           x.ctx = [p.ctx EXCEPT !.full_packet_interval = DEFAULT_FULL_PACKET_INTERVAL * i.ratio]
  <2>1. x = HandleMessage(p, i)  OBVIOUS
  <2> HIDE DEF x
  <2> QED  BY <1>1, <2>1, InfoHolds
<1>6. /\ Handles(x, y) /\ Holds(x, y)
      /\ x.result = "error" => y = x
      /\ x.result = "ok" /\ y.result = "ok" => y.ctx = AfterTable(x.ctx, u)
  <2>1. y = HandleMessage(x, u)  OBVIOUS
  <2> HIDE DEF x, y
  <2>2. x \in Parsers /\ x.result \in {"ok", "error"}  BY <1>5 DEF Handles, Parsers
  <2>3. x.result = "error" => y = x  BY <2>1, LeftOut
  <2>4. x.result = "error" => Handles(x, y) /\ Holds(x, y)  BY <2>2, <2>3, HandlesItself DEF Holds
  <2>5. x.result = "ok" => /\ Handles(x, y) /\ Holds(x, y)
                           /\ y.result = "ok" => y.ctx = AfterTable(x.ctx, u)
    BY <1>2, <2>1, <2>2, TableHolds
  <2> QED  BY <2>2, <2>3, <2>4, <2>5
<1>7. /\ Handles(y, q) /\ Holds(y, q)
      /\ y.result = "error" => q = y
      /\ y.result = "ok" /\ q.result = "ok" => q.ctx = AfterTable(y.ctx, b)
  <2> HIDE DEF x, y
  <2>2. y \in Parsers /\ y.result \in {"ok", "error"}  BY <1>6 DEF Handles, Parsers
  <2>3. y.result = "error" => q = y  BY <1>4, LeftOut
  <2>4. y.result = "error" => Handles(y, q) /\ Holds(y, q)  BY <2>2, <2>3, HandlesItself DEF Holds
  <2>5. y.result = "ok" => /\ Handles(y, q) /\ Holds(y, q)
                           /\ q.result = "ok" => q.ctx = AfterTable(y.ctx, b)
    BY <1>2, <1>4, <2>2, TableHolds
  <2> QED  BY <2>2, <2>3, <2>4, <2>5
<1> HIDE DEF x, y
<1>a. Handles(p, q) /\ Holds(p, q)
  <2>1. Handles(p, y) /\ Holds(p, y)  BY <1>5, <1>6, HandlesTransitive, HoldsTransitive
  <2> QED  BY <1>7, <2>1, HandlesTransitive, HoldsTransitive
<1> SUFFICES ASSUME q.result = "ok"
             PROVE  /\ q.ctx.entities = p.ctx.entities /\ q.ctx.baseline_entity = p.ctx.baseline_entity
                    /\ q.ctx.instance_baseline = p.ctx.instance_baseline
                    /\ q.ctx.string_tables = NewGame.tables
                    /\ q.ctx.full_packet_interval = DEFAULT_FULL_PACKET_INTERVAL * TickRatio
  BY <1>a
<1>b. /\ x.ctx = [p.ctx EXCEPT !.full_packet_interval = DEFAULT_FULL_PACKET_INTERVAL * i.ratio]
      /\ y.ctx = AfterTable(x.ctx, u) /\ q.ctx = AfterTable(y.ctx, b)
  <2>1. x.result \in {"ok", "error"} /\ y.result \in {"ok", "error"}
    BY <1>5, <1>6 DEF Handles, Parsers
  <2>2. y.result = "ok"  BY <1>7, <2>1
  <2>3. x.result = "ok"  BY <1>6, <2>1, <2>2
  <2> QED  BY <1>5, <1>6, <1>7, <2>2, <2>3
<1>8. p.ctx \in Contexts /\ x.ctx \in Contexts /\ y.ctx \in Contexts
  BY <1>5, <1>6 DEF Handles, Parsers
<1> DEFINE c == p.ctx
           d == x.ctx
           e == y.ctx
           f == q.ctx
<1>9. SameEntities([c EXCEPT !.full_packet_interval = I], d) /\ d.full_packet_interval = I
      /\ d.string_tables = c.string_tables /\ d.instance_baseline = c.instance_baseline
      /\ d.entities = c.entities /\ d.baseline_entity = c.baseline_entity
  <2>1. d = [c EXCEPT !.full_packet_interval = I]  BY <1>1, <1>b
  <2> HIDE DEF I, c
  <2>2. c \in Contexts  BY <1>8 DEF c
  <2> QED  BY <2>1, <2>2 DEF SameEntities, Contexts
<1> HIDE DEF c, d, e, f, I
<1>10. /\ SameEntities(d, e) /\ e.string_tables = VersionIn(d.string_tables, U, z)
       /\ e.instance_baseline = d.instance_baseline
  <2>1. U # B  BY DEF INSTANCE_BASELINE_TABLE_NAME
  <2>2. e = AfterTable(d, u) /\ d \in Contexts  BY <1>8, <1>b DEF d, e
  <2>3. /\ SameEntities(d, e) /\ e.string_tables = VersionIn(d.string_tables, u.table, u.version)
        /\ e.instance_baseline =
              IF u.table = INSTANCE_BASELINE_TABLE_NAME /\ d.entity_classes /\ u.version # 0
              THEN u.version ELSE d.instance_baseline
    BY <1>2, <2>2, TableIs
  <2> QED  BY <1>2, <2>1, <2>3
<1>11. /\ SameEntities(e, f) /\ f.string_tables = VersionIn(e.string_tables, B, z)
       /\ f.instance_baseline = e.instance_baseline
  <2>2. f = AfterTable(e, b) /\ e \in Contexts  BY <1>8, <1>b DEF e, f
  <2>3. /\ SameEntities(e, f) /\ f.string_tables = VersionIn(e.string_tables, b.table, b.version)
        /\ f.instance_baseline =
              IF b.table = INSTANCE_BASELINE_TABLE_NAME /\ e.entity_classes /\ b.version # 0
              THEN b.version ELSE e.instance_baseline
    BY <1>2, <2>2, TableIs
  <2> QED  BY <1>2, <2>3
<1>12. f.string_tables = NewGame.tables
  <2>1. DOMAIN c.string_tables \subseteq Tables
    <3>1. c.string_tables \in Partial(Tables, Versions)  BY <1>8 DEF c, Contexts
    <3> QED  BY <3>1, PartialFacts
  <2>2. f.string_tables = VersionIn(VersionIn(c.string_tables, U, z), B, z)  BY <1>9, <1>10, <1>11
  <2>3. Tables = {B, U} /\ U # B  BY DEF Tables, INSTANCE_BASELINE_TABLE_NAME
  <2>4. DOMAIN c.string_tables \cup {U} \cup {B} = Tables  BY <2>1, <2>3
  <2>5. VersionIn(VersionIn(c.string_tables, U, z), B, z) = [t \in Tables |-> 0]
    <3> HIDE DEF U, B
    <3> QED  BY <2>1, <2>3, <2>4 DEF VersionIn
  <2> QED  BY <2>2, <2>5 DEF NewGame
<1> QED  BY <1>9, <1>10, <1>11, <1>12 DEF SameEntities, c, f, I

\* The signon part sets the parser up, and follows the game, which has nothing yet.
LEMMA SignonCommand ==
  ASSUME RecordingInv, NEW k \in 1..4, NEW p \in Parsers, p.result = "ok", Ready(p.ctx, k - 1),
         NEW q, q = handle_cmd(p, demo[k])
  PROVE  /\ Handles(p, q) /\ Holds(p, q)
         /\ q.result = "ok" => Ready(q.ctx, k)
         /\ q.result = "ok" /\ Follows(p.ctx, k - 1) => Follows(q.ctx, k)
<1> DEFINE r == on_cmd(p)
           c == demo[k]
           B == INSTANCE_BASELINE_TABLE_NAME
<1>1. /\ Recorded /\ demo[k] = Signon[k] /\ k # 0 /\ game[k] = NewGame /\ Len(demo) \in Nat
      /\ k - 1 # 0 => game[k - 1] = NewGame
  <2>1. k - 1 = 0 \/ k - 1 \in 1..4  OBVIOUS
  <2> QED  BY <2>1, DemoAssumption DEF RecordingInv, Recorded
<1>2. c \in Commands /\ c = Signon[k]
  <2>1. k \in 1..Len(demo)  BY <1>1, DemoAssumption DEF Recorded
  <2> QED  BY <1>1, <2>1, CommandFacts
<1>3. r \in Parsers /\ Same(p, r) /\ r.ctx = p.ctx /\ Holds(p, r) /\ Handles(p, r)
  <2>1. r \in Parsers /\ Same(p, r) /\ r.ctx = p.ctx /\ Holds(p, r)  BY OnCmdFacts
  <2> QED  BY <2>1 DEF Handles
<1>4. Handles(p, q)  BY <1>2, HandleCmdFacts
<1>5. CASE r.result # "ok"
  <2>1. r.result = "error"  BY <1>3, <1>5 DEF Parsers
  <2>2. q = r  BY <2>1 DEF handle_cmd
  <2> QED  BY <1>3, <1>4, <2>1, <2>2
<1>6. CASE r.result = "ok"
  <2> DEFINE x == p.ctx
             y == q.ctx
  <2>0. x \in Contexts /\ Baseline(NewGame) = 0 /\ NewGame.tables[B] = 0 /\ NewGame.entities = <<>>
        /\ DOMAIN NewGame.tables = Tables /\ B \in Tables
    BY SignonFacts DEF Parsers, Baseline, NewGame, Tables
  <2>a. x.string_tables \in Partial(Tables, Versions)  BY <2>0 DEF Contexts
  <2>1. k = 1 \/ k = 2 \/ k = 3 \/ k = 4  OBVIOUS
  <2>2. CASE k = 1
    <3> DEFINE s == << [msg |-> "SvcServerInfo", ratio |-> TickRatio],
                       CreateStringTable("userinfo"), CreateStringTable(B) >>
    <3>1. c.cmd = "DemSignonPacket" /\ c.messages = s  BY <1>2, <2>2 DEF Signon, Command
    <3>2. q = handle_cmd_packet(r, s)  BY <1>6, <3>1 DEF handle_cmd
    <3>3. /\ Handles(r, q) /\ Holds(r, q)
          /\ q.result = "ok" =>
               /\ q.ctx.entities = r.ctx.entities
               /\ q.ctx.baseline_entity = r.ctx.baseline_entity
               /\ q.ctx.instance_baseline = r.ctx.instance_baseline
               /\ q.ctx.string_tables = NewGame.tables
               /\ q.ctx.full_packet_interval = DEFAULT_FULL_PACKET_INTERVAL * TickRatio
      <4> HIDE DEF r
      <4> QED  BY <1>3, <1>6, <3>2, SetupMessages
    <3> HIDE DEF s, r, c
    <3>4. q.result = "ok" => Ready(q.ctx, 1)  BY <2>0, <3>3 DEF Ready
    <3>5. q.result = "ok" /\ Fresh(p.ctx) => Tracks(q.ctx, NewGame)
      BY <1>3, <2>0, <3>3 DEF Fresh, Tracks, Cache
    <3>6. Holds(p, q)  BY <1>3, <3>3, HoldsTransitive
    <3> QED  BY <1>1, <1>4, <2>2, <3>4, <3>5, <3>6 DEF Follows
  <2>3. CASE k = 2
    <3>1. c.cmd = "DemSendTables"  BY <1>2, <2>3 DEF Signon, Command
    <3>2. q = [r EXCEPT !.ctx.serializers = TRUE]  BY <1>6, <3>1 DEF handle_cmd
    <3>3. q.result = "ok" /\ y = [x EXCEPT !.serializers = TRUE]
      <4> HIDE DEF r
      <4>1. q.result = r.result /\ q.ctx = [r.ctx EXCEPT !.serializers = TRUE]
        BY <1>3, <3>2, SendTablesFacts
      <4> QED  BY <1>3, <1>6, <4>1
    <3> HIDE DEF x, y, r, c
    <3>4. /\ y.string_tables = x.string_tables /\ y.entities = x.entities
          /\ y.full_packet_interval = x.full_packet_interval /\ y.serializers = TRUE
          /\ y.instance_baseline = x.instance_baseline /\ y.baseline_entity = x.baseline_entity
      BY <2>0, <3>3 DEF Contexts
    <3>5. Ready(x, 1)  BY <2>3 DEF x
    <3>6. Ready(y, 2)  BY <3>4, <3>5 DEF Ready
    <3>7. Tracks(x, NewGame) => Tracks(y, NewGame)  BY <3>4 DEF Tracks, Cache
    <3>8. Holds(p, q)  BY <1>3, <1>6, <3>3 DEF Holds
    <3>9. Follows(p.ctx, k - 1) => Tracks(x, NewGame)  BY <1>1, <2>3 DEF Follows, x
    <3>10. Tracks(y, NewGame) => Follows(q.ctx, k)  BY <1>1 DEF Follows, y
    <3> QED  BY <1>4, <2>3, <3>6, <3>7, <3>8, <3>9, <3>10 DEF y
  <2>4. CASE k = 3
    <3>1. c.cmd = "DemClassInfo"  BY <1>2, <2>4 DEF Signon, Command
    <3>2. q = handle_class_info(r)  BY <1>6, <3>1 DEF handle_cmd
    <3>3. q.result = "ok" /\ y = AfterClassInfo(x)
      <4> HIDE DEF r
      <4>1. q.result = r.result /\ q.ctx = AfterClassInfo(r.ctx)
        BY <1>3, <1>6, <3>2, ClassInfoFacts
      <4> QED  BY <1>3, <1>6, <4>1
    <3>5. Ready(x, 2)  BY <2>4
    <3> HIDE DEF x, y, r, c
    <3>4. /\ y.string_tables = x.string_tables /\ y.entities = x.entities
          /\ y.full_packet_interval = x.full_packet_interval /\ y.serializers = x.serializers
          /\ y.entity_classes = TRUE /\ y.baseline_entity = x.baseline_entity
          /\ x.string_tables[B] = 0 => y.instance_baseline = x.instance_baseline
      <4>1. CASE x.entity_classes  BY <2>0, <3>3, <4>1 DEF AfterClassInfo, Contexts
      <4>2. CASE ~x.entity_classes
        <5> DEFINE w == [x EXCEPT !.entity_classes = TRUE]
        <5>1. y = Refreshed(w)  BY <3>3, <4>2 DEF AfterClassInfo
        <5>2. w \in Contexts /\ w.string_tables = x.string_tables /\ w.entities = x.entities
              /\ w.full_packet_interval = x.full_packet_interval /\ w.serializers = x.serializers
              /\ w.entity_classes = TRUE /\ w.baseline_entity = x.baseline_entity
              /\ w.instance_baseline = x.instance_baseline
          BY <2>0 DEF Contexts
        <5> HIDE DEF w
        <5>3. B \in DOMAIN w.string_tables  BY <2>0, <3>5, <5>2 DEF Ready
        <5>4. y = UpdateBaseline(w)  BY <5>1, <5>3 DEF Refreshed
        <5>5. /\ SameEntities(w, y) /\ y.string_tables = w.string_tables
              /\ y.instance_baseline = IF w.string_tables[B] = 0 THEN w.instance_baseline
                                       ELSE w.string_tables[B]
          BY <5>2, <5>3, <5>4, BaselineIs
        <5> QED  BY <5>2, <5>5 DEF SameEntities
      <4> QED  BY <4>1, <4>2
    <3>6. Ready(y, 3)  BY <3>4, <3>5 DEF Ready
    <3>7. Tracks(x, NewGame) => Tracks(y, NewGame)  BY <2>0, <3>4 DEF Tracks, Cache
    <3>8. Holds(p, q)  BY <1>3, <1>6, <3>3 DEF Holds
    <3>9. Follows(p.ctx, k - 1) => Tracks(x, NewGame)  BY <1>1, <2>4 DEF Follows, x
    <3>10. Tracks(y, NewGame) => Follows(q.ctx, k)  BY <1>1 DEF Follows, y
    <3> QED  BY <1>4, <2>4, <3>6, <3>7, <3>8, <3>9, <3>10 DEF y
  <2>5. CASE k = 4
    <3>1. c.cmd = "DemSyncTick"  BY <1>2, <2>5 DEF Signon, Command
    <3>2. q = r  BY <1>6, <3>1 DEF handle_cmd
    <3>3. Ready(x, 3)  BY <2>5
    <3>4. Ready(q.ctx, 4)  BY <1>3, <3>2, <3>3 DEF Ready
    <3>5. Follows(p.ctx, k - 1) => Follows(q.ctx, k)  BY <1>1, <1>3, <2>5, <3>2 DEF Follows
    <3> QED  BY <1>3, <1>4, <2>5, <3>2, <3>4, <3>5
  <2> QED  BY <2>1, <2>2, <2>3, <2>4, <2>5
<1> QED  BY <1>5, <1>6

\* What handling command k with the parser p comes to.
Advances(p, q, k) ==
  /\ Handles(p, q) /\ Holds(p, q)
  /\ q.result = "ok" => Ready(q.ctx, k)
  /\ q.result = "ok" /\ ~BaselineMayChange /\ Follows(p.ctx, k - 1) => Follows(q.ctx, k)
  /\ q.result = "ok" /\ IsFullPacket(k) /\ Behind(p.ctx, game[k - 1]) => Follows(q.ctx, k)

\* The game around a command of the body.
LEMMA BodyFacts ==
  ASSUME RecordingInv, NEW k \in 5..Len(demo)
  PROVE  /\ k \in Nat /\ k - 1 \in Nat /\ k \in 1..Len(demo) /\ k - 1 # 0 /\ k # 0 /\ k - 1 >= 4 /\ k >= 4
         /\ game[k - 1] \in Games /\ game[k] \in Games /\ Change(game[k - 1], demo[k], game[k])
         /\ DOMAIN game[k - 1].entities # {} => Baseline(game[k - 1]) # 0
         /\ demo[k] \in Commands /\ demo[k].cmd \in {"DemPacket", "DemFullPacket"}
<1>1. Recorded /\ BaselineFirst  BY DEF RecordingInv
<1>2. Len(demo) \in Nat /\ k \in 1..Len(demo) /\ k - 1 \in 1..Len(demo)
      /\ k \in Nat /\ k - 1 \in Nat /\ k - 1 # 0 /\ k # 0 /\ k - 1 >= 4 /\ k >= 4
  BY <1>1, DemoAssumption DEF Recorded
<1>3. game \in Seq(Games) /\ Len(game) = Len(demo)  BY <1>1 DEF Recorded
<1>4. game[k] \in Games /\ game[k - 1] \in Games
  <2> DEFINE j == k - 1
  <2>1. j \in 1..Len(game) /\ k \in 1..Len(game)  BY <1>2, <1>3
  <2> HIDE DEF j
  <2>2. game[j] \in Games /\ game[k] \in Games  BY <1>3, <2>1, ElementOfSeq
  <2> QED  BY <2>2 DEF j
<1>5. Change(game[k - 1], demo[k], game[k])  BY <1>1 DEF Recorded
<1>6. demo[k].cmd \in {"DemPacket", "DemFullPacket"}  BY <1>5 DEF Change
<1>7. demo[k] \in Commands  BY <1>2, CommandFacts
<1>8. DOMAIN game[k - 1].entities # {} => Baseline(game[k - 1]) # 0
  BY <1>1, <1>2 DEF BaselineFirst
<1> QED  BY <1>2, <1>4, <1>5, <1>6, <1>7, <1>8

\* What is set up when the body begins.
LEMMA ReadyFacts ==
  ASSUME NEW c, NEW k \in Nat, k >= 4
  PROVE  Ready(c, k) <=> /\ DOMAIN c.string_tables = Tables /\ c.serializers /\ c.entity_classes
                         /\ c.full_packet_interval = DEFAULT_FULL_PACKET_INTERVAL * TickRatio
BY DEF Ready

\* A full packet of the body.
LEMMA FullPacketAdvances ==
  ASSUME RecordingInv, NEW k \in 5..Len(demo), IsFullPacket(k),
         NEW p \in Parsers, p.result = "ok", ~p.skip_entity_packets, Ready(p.ctx, k - 1),
         NEW q, q = handle_cmd_full_packet(p, demo[k], TRUE)
  PROVE  Advances(p, q, k)
<1> DEFINE c == demo[k]
           g == game[k - 1]
           h == game[k]
           j == k - 1
<1>1. /\ k \in Nat /\ j \in Nat /\ j # 0 /\ k # 0 /\ j >= 4 /\ k >= 4
      /\ g \in Games /\ h \in Games /\ Change(g, c, h)
      /\ (DOMAIN g.entities # {} => Baseline(g) # 0) /\ c \in Commands
  BY BodyFacts
<1>2. c.cmd = "DemFullPacket"  BY DEF IsFullPacket
<1>3. q = handle_cmd_full_packet(p, c, TRUE) /\ Ready(p.ctx, j)  OBVIOUS
<1> HIDE DEF c, g, h, j
<1>4. Decodes(p) /\ DOMAIN p.ctx.string_tables = Tables  BY <1>1, <1>3, ReadyFacts DEF Decodes
<1>5. /\ Handles(p, q) /\ Holds(p, q)
      /\ q.result = "ok" => SameSetup(p.ctx, q.ctx)
      /\ q.result = "ok" /\ Behind(p.ctx, g) => Tracks(q.ctx, h)
  BY <1>1, <1>2, <1>3, <1>4, FullPacketTracks
<1>6. q.result = "ok" => Ready(q.ctx, k)  BY <1>1, <1>3, <1>5, ReadyStays
<1>7. Follows(p.ctx, j) => Behind(p.ctx, g)
  <2>1. Follows(p.ctx, j) => Tracks(p.ctx, g)  BY <1>1 DEF Follows, g, j
  <2> QED  BY <2>1, BehindFacts
<1>8. Tracks(q.ctx, h) => Follows(q.ctx, k)  BY <1>1 DEF Follows, h
<1> QED  BY <1>5, <1>6, <1>7, <1>8 DEF Advances, g, j

\* Any command of the body.
LEMMA BodyCommand ==
  ASSUME RecordingInv, NEW k \in 5..Len(demo),
         NEW p \in Parsers, p.result = "ok", ~p.skip_entity_packets, Ready(p.ctx, k - 1),
         NEW q, q = handle_cmd(p, demo[k])
  PROVE  Advances(p, q, k)
<1> DEFINE r == on_cmd(p)
           c == demo[k]
           g == game[k - 1]
           h == game[k]
           j == k - 1
<1>1. /\ k \in Nat /\ j \in Nat /\ j # 0 /\ k # 0 /\ j >= 4 /\ k >= 4
      /\ g \in Games /\ h \in Games /\ Change(g, c, h)
      /\ (DOMAIN g.entities # {} => Baseline(g) # 0) /\ c \in Commands
      /\ c.cmd \in {"DemPacket", "DemFullPacket"}
  BY BodyFacts
<1>2. r \in Parsers /\ Same(p, r) /\ r.ctx = p.ctx /\ Holds(p, r) /\ Handles(p, r)
  <2>1. r \in Parsers /\ Same(p, r) /\ r.ctx = p.ctx /\ Holds(p, r)  BY OnCmdFacts
  <2> QED  BY <2>1 DEF Handles
<1>3. Ready(p.ctx, j)  OBVIOUS
<1>4. CASE r.result # "ok"
  <2>1. r.result = "error"  BY <1>2, <1>4 DEF Parsers
  <2>2. q = r  BY <2>1 DEF handle_cmd
  <2> QED  BY <1>2, <2>1, <2>2 DEF Advances
<1>5. CASE r.result = "ok" /\ c.cmd = "DemFullPacket"
  <2>1. q = handle_cmd_full_packet(r, c, TRUE)  BY <1>5 DEF handle_cmd
  <2>2. ~r.skip_entity_packets  BY <1>2 DEF Same
  <2>3. IsFullPacket(k)  BY <1>5 DEF IsFullPacket
  <2> HIDE DEF r
  <2>4. Advances(r, q, k)  BY <1>2, <1>5, <2>1, <2>2, <2>3, FullPacketAdvances
  <2>5. Handles(p, q) /\ Holds(p, q)
    BY <1>2, <2>4, HandlesTransitive, HoldsTransitive DEF Advances
  <2> HIDE DEF c, g, h, j
  <2> QED  BY <1>2, <2>4, <2>5 DEF Advances
<1>6. CASE r.result = "ok" /\ c.cmd = "DemPacket"
  <2>1. q = handle_cmd_packet(r, c.messages)  BY <1>6 DEF handle_cmd
  <2>2. ~IsFullPacket(k)  BY <1>6 DEF IsFullPacket
  <2> HIDE DEF r, c, g, h, j
  <2>3. Decodes(r) /\ DOMAIN r.ctx.string_tables = Tables
    BY <1>1, <1>2, <1>3, <1>6, ReadyFacts DEF Decodes, Same
  <2>4. /\ Handles(r, q) /\ Holds(r, q)
        /\ q.result = "ok" => SameSetup(r.ctx, q.ctx)
        /\ q.result = "ok" /\ ~BaselineMayChange /\ Tracks(r.ctx, g) => Tracks(q.ctx, h)
    BY <1>1, <1>2, <1>6, <2>1, <2>3, PacketTracks
  <2>5. Handles(p, q) /\ Holds(p, q)
    BY <1>2, <2>4, HandlesTransitive, HoldsTransitive
  <2>6. q.result = "ok" => Ready(q.ctx, k)  BY <1>1, <1>2, <1>3, <2>4, ReadyStays
  <2>7. Follows(p.ctx, j) => Tracks(p.ctx, g)  BY <1>1 DEF Follows, g, j
  <2>8. Tracks(q.ctx, h) => Follows(q.ctx, k)  BY <1>1 DEF Follows, h
  <2>9. q.result = "ok" /\ ~BaselineMayChange /\ Follows(p.ctx, k - 1) => Follows(q.ctx, k)
    BY <1>2, <2>4, <2>7, <2>8 DEF j
  <2> QED  BY <2>2, <2>5, <2>6, <2>9 DEF Advances
<1> QED  BY <1>1, <1>4, <1>5, <1>6

\* Any command, and what ends its tick.
LEMMA CommandAdvances ==
  ASSUME RecordingInv, NEW k \in 1..Len(demo),
         NEW p \in Parsers, p.result = "ok", k >= 5 => ~p.skip_entity_packets, Ready(p.ctx, k - 1),
         NEW q, q = TickEnded(handle_cmd(p, demo[k]))
  PROVE  Advances(p, q, k)
<1> DEFINE r == handle_cmd(p, demo[k])
<1>0. Len(demo) \in Nat  BY DemoAssumption DEF RecordingInv, Recorded
<1>1. Advances(p, r, k)
  <2>1. k \in 1..4 \/ k \in 5..Len(demo)  BY <1>0
  <2>2. CASE k \in 1..4
    <3>1. /\ Handles(p, r) /\ Holds(p, r)
          /\ r.result = "ok" => Ready(r.ctx, k)
          /\ r.result = "ok" /\ Follows(p.ctx, k - 1) => Follows(r.ctx, k)
      BY <2>2, SignonCommand
    <3>2. ~IsFullPacket(k)  BY <2>2, SignonFacts DEF RecordingInv, Recorded, IsFullPacket
    <3> HIDE DEF r
    <3> QED  BY <3>1, <3>2 DEF Advances
  <2>3. CASE k \in 5..Len(demo)
    <3>1. ~p.skip_entity_packets  BY <2>3
    <3> QED  BY <2>3, <3>1, BodyCommand
  <2> QED  BY <2>1, <2>2, <2>3
<1> HIDE DEF r
<1>2. q = TickEnded(r)  BY DEF r
<1>3. Handles(r, q) /\ Holds(r, q) /\ q.ctx = r.ctx  BY <1>1, <1>2, TickEndedFacts DEF Advances, Handles
<1>4. Handles(p, q) /\ Holds(p, q)  BY <1>1, <1>3, HandlesTransitive, HoldsTransitive DEF Advances
<1>5. q.result = "ok" => r.result = "ok"  BY <1>1, <1>3 DEF Advances, Handles, Parsers
<1> QED  BY <1>1, <1>3, <1>4, <1>5 DEF Advances

\* A full packet that a seek applies.
LEMMA AppliedAdvances ==
  ASSUME RecordingInv, NEW k \in 5..Len(demo), IsFullPacket(k),
         NEW p \in Parsers, p.result = "ok", ~p.skip_entity_packets, Ready(p.ctx, k - 1),
         NEW with_packet \in BOOLEAN, NEW q, q = FullPacketApplied(p, demo[k], with_packet)
  PROVE  /\ Handles(p, q) /\ Holds(p, q)
         /\ q.result = "ok" => Ready(q.ctx, k)
         /\ q.result = "ok" /\ with_packet /\ Behind(p.ctx, game[k - 1]) => Follows(q.ctx, k)
         /\ q.result = "ok" /\ ~with_packet /\ Warm(p.ctx, game[k - 1]) => Warm(q.ctx, game[k])
<1> DEFINE r == on_cmd(p)
           s == handle_cmd_full_packet(r, demo[k], with_packet)
           j == k - 1
           g == game[k - 1]
           h == game[k]
<1>0. k \in Nat /\ j \in Nat /\ j >= 4 /\ k >= 4 /\ g \in Games /\ Change(g, demo[k], h)
      /\ demo[k] \in Commands /\ demo[k].cmd = "DemFullPacket"
  BY BodyFacts DEF IsFullPacket
<1>1. r \in Parsers /\ Same(p, r) /\ r.ctx = p.ctx /\ Holds(p, r) /\ Handles(p, r)
  <2>1. r \in Parsers /\ Same(p, r) /\ r.ctx = p.ctx /\ Holds(p, r)  BY OnCmdFacts
  <2> QED  BY <2>1 DEF Handles
<1>2. q = IF s.result = "ok" THEN on_tick_end(s) ELSE s  BY DEF FullPacketApplied
<1>3. Ready(r.ctx, j) /\ ~r.skip_entity_packets  BY <1>1 DEF Same
<1> HIDE DEF r
<1>4. /\ Handles(r, s) /\ Holds(r, s)
      /\ s.result = "ok" => Ready(s.ctx, k)
      /\ s.result = "ok" /\ with_packet /\ Behind(r.ctx, g) => Follows(s.ctx, k)
      /\ s.result = "ok" /\ ~with_packet /\ Warm(r.ctx, g) => Warm(s.ctx, h)
  <2>1. CASE r.result # "ok"
    <3>1. r.result = "error"  BY <1>1, <2>1 DEF Parsers
    <3>2. Handles(r, s)  BY <1>0, <1>1, FullPacketFacts
    <3>3. s = r  BY <3>1, <3>2 DEF Handles
    <3> QED  BY <3>1, <3>2, <3>3 DEF Holds
  <2>2. CASE r.result = "ok" /\ with_packet
    <3>1. s = handle_cmd_full_packet(r, demo[k], TRUE)  BY <2>2
    <3>2. Ready(r.ctx, k - 1)  BY <1>3
    <3> HIDE DEF s
    <3>3. Advances(r, s, k)  BY <1>1, <1>3, <2>2, <3>1, <3>2, FullPacketAdvances
    <3> HIDE DEF j, h
    <3> QED  BY <2>2, <3>3 DEF Advances
  <2>3. CASE r.result = "ok" /\ ~with_packet
    <3> DEFINE c == demo[k]
    <3>0. c \in Commands /\ c.cmd = "DemFullPacket" /\ Change(g, c, h)  BY <1>0
    <3>1. s = handle_cmd_full_packet(r, c, with_packet) /\ ~with_packet  BY <2>3
    <3> HIDE DEF c, s, j, g, h
    <3>2. r.ctx.entity_classes /\ DOMAIN r.ctx.string_tables = Tables  BY <1>0, <1>3, ReadyFacts
    <3>3. /\ Handles(r, s) /\ s.result = "ok" /\ SameSetup(r.ctx, s.ctx)
          /\ Warm(r.ctx, g) => Warm(s.ctx, h)
      BY <1>0, <1>1, <2>3, <3>0, <3>1, <3>2, FullPacketSkims
    <3>4. Ready(s.ctx, k)  BY <1>0, <1>3, <3>3, ReadyStays
    <3> QED  BY <2>3, <3>3, <3>4 DEF Holds
  <2> QED  BY <2>1, <2>2, <2>3
<1> HIDE DEF s
<1>5. Handles(s, q) /\ Holds(s, q) /\ q.ctx = s.ctx
  <2>1. s \in Parsers  BY <1>4 DEF Handles
  <2>2. CASE s.result = "ok"
    <3>1. q = on_tick_end(s)  BY <1>2, <2>2
    <3>2. q \in Parsers /\ Same(s, q) /\ q.ctx = s.ctx /\ Holds(s, q)  BY <2>1, <3>1, OnCmdFacts
    <3> QED  BY <2>2, <3>2 DEF Handles
  <2>3. CASE s.result # "ok"
    <3>1. q = s  BY <1>2, <2>3
    <3> QED  BY <2>1, <3>1, HandlesItself DEF Holds
  <2> QED  BY <2>2, <2>3
<1>6. Handles(p, q) /\ Holds(p, q)
  BY <1>1, <1>4, <1>5, HandlesTransitive, HoldsTransitive
<1>7. q.result = "ok" => s.result = "ok"  BY <1>4, <1>5 DEF Handles, Parsers
<1> QED  BY <1>1, <1>4, <1>5, <1>6, <1>7

\* A command that is left out brings no entity, and the baseline only if there was none.
LEMMA SkippedCommand ==
  ASSUME RecordingInv, ~BaselineMayChange, NEW k \in 5..Len(demo), NEW c, Warm(c, game[k - 1])
  PROVE  Warm(c, game[k])
<1> DEFINE g == game[k - 1]
           h == game[k]
           d == demo[k]
           m == d.messages[1]
           e == m.entries[1]
           B == INSTANCE_BASELINE_TABLE_NAME
<1>1. g \in Games /\ h \in Games /\ Change(g, d, h)  BY BodyFacts
<1>2. Baseline(h) = Baseline(g) \/ Baseline(g) = 0
  <2>0. g.tables \in [Tables -> Versions] /\ B \in Tables  BY <1>1 DEF Games, Tables
  <2>1. CASE h.tables = g.tables  BY <2>1 DEF Baseline
  <2>2. CASE m \in TableMessages /\ TableChange(g, m, h)
    <3> HIDE DEF g, h, m, d
    <3>1. h.tables = [g.tables EXCEPT ![m.table] = m.version] /\ (m.table = B => g.tables[B] = 0)
      BY <2>2 DEF TableChange
    <3> QED  BY <2>0, <3>1 DEF Baseline
  <2>3. CASE EntityChange(g, e, h)  BY Zenon, <2>3 DEF EntityChange, Baseline
  <2> HIDE DEF g, h
  <2> QED  BY <1>1, <2>1, <2>2, <2>3 DEF Change
<1> HIDE DEF g, h
<1>3. Warm(c, g)  BY DEF g
<1>4. Warm(c, h)  BY <1>2, <1>3 DEF Warm
<1> QED  BY <1>4 DEF h

------------------------------------------------------------------------------
(* Runs, turn by turn, and what the parser has reached behind each.        *)

\* The context is that behind command k of a recording that is parsed from its start.
Reached(c, k) ==
  /\ c.tick = TickAt(k) /\ Ready(c, k)
  /\ ~BaselineMayChange => Follows(c, k)

\* The parser goes on behind command k, or a callback failed at the one it is at.
Live(p, k) == p \in Parsers /\ p.result = "ok" /\ p.pos = k
Failed(p)  == p \in Parsers /\ p.result = "error" /\ p.pos = p.fails.at /\ p.pos >= 1

\* Only the ticks differ.
Retimed(c, d) ==
  /\ d.entities = c.entities /\ d.baseline_entity = c.baseline_entity
  /\ d.string_tables = c.string_tables /\ d.instance_baseline = c.instance_baseline
  /\ d.full_packet_interval = c.full_packet_interval
  /\ d.serializers = c.serializers /\ d.entity_classes = c.entity_classes

\* What is known of the game does not depend on the ticks.
LEMMA RetimedFacts ==
  ASSUME NEW c, NEW d, Retimed(c, d), NEW k
  PROVE  /\ Ready(c, k) => Ready(d, k)
         /\ Follows(c, k) => Follows(d, k)
<1>1. Ready(c, k) => Ready(d, k)  BY DEF Ready, Retimed
<1>2. CASE k = 0  BY <1>1, <1>2 DEF Retimed, Follows, Fresh
<1>3. CASE k # 0  BY <1>1, <1>3 DEF Retimed, Follows, Tracks, Cache
<1> QED  BY <1>2, <1>3

\* Nor does what a full packet goes on from.
LEMMA RetimedBehind ==
  ASSUME NEW c, NEW d, Retimed(c, d), NEW g
  PROVE  /\ Behind(c, g) => Behind(d, g)
         /\ Warm(c, g) => Warm(d, g)
BY DEF Retimed, Behind, Warm, Cache

\* A command is read: only the ticks change.
LEMMA ReadingFacts ==
  ASSUME RecordingInv, NEW p \in Parsers, NEW k \in 1..Len(demo), NEW q, q = ReadHeader(p, k)
  PROVE  /\ q \in Parsers /\ q.pos = k /\ q.fails = p.fails /\ q.result = p.result
         /\ q.skip_entity_packets = p.skip_entity_packets /\ q.collecting = p.collecting
         /\ q.ctx.tick = TickAt(k) /\ q.ctx.prev_tick = p.ctx.tick /\ Retimed(p.ctx, q.ctx)
<1> DEFINE x == demo[k].tick
           c == p.ctx
<1>1. /\ q \in Parsers /\ q.pos = k /\ q.fails = p.fails /\ q.result = p.result
      /\ q.ctx.tick = x /\ q.ctx.prev_tick = p.ctx.tick
      /\ q.skip_entity_packets = p.skip_entity_packets /\ q.collecting = p.collecting
      /\ q.ctx = HeaderRead(c, x)
  BY ReadHeaderFacts
<1>2. x = TickAt(k)
  <2>1. k # 0  BY DemoAssumption DEF RecordingInv, Recorded
  <2> QED  BY <2>1 DEF TickAt
<1>3. c \in Contexts  BY DEF Parsers
<1> HIDE DEF x, c
<1>4. Retimed(c, HeaderRead(c, x))  BY <1>3 DEF Retimed, HeaderRead, Contexts
<1> QED  BY <1>1, <1>2, <1>4 DEF c

\* A turn of a run at a command: s before it and t after it, r the parser that has read
\* the header, u the state with it, and h what the handler makes of that.
Turn(s, k, t, r, u, h) ==
  /\ r = ReadHeader(s.p, k)
  /\ r \in Parsers /\ r.result = "ok" /\ r.pos = k /\ r.fails = s.p.fails
  /\ r.skip_entity_packets = s.p.skip_entity_packets
  /\ r.ctx.tick = TickAt(k) /\ r.ctx.prev_tick = s.p.ctx.tick /\ Retimed(s.p.ctx, r.ctx)
  /\ u \in LoopStates /\ u.p = r /\ u.l = s.l
  /\ h \in LoopStates /\ h = Handler(u, demo[k])
  /\ t \in LoopStates /\ t.l = h.l /\ t.flow = h.flow
  /\ h.flow = "Break" => t.p = UnreadHeader(h.p)
  /\ h.flow = "Handle" => t.p = TickEnded(handle_cmd(h.p, demo[k]))
  /\ h.flow \in {"Skip", "Ignore"} => t.p = h.p

\* A run that has not ended takes a turn.
LEMMA RunTurn ==
  ASSUME RecordingInv, NEW s \in LoopStates, s.flow # "Break", s.p.result = "ok",
         NEW k \in 1..Len(demo), NEW t, t = RunCommand(s, k)
  PROVE  \E r, u, h : Turn(s, k, t, r, u, h)
<1> DEFINE x == s.p
           r == ReadHeader(s.p, k)
           u == [s EXCEPT !.p = r]
           c == demo[k]
           h == Handler(u, c)
           p2 == IF h.flow = "Break" THEN UnreadHeader(h.p) ELSE dispatch(h.flow, h.p, c)
<1>1. x \in Parsers  BY DEF LoopStates
<1>2. r = ReadHeader(x, k)  OBVIOUS
<1>3. t = [h EXCEPT !.p = p2]  BY DEF RunCommand
<1> HIDE DEF r
<1>4. /\ r \in Parsers /\ r.result = "ok" /\ r.pos = k /\ r.fails = s.p.fails
      /\ r.skip_entity_packets = s.p.skip_entity_packets
      /\ r.ctx.tick = TickAt(k) /\ r.ctx.prev_tick = s.p.ctx.tick /\ Retimed(s.p.ctx, r.ctx)
  <2> HIDE DEF x
  <2>1. /\ r \in Parsers /\ r.pos = k /\ r.fails = x.fails /\ r.result = x.result
        /\ r.skip_entity_packets = x.skip_entity_packets
        /\ r.ctx.tick = TickAt(k) /\ r.ctx.prev_tick = x.ctx.tick /\ Retimed(x.ctx, r.ctx)
    BY <1>1, <1>2, ReadingFacts
  <2> QED  BY <2>1 DEF x
<1>5. u \in LoopStates /\ u.p = r /\ u.l = s.l  BY <1>4 DEF LoopStates
<1>6. c \in Commands  BY CommandFacts
<1> HIDE DEF u, c
<1>7. h \in LoopStates /\ Stays(r, h.p) /\ (h.flow = "Handle" => h.p.result = "ok")
  BY <1>4, <1>5, <1>6, HandlerFacts
<1>8. h = Handler(u, c)  OBVIOUS
<1> HIDE DEF h
<1>9. h.p \in Parsers /\ h.p.pos = k /\ h.flow \in Flows  BY <1>4, <1>7 DEF Stays, LoopStates
<1>10. p2 \in Parsers
  <2>1. CASE h.flow = "Break"
    <3> DEFINE y == h.p
    <3>1. y \in Parsers /\ y.pos = k /\ p2 = UnreadHeader(y)  BY <1>9, <2>1
    <3> HIDE DEF y, p2
    <3>2. y.pos >= 1  BY <3>1, DemoAssumption DEF RecordingInv, Recorded
    <3> QED  BY <3>1, <3>2, UnreadHeaderFacts
  <2>2. CASE h.flow = "Handle"
    <3>1. p2 = dispatch(h.flow, h.p, c)  BY <2>2
    <3>2. Handles(h.p, p2)  BY <1>6, <1>7, <1>9, <2>2, <3>1, DispatchFacts
    <3> QED  BY <3>2 DEF Handles
  <2>3. CASE h.flow # "Handle" /\ h.flow # "Break"
    <3>1. p2 = h.p  BY <2>3 DEF dispatch
    <3> QED  BY <1>9, <3>1
  <2> QED  BY <2>1, <2>2, <2>3
<1>11. h.flow = "Handle" => p2 = TickEnded(handle_cmd(h.p, c))  BY DEF dispatch, TickEnded
<1>12. h.flow = "Break" => p2 = UnreadHeader(h.p)  OBVIOUS
<1>13. h.flow \in {"Skip", "Ignore"} => p2 = h.p  BY DEF dispatch
<1> HIDE DEF p2
<1>14. t \in LoopStates /\ t.p = p2 /\ t.l = h.l /\ t.flow = h.flow
  BY <1>3, <1>7, <1>10 DEF LoopStates
<1>15. Turn(s, k, t, r, u, h)  BY <1>2, <1>4, <1>5, <1>7, <1>8, <1>11, <1>12, <1>13, <1>14 DEF Turn, c, x
<1> QED  BY <1>15

\* A parser that was handled at command k goes on behind it, or failed there.
LEMMA HandledFacts ==
  ASSUME NEW k \in Nat, k >= 1, NEW p, Live(p, k), NEW q, Handles(p, q), Holds(p, q)
  PROVE  /\ Live(q, k) \/ Failed(q)
         /\ q \in Parsers /\ q.pos = k /\ q.fails = p.fails
         /\ q.skip_entity_packets = p.skip_entity_packets /\ q.ctx.tick = p.ctx.tick
BY DEF Live, Failed, Handles, Holds, Same, Parsers

\* The next command, once its header is read, is handled as the recorder meant it.
LEMMA NextCommand ==
  ASSUME RecordingInv, NEW k \in 1..Len(demo), NEW r, Live(r, k), r.ctx.tick = TickAt(k),
         k >= 5 => ~r.skip_entity_packets, Ready(r.ctx, k - 1),
         NEW q, q = TickEnded(handle_cmd(r, demo[k]))
  PROVE  /\ Live(q, k) \/ Failed(q)
         /\ q \in Parsers /\ q.pos = k /\ q.fails = r.fails
         /\ q.skip_entity_packets = r.skip_entity_packets /\ q.ctx.tick = TickAt(k)
         /\ Live(q, k) => Ready(q.ctx, k)
         /\ Live(q, k) /\ ~BaselineMayChange /\ Follows(r.ctx, k - 1) => Follows(q.ctx, k)
         /\ Live(q, k) /\ IsFullPacket(k) /\ Behind(r.ctx, game[k - 1]) => Follows(q.ctx, k)
<1>1. r \in Parsers /\ r.result = "ok"  BY DEF Live
<1>2. Advances(r, q, k)  BY <1>1, CommandAdvances
<1>3. Handles(r, q) /\ Holds(r, q)  BY <1>2 DEF Advances
<1>4. k \in Nat /\ k >= 1  BY DemoAssumption DEF RecordingInv, Recorded
<1>5. /\ Live(q, k) \/ Failed(q)
      /\ q \in Parsers /\ q.pos = k /\ q.fails = r.fails
      /\ q.skip_entity_packets = r.skip_entity_packets /\ q.ctx.tick = r.ctx.tick
  BY <1>3, <1>4, HandledFacts
<1>6. Live(q, k) => q.result = "ok"  BY DEF Live
<1> QED  BY <1>2, <1>5, <1>6 DEF Advances

\* So a parse that has reached a command reaches the next.
LEMMA NextReached ==
  ASSUME RecordingInv, NEW k \in 1..Len(demo), NEW c, Reached(c, k - 1),
         NEW r, Live(r, k), r.ctx.tick = TickAt(k), ~r.skip_entity_packets, Retimed(c, r.ctx),
         NEW q, q = TickEnded(handle_cmd(r, demo[k]))
  PROVE  /\ (Live(q, k) /\ Reached(q.ctx, k)) \/ Failed(q)
         /\ q.fails = r.fails /\ ~q.skip_entity_packets
<1> DEFINE j == k - 1
<1>1. Reached(c, j)  OBVIOUS
<1> HIDE DEF j
<1>2. Ready(r.ctx, j) /\ (~BaselineMayChange => Follows(r.ctx, j))
  BY <1>1, RetimedFacts DEF Reached
<1>3. Ready(r.ctx, k - 1) /\ (~BaselineMayChange => Follows(r.ctx, k - 1))  BY <1>2 DEF j
<1>4. /\ Live(q, k) \/ Failed(q)
      /\ q.fails = r.fails
      /\ q.skip_entity_packets = r.skip_entity_packets /\ q.ctx.tick = TickAt(k)
      /\ Live(q, k) => Ready(q.ctx, k)
      /\ Live(q, k) /\ ~BaselineMayChange /\ Follows(r.ctx, k - 1) => Follows(q.ctx, k)
  BY <1>3, NextCommand
<1> QED  BY <1>3, <1>4 DEF Reached

\* One turn of run_to_end, from wherever the parser is.
LEMMA EndTurn ==
  ASSUME RecordingInv, NEW s \in LoopStates, s.l \in EndLocals, s.flow # "Break",
         s.p.result = "ok", ~s.p.skip_entity_packets,
         NEW k \in 1..Len(demo), NEW t, t = RunCommand(s, k)
  PROVE  /\ t \in LoopStates /\ t.l \in EndLocals /\ t.flow # "Break"
         /\ t.p.fails = s.p.fails /\ ~t.p.skip_entity_packets
         /\ t.p.result = "ok" => t.p.pos = k
         /\ Reached(s.p.ctx, k - 1) => (Live(t.p, k) /\ Reached(t.p.ctx, k)) \/ Failed(t.p)
<1>1. PICK r, u, h : Turn(s, k, t, r, u, h)  BY RunTurn
<1>2. /\ r \in Parsers /\ r.result = "ok" /\ r.pos = k /\ r.fails = s.p.fails
      /\ ~r.skip_entity_packets /\ r.ctx.tick = TickAt(k) /\ Retimed(s.p.ctx, r.ctx)
      /\ u \in LoopStates /\ u.p = r /\ u.l = s.l /\ h = Handler(u, demo[k])
      /\ t \in LoopStates /\ t.l = h.l /\ t.flow = h.flow
      /\ h.flow = "Handle" => t.p = TickEnded(handle_cmd(h.p, demo[k]))
  BY <1>1 DEF Turn
<1>3. h.p = r /\ h.l = s.l /\ h.flow = "Handle"
  <2>1. u.l.run = "run_to_end"  BY <1>2 DEF EndLocals
  <2>2. h = [u EXCEPT !.flow = "Handle"]  BY <1>2, <2>1 DEF Handler
  <2> QED  BY <1>2, <2>2 DEF LoopStates
<1> DEFINE q == t.p
           c == demo[k]
           x == handle_cmd(r, c)
<1>4. q = TickEnded(x)  BY <1>2, <1>3
<1>5. c \in Commands  BY CommandFacts
<1>6. Handles(r, q)
  <2>1. Handles(r, x)  BY <1>2, <1>5, HandleCmdFacts
  <2> HIDE DEF x, q
  <2>2. Handles(x, q)  BY <1>4, <2>1, TickEndedFacts DEF Handles
  <2> QED  BY <2>1, <2>2, HandlesTransitive
<1>7. q.pos = k /\ q.fails = s.p.fails /\ ~q.skip_entity_packets  BY <1>2, <1>6 DEF Handles, Same
<1>8. ASSUME Reached(s.p.ctx, k - 1)
      PROVE  (Live(q, k) /\ Reached(q.ctx, k)) \/ Failed(q)
  <2> DEFINE d == s.p.ctx
  <2>1. Reached(d, k - 1) /\ Retimed(d, r.ctx) /\ Live(r, k)  BY <1>2, <1>8 DEF Live
  <2>2. q = TickEnded(handle_cmd(r, demo[k]))  BY <1>4
  <2> HIDE DEF d, q, c, x
  <2> QED  BY <1>2, <2>1, <2>2, NextReached
<1> QED  BY <1>2, <1>3, <1>7, <1>8

\* run_to_end stops at the end; a parse that went well so far goes well, but for a callback
\* that fails, and has reached the end.
LEMMA EndRun ==
  ASSUME RecordingInv, NEW p \in Parsers, p.pos \in 0..Len(demo), ~p.skip_entity_packets,
         NEW l \in EndLocals, NEW q, q = run_seekable(p, l)
  PROVE  /\ q \in Parsers /\ q.fails = p.fails /\ ~q.skip_entity_packets
         /\ q.result = "ok" => q.pos = Len(demo)
         /\ Reached(p.ctx, p.pos) =>
              (Live(q, Len(demo)) /\ Reached(q.ctx, Len(demo))) \/ Failed(q)
<1> DEFINE N == Len(demo)
           a == p.pos
           G == Reached(p.ctx, a)
           Good(k, s) == /\ s \in LoopStates /\ s.l \in EndLocals /\ s.flow # "Break"
                         /\ s.p.fails = p.fails /\ ~s.p.skip_entity_packets
                         /\ s.p.result = "ok" => s.p.pos = k
                         /\ G => (Live(s.p, k) /\ Reached(s.p.ctx, k)) \/ Failed(s.p)
<1>1. N \in Nat /\ a \in Nat /\ a <= N  BY DemoAssumption DEF RecordingInv, Recorded
<1>2. PICK h : /\ h[a] = Started(p, l) /\ q = h[N].p
               /\ \A k \in a + 1..N : h[k] = RunCommand(h[k - 1], k)
  BY <1>1, RunSeekable
<1> DEFINE S == {k \in Nat : Good(k, h[k])}
<1>3. a \in S
  <2> DEFINE s == Started(p, l)
  <2>1. /\ s \in LoopStates /\ s.flow = "Handle" /\ s.l = l
        /\ s.p.pos = p.pos /\ s.p.fails = p.fails /\ s.p.ctx = p.ctx /\ s.p.result = "ok"
        /\ s.p.skip_entity_packets = p.skip_entity_packets
    BY StartedFacts
  <2> HIDE DEF s
  <2>2. s.p \in Parsers  BY <2>1 DEF LoopStates
  <2>3. Good(a, s)  BY <2>1, <2>2 DEF Live
  <2>4. h[a] = s  BY <1>2 DEF s
  <2> QED  BY <1>1, <2>3, <2>4
<1>4. ASSUME NEW k \in a + 1..N, k - 1 \in S PROVE k \in S
  <2>1. k \in Nat /\ k \in 1..N  BY <1>1
  <2> DEFINE s == h[k - 1]
             t == h[k]
             j == k - 1
  <2>2. t = RunCommand(s, k) /\ Good(j, s)  BY <1>2, <1>4
  <2> HIDE DEF s, t, a
  <2>3. CASE s.p.result # "ok"
    <3>1. s.p.result = "error"  BY <2>2, <2>3 DEF LoopStates, Parsers
    <3>2. t = s  BY <2>2, <3>1 DEF RunCommand
    <3>3. ~Live(s.p, j)  BY <2>3 DEF Live
    <3>4. Good(k, t)  BY <2>2, <2>3, <3>2, <3>3
    <3> QED  BY <2>1, <3>4 DEF t
  <2>4. CASE s.p.result = "ok"
    <3>1. /\ t \in LoopStates /\ t.l \in EndLocals /\ t.flow # "Break"
          /\ t.p.fails = s.p.fails /\ ~t.p.skip_entity_packets
          /\ t.p.result = "ok" => t.p.pos = k
          /\ Reached(s.p.ctx, k - 1) => (Live(t.p, k) /\ Reached(t.p.ctx, k)) \/ Failed(t.p)
      BY <2>1, <2>2, <2>4, EndTurn
    <3>2. G => Reached(s.p.ctx, j)  BY <2>2, <2>4 DEF Failed
    <3>3. Good(k, t)  BY <2>2, <3>1, <3>2
    <3> QED  BY <2>1, <3>3 DEF t
  <2> QED  BY <2>3, <2>4
<1> HIDE DEF S, a, N
<1>5. \A k \in a..N : k \in S  BY <1>1, <1>3, <1>4, UpInduction
<1>6. N \in S  BY <1>1, <1>5
<1>7. Good(N, h[N])  BY <1>6 DEF S
<1> DEFINE s == h[N]
<1>8. q = s.p /\ Good(N, s)  BY <1>2, <1>7
<1> HIDE DEF s
<1>9. q \in Parsers  BY <1>8 DEF LoopStates
<1> QED  BY <1>8, <1>9 DEF N, a

\* Entities are cleared only where a full packet restates them.
LEMMA ClearedFacts ==
  ASSUME RecordingInv, NEW k \in 1..Len(demo), NEW c, Reached(c, k - 1),
         NEW p, Live(p, k), p.ctx.tick = TickAt(k), ~p.skip_entity_packets, Retimed(c, p.ctx),
         NEW r, r = ClearFor(p, demo[k]), NEW q, q = TickEnded(handle_cmd(r, demo[k]))
  PROVE  /\ (Live(q, k) /\ Reached(q.ctx, k)) \/ Failed(q)
         /\ q.fails = p.fails /\ ~q.skip_entity_packets
<1>1. p \in Parsers  BY DEF Live
<1>2. /\ r \in Parsers /\ Same(p, r) /\ r.result = p.result
      /\ r.ctx = IF demo[k].cmd = "DemFullPacket" THEN Emptied(p.ctx) ELSE p.ctx
  BY <1>1, ClearFacts
<1>3. Live(r, k) /\ r.ctx.tick = TickAt(k) /\ ~r.skip_entity_packets /\ r.fails = p.fails
  BY <1>2 DEF Live, Same
<1>4. CASE ~IsFullPacket(k)
  <2>1. Retimed(c, r.ctx)  BY <1>2, <1>4 DEF IsFullPacket
  <2> QED  BY <1>3, <2>1, NextReached
<1>5. CASE IsFullPacket(k)
  <2> DEFINE j == k - 1
             g == game[k - 1]
             d == p.ctx
             e == r.ctx
  <2>1. k \in 5..Len(demo) /\ j # 0 /\ j \in Nat
    <3>1. k \notin 1..4  BY <1>5, SignonFacts DEF RecordingInv, Recorded, IsFullPacket
    <3> QED  BY <3>1, DemoAssumption DEF RecordingInv, Recorded
  <2>2. Reached(c, j) /\ e = Emptied(d)  BY <1>2, <1>5 DEF IsFullPacket
  <2>3. d \in Contexts  BY <1>1 DEF Parsers
  <2> HIDE DEF j, d, e
  <2>4. Ready(d, j) /\ (~BaselineMayChange => Follows(d, j))
    <3>1. Retimed(c, d)  BY DEF d
    <3> QED  BY <2>2, <3>1, RetimedFacts DEF Reached
  <2>5. /\ e.entities = <<>> /\ e.baseline_entity = Missing /\ SameSetup(d, e)
        /\ e.instance_baseline = d.instance_baseline
    BY <2>2, <2>3 DEF Emptied, Contexts, SameSetup
  <2>6. Ready(e, j)  BY <2>4, <2>5 DEF Ready, SameSetup
  <2>7. ~BaselineMayChange => Behind(e, g)
    <3>1. Follows(d, j) => Tracks(d, g)  BY <2>1 DEF Follows, j
    <3>2. DOMAIN <<>> = {}  OBVIOUS
    <3> QED  BY <2>4, <2>5, <3>1, <3>2 DEF Tracks, Behind, Cache
  <2>8. Ready(r.ctx, k - 1) /\ (~BaselineMayChange => Behind(r.ctx, game[k - 1]))
    BY <2>6, <2>7 DEF j, e
  <2>9. /\ Live(q, k) \/ Failed(q)
        /\ q.fails = r.fails
        /\ q.skip_entity_packets = r.skip_entity_packets /\ q.ctx.tick = TickAt(k)
        /\ Live(q, k) => Ready(q.ctx, k)
        /\ Live(q, k) /\ IsFullPacket(k) /\ Behind(r.ctx, game[k - 1]) => Follows(q.ctx, k)
    BY <1>3, <2>8, NextCommand
  <2> QED  BY <1>3, <1>5, <2>8, <2>9 DEF Reached
<1> QED  BY <1>4, <1>5

\* The two runs of the stream's parser: at the end, or where a callback failed.
LEMMA AsyncEndRun ==
  ASSUME RecordingInv, NEW p \in Parsers, p.pos \in 0..Len(demo), ~p.skip_entity_packets,
         NEW clears \in BOOLEAN, NEW q, q = run_internal(p, clears)
  PROVE  /\ q \in Parsers /\ q.fails = p.fails /\ ~q.skip_entity_packets
         /\ q.result = "ok" => q.pos = Len(demo)
         /\ Reached(p.ctx, p.pos) =>
              (Live(q, Len(demo)) /\ Reached(q.ctx, Len(demo))) \/ Failed(q)
<1> DEFINE N == Len(demo)
           a == p.pos
           G == Reached(p.ctx, a)
           Good(k, s) == /\ s \in AsyncStates
                         /\ s.p.fails = p.fails /\ ~s.p.skip_entity_packets
                         /\ s.p.result = "ok" => s.p.pos = k
                         /\ G => (Live(s.p, k) /\ Reached(s.p.ctx, k)) \/ Failed(s.p)
           b == AsyncStarted(p, clears)
<1>1. N \in Nat /\ a \in Nat /\ a <= N  BY DemoAssumption DEF RecordingInv, Recorded
<1>2. PICK h : /\ h[a] = b /\ q = h[N].p
               /\ \A k \in a + 1..N : h[k] = AsyncCommand(h[k - 1], k)
  BY <1>1, RunInternal
<1>2a. /\ b \in AsyncStates /\ b.p.fails = p.fails /\ b.p.pos = a /\ ~b.p.skip_entity_packets
       /\ b.p \in Parsers /\ b.p.result = "ok" /\ b.p.ctx = p.ctx
  BY DEF AsyncStarted, AsyncStates, Restarted, Parsers
<1> HIDE DEF b
<1> DEFINE S == {k \in Nat : Good(k, h[k])}
<1>3. a \in S  BY <1>1, <1>2, <1>2a DEF Live
<1>4. ASSUME NEW k \in a + 1..N, k - 1 \in S PROVE k \in S
  <2>1. k \in Nat /\ k \in 1..N  BY <1>1
  <2> DEFINE s == h[k - 1]
             t == h[k]
             j == k - 1
  <2>2. t = AsyncCommand(s, k) /\ Good(j, s)  BY <1>2, <1>4
  <2> HIDE DEF s, t, a
  <2>3. CASE s.p.result # "ok"
    <3>1. s.p.result = "error"  BY <2>2, <2>3 DEF AsyncStates, Parsers
    <3>2. t = s  BY <2>2, <3>1 DEF AsyncCommand
    <3>3. ~Live(s.p, j)  BY <2>3 DEF Live
    <3>4. Good(k, t)  BY <2>2, <2>3, <3>2, <3>3
    <3> QED  BY <2>1, <3>4 DEF t
  <2>4. CASE s.p.result = "ok"
    <3> DEFINE d == demo[k]
    <3>0. PICK r \in Parsers, x \in Parsers :
            /\ r = ReadHeader(s.p, k)
            /\ x = IF s.reset_on_full_packet THEN ClearFor(r, d) ELSE r
            /\ x.pos = k /\ x.fails = s.p.fails /\ x.result = "ok" /\ ~x.skip_entity_packets
            /\ t \in AsyncStates
            /\ t.p = TickEnded(handle_cmd(x, d)) /\ Handles(x, t.p)
      BY <2>1, <2>2, <2>4, AsyncCommandFacts
    <3>1. t.p.pos = k /\ t.p.fails = p.fails /\ ~t.p.skip_entity_packets
      BY <2>2, <3>0 DEF Handles, Same
    <3>2. ASSUME G PROVE (Live(t.p, k) /\ Reached(t.p.ctx, k)) \/ Failed(t.p)
      <4> DEFINE y == s.p
                 c == y.ctx
                 q2 == t.p
      <4>1. Reached(c, k - 1)  BY <2>2, <2>4, <3>2 DEF Failed, j
      <4>2. y \in Parsers /\ y.result = "ok" /\ r = ReadHeader(y, k) /\ ~y.skip_entity_packets
        BY <2>2, <2>4, <3>0 DEF AsyncStates
      <4>3. q2 = TickEnded(handle_cmd(x, demo[k]))  BY <3>0
      <4> HIDE DEF y, q2
      <4>4. /\ r \in Parsers /\ r.pos = k /\ r.fails = y.fails /\ r.result = y.result
            /\ r.skip_entity_packets = y.skip_entity_packets
            /\ r.ctx.tick = TickAt(k) /\ Retimed(c, r.ctx)
        BY <2>1, <4>2, ReadingFacts
      <4> HIDE DEF c
      <4>5. Live(r, k)  BY <4>2, <4>4 DEF Live
      <4>6. (Live(q2, k) /\ Reached(q2.ctx, k)) \/ Failed(q2)
        <5>1. CASE s.reset_on_full_packet
          <6>1. x = ClearFor(r, demo[k])  BY <3>0, <5>1
          <6> HIDE DEF d
          <6> QED  BY <2>1, <4>1, <4>2, <4>3, <4>4, <4>5, <6>1, ClearedFacts
        <5>2. CASE ~s.reset_on_full_packet
          <6>1. x = r  BY <3>0, <5>2
          <6>2. q2 = TickEnded(handle_cmd(r, demo[k]))  BY <4>3, <6>1
          <6> HIDE DEF d
          <6> QED  BY <2>1, <4>1, <4>2, <4>4, <4>5, <6>2, NextReached
        <5>3. s.reset_on_full_packet \in BOOLEAN  BY <2>2 DEF AsyncStates
        <5> QED  BY <5>1, <5>2, <5>3
      <4> QED  BY <4>6 DEF q2
    <3>3. Good(k, t)  BY <3>0, <3>1, <3>2
    <3> QED  BY <2>1, <3>3 DEF t
  <2> QED  BY <2>3, <2>4
<1> HIDE DEF S, a, N
<1>5. \A k \in a..N : k \in S  BY <1>1, <1>3, <1>4, UpInduction
<1>6. N \in S  BY <1>1, <1>5
<1>7. Good(N, h[N])  BY <1>6 DEF S
<1> DEFINE s == h[N]
<1>8. q = s.p /\ Good(N, s)  BY <1>2, <1>7
<1> HIDE DEF s
<1>9. q \in Parsers  BY <1>8 DEF AsyncStates
<1> QED  BY <1>8, <1>9 DEF N, a

------------------------------------------------------------------------------
(* run_to_tick.                                                            *)

\* The last full packet up to k is at j.
LastUpTo(j, k) ==
  /\ j \in 1..k /\ IsFullPacket(j)
  /\ \A i \in j + 1..k : ~IsFullPacket(i)

\* The command after the last full packet so far is not far from it.
LEMMA SpacingFacts ==
  ASSUME RecordingInv, NEW k \in 5..Len(demo), NEW j, LastUpTo(j, k)
  PROVE  /\ j \in 1..Len(demo)
         /\ demo[k].tick <= demo[j].tick + FullPacketSpacing
         /\ k + 1 <= Len(demo) => demo[k + 1].tick <= demo[j].tick + FullPacketSpacing
<1>1. Len(demo) \in Nat /\ k \in Nat /\ k \in 1..Len(demo) /\ Timed
  BY DemoAssumption DEF RecordingInv, Recorded
<1>2. j \in 1..k /\ j \in 1..Len(demo) /\ j \in Nat  BY <1>1 DEF LastUpTo
<1>3. demo[j].tick \in Int /\ demo[k].tick \in Int  BY <1>1, <1>2, CommandFacts
<1>4. FullPacketSpacing \in Nat  BY DemoAssumption DEF FullPacketSpacing
<1>5. CASE k + 1 <= Len(demo)
  <2> DEFINE n == k + 1
  <2>1. n \in 6..Len(demo) /\ n - 1 = k /\ j \in 1..n - 1  BY <1>1, <1>2, <1>5
  <2>2. LastBefore(j, n)  BY <1>2, <2>1 DEF LastBefore, LastUpTo
  <2>3. demo[n].tick <= demo[j].tick + FullPacketSpacing  BY <1>1, <2>1, <2>2 DEF Timed
  <2>4. n \in 1..Len(demo) /\ demo[n].tick \in Int  BY <2>1, <1>1, CommandFacts
  <2>5. demo[k].tick <= demo[n].tick  BY <1>1, <2>1, <2>4 DEF Timed
  <2> HIDE DEF n
  <2>6. demo[k].tick <= demo[j].tick + FullPacketSpacing  BY <1>3, <1>4, <2>3, <2>4, <2>5
  <2> QED  BY <1>2, <2>3, <2>6 DEF n
<1>6. CASE ~ (k + 1 <= Len(demo))
  <2>1. CASE j = k  BY <1>2, <1>3, <1>4, <1>6, <2>1
  <2>2. CASE j # k
    <3>1. k \in 6..Len(demo) /\ j \in 1..k - 1
      <4>1. k # 5
        <5>1. IsFullPacket(5)  BY <1>1 DEF Timed
        <5>2. k = 5 => 5 \in j + 1..k  BY <1>2, <2>2
        <5> QED  BY <5>1, <5>2 DEF LastUpTo
      <4> QED  BY <1>1, <1>2, <2>2, <4>1
    <3>2. LastBefore(j, k)
      <4>1. \A i \in j + 1..k - 1 : i \in j + 1..k  BY <1>1, <1>2
      <4> QED  BY <3>1, <4>1 DEF LastBefore, LastUpTo
    <3> QED  BY <1>1, <1>2, <1>6, <3>1, <3>2 DEF Timed
  <2> QED  BY <2>1, <2>2
<1> QED  BY <1>5, <1>6

\* Where a seek ends: before the first command that is past its target.
LEMMA AtTickIs ==
  ASSUME RecordingInv, NEW T \in Int, NEW j \in 0..Len(demo),
         \A i \in 1..j : demo[i].tick <= T,
         j = Len(demo) \/ demo[j + 1].tick > T
  PROVE  AtTick(T) = j
<1> DEFINE N == Len(demo)
           S == {k \in DOMAIN demo : demo[k].tick <= T}
<1>1. N \in Nat /\ DOMAIN demo = 1..N /\ Timed
  <2>1. demo \in Seq(Commands)  BY DEF RecordingInv, Recorded
  <2> QED  BY <2>1, LenProperties DEF RecordingInv
<1>2. \A k \in 1..N : demo[k].tick \in Int  BY CommandFacts
<1>2a. \A i, k \in 1..N : i <= k => demo[i].tick <= demo[k].tick  BY Zenon, <1>1 DEF Timed
<1>2b. S = {k \in 1..N : demo[k].tick <= T}  BY <1>1
<1>2c. j \in Nat /\ j <= N /\ N \in Nat /\ (j = N \/ demo[j + 1].tick > T)
  <2>1. N \in Nat /\ j \in 0..N /\ (j = N \/ demo[j + 1].tick > T)  BY <1>1
  <2> HIDE DEF N
  <2> QED  BY <2>1
<1> HIDE DEF N, S
<1>3. S = 1..j
  <2>1. ASSUME NEW k \in 1..N, k > j PROVE ~(demo[k].tick <= T)
    <3> DEFINE n == j + 1
               x == demo[n].tick
               y == demo[k].tick
    <3>1. k \in Nat /\ k <= N /\ j \in Nat /\ k > j  BY <1>2c, <2>1
    <3>2. n \in 1..N /\ n <= k /\ j # N  BY <1>2c, <3>1
    <3>3. x > T  BY <1>2c, <3>2
    <3>4. x <= y  BY <1>2a, <3>2
    <3>5. x \in Int /\ y \in Int  BY <1>2, <3>2
    <3> HIDE DEF x, y
    <3>6. ~(y <= T)  BY <3>3, <3>4, <3>5
    <3> QED  BY <3>6 DEF y
  <2>2. \A k \in 1..j : k \in 1..N  BY <1>2c
  <2>3. \A k \in 1..N : k > j \/ k \in 1..j  BY <1>2c
  <2> QED  BY <1>2b, <2>1, <2>2, <2>3
<1>4. AtTick(T) = IF S = {} THEN 0 ELSE CHOOSE m \in S : \A k \in S : k <= m
  BY DEF AtTick, MaxOf, S
<1>5. CASE j = 0
  <2>1. S = {}  BY <1>3, <1>5
  <2> QED  BY <1>4, <1>5, <2>1
<1>6. CASE j # 0
  <2>1. j \in S /\ S # {}  BY <1>2c, <1>3, <1>6
  <2>2. \A k \in S : k <= j  BY <1>2c, <1>3
  <2>3. \A m \in S : (\A k \in S : k <= m) => m = j
    <3> SUFFICES ASSUME NEW m \in S, \A k \in S : k <= m PROVE m = j  OBVIOUS
    <3>1. j <= m /\ m <= j /\ m \in Int  BY <1>2c, <1>3, <2>1, <2>2
    <3> QED  BY <1>2c, <3>1
  <2> QED  BY <1>4, <2>1, <2>2, <2>3
<1> QED  BY <1>5, <1>6

\* The entities are decoded: the target is within reach of the full packets so far.
Caught(c, k, T) ==
  /\ ~BaselineMayChange => Follows(c, k)
  /\ k >= 5 => T - TickAt(k) <= FullPacketSpacing

\* They are not: another full packet is to come before the target.
Coming(c, k, T) ==
  /\ k >= 5
  /\ ~BaselineMayChange => Warm(c, game[k])
  /\ \E j : LastUpTo(j, k) /\ T - demo[j].tick > FullPacketSpacing

\* A seek to T that has not ended, behind command k.
Seeking(s, k, T) ==
  /\ s.flow # "Break" /\ Live(s.p, k) /\ s.p.ctx.tick = TickAt(k) /\ Ready(s.p.ctx, k)
  /\ s.l.first_sync_tick <=> k >= 4
  /\ \A i \in 1..k : demo[i].tick <= T
  /\ k <= 4 \/ s.l.last_full_packet => Caught(s.p.ctx, k, T)
  /\ k > 4 /\ ~s.l.last_full_packet => Coming(s.p.ctx, k, T)
  /\ k <= 4 => ~s.l.last_full_packet

\* A seek that has ended.
Sought(p, T) == Live(p, AtTick(T)) /\ Reached(p.ctx, AtTick(T))

\* A seek that finds a command past its target, or none, is where it should be.
LEMMA SeekEnds ==
  ASSUME RecordingInv, Len(demo) >= 5, NEW T \in Int, T <= demo[Len(demo)].tick,
         NEW k \in 0..Len(demo), NEW s, Seeking(s, k, T),
         k = Len(demo) \/ demo[k + 1].tick > T
  PROVE  AtTick(T) = k /\ Reached(s.p.ctx, k)
<1>0. Len(demo) \in Nat /\ k \in Nat  BY DemoAssumption DEF RecordingInv, Recorded
<1>1. AtTick(T) = k  BY AtTickIs DEF Seeking
<1>2. k <= 4 \/ s.l.last_full_packet
  <2> SUFFICES ASSUME k > 4, ~s.l.last_full_packet PROVE FALSE  BY <1>0
  <2>1. k \in 5..Len(demo)  BY <1>0
  <2>2. Coming(s.p.ctx, k, T)  BY DEF Seeking
  <2>3. PICK j : LastUpTo(j, k) /\ T - demo[j].tick > FullPacketSpacing  BY <2>2 DEF Coming
  <2>4. /\ j \in 1..Len(demo)
        /\ demo[k].tick <= demo[j].tick + FullPacketSpacing
        /\ k + 1 <= Len(demo) => demo[k + 1].tick <= demo[j].tick + FullPacketSpacing
    BY <2>1, <2>3, SpacingFacts
  <2>5. demo[j].tick \in Int /\ demo[k].tick \in Int  BY <2>1, <2>4, <1>0, CommandFacts
  <2>6. FullPacketSpacing \in Nat  BY DemoAssumption DEF FullPacketSpacing
  <2>7. CASE k = Len(demo)
    <3>1. T <= demo[k].tick  BY <2>7
    <3> QED  BY <2>3, <2>4, <2>5, <2>6, <3>1
  <2>8. CASE k # Len(demo)
    <3> DEFINE n == k + 1
    <3>1. n \in 1..Len(demo) /\ demo[n].tick > T /\ demo[n].tick <= demo[j].tick + FullPacketSpacing
      BY <1>0, <2>4, <2>8
    <3>2. demo[n].tick \in Int  BY <3>1, CommandFacts
    <3> HIDE DEF n
    <3> QED  BY <2>3, <2>5, <2>6, <3>1, <3>2
  <2> QED  BY <2>7, <2>8
<1> QED  BY <1>1, <1>2 DEF Seeking, Caught, Reached

\* A command that a seek reads when it has not ended: what is known then.
LEMMA SeekReads ==
  ASSUME RecordingInv, NEW T \in Int, NEW k \in 1..Len(demo), NEW s, Seeking(s, k - 1, T),
         ~s.p.skip_entity_packets,
         NEW r \in Parsers, r.result = "ok", r.pos = k, r.ctx.tick = TickAt(k),
         r.skip_entity_packets = s.p.skip_entity_packets, Retimed(s.p.ctx, r.ctx)
  PROVE  /\ Live(r, k) /\ ~r.skip_entity_packets /\ Ready(r.ctx, k - 1)
         /\ k <= 5 \/ s.l.last_full_packet => (~BaselineMayChange => Follows(r.ctx, k - 1))
         /\ k > 5 /\ ~s.l.last_full_packet => (~BaselineMayChange => Warm(r.ctx, game[k - 1]))
         /\ k >= 5 => (~BaselineMayChange => Behind(r.ctx, game[k - 1]))
         /\ k = 5 => (~BaselineMayChange => Warm(r.ctx, game[k - 1]))
<1> DEFINE j == k - 1
           d == s.p.ctx
           e == r.ctx
           g == game[k - 1]
           x == s.l.last_full_packet
<1>0. k \in Nat /\ k >= 1 /\ j \in Nat /\ (j <= 4 <=> k <= 5) /\ (j # 0 <=> k # 1)
  BY DemoAssumption DEF RecordingInv, Recorded
<1>1. Seeking(s, j, T) /\ Retimed(d, e)  OBVIOUS
<1>2. k = 5 => g = NewGame  BY DEF RecordingInv, Recorded
<1>3. k # 1 => (Follows(e, j) <=> Tracks(e, g))  BY <1>0 DEF Follows
<1> HIDE DEF j, d, e, g, x
<1>4. Ready(d, j) /\ (j <= 4 \/ x => Caught(d, j, T)) /\ (j > 4 /\ ~x => Coming(d, j, T))
  BY <1>1 DEF Seeking, d, x
<1>5. Ready(e, j)  BY <1>1, <1>4, RetimedFacts
<1>6. j <= 4 \/ x => (~BaselineMayChange => Follows(e, j))
  BY <1>1, <1>4, RetimedFacts DEF Caught
<1>7. j > 4 /\ ~x => (~BaselineMayChange => Warm(e, g))
  BY <1>1, <1>4, RetimedBehind DEF Coming, g, j
<1>8. k >= 5 => (~BaselineMayChange => Behind(e, g))
  BY <1>0, <1>3, <1>6, <1>7, BehindFacts
<1>9. k = 5 => (~BaselineMayChange => Warm(e, g))
  <2> SUFFICES ASSUME k = 5, ~BaselineMayChange PROVE Warm(e, g)  OBVIOUS
  <2>1. Tracks(e, g)  BY <1>0, <1>3, <1>6
  <2>2. g = NewGame  BY <1>2
  <2>3. Baseline(g) = 0 /\ DOMAIN g.entities = {}  BY <2>2, SignonFacts
  <2> QED  BY <2>1, <2>3 DEF Tracks, Warm, Cache
<1> QED  BY <1>0, <1>5, <1>6, <1>7, <1>8, <1>9 DEF j, e, g, x, Live

\* A header that is unread again: only the tick changes.
LEMMA UnreadingFacts ==
  ASSUME NEW p \in Parsers, p.pos >= 1, NEW q, q = UnreadHeader(p)
  PROVE  /\ q \in Parsers /\ q.pos = p.pos - 1 /\ q.fails = p.fails /\ q.result = p.result
         /\ q.skip_entity_packets = p.skip_entity_packets /\ q.collecting = p.collecting
         /\ q.ctx.tick = p.ctx.prev_tick /\ Retimed(p.ctx, q.ctx)
<1> DEFINE c == p.ctx
<1>1. /\ q \in Parsers /\ q.pos = p.pos - 1 /\ q.fails = p.fails /\ q.result = p.result
      /\ q.skip_entity_packets = p.skip_entity_packets /\ q.collecting = p.collecting
      /\ q.ctx = HeaderUnread(c)
  BY UnreadHeaderFacts
<1>2. c \in Contexts  BY DEF Parsers
<1> HIDE DEF c
<1>3. Retimed(c, HeaderUnread(c)) /\ HeaderUnread(c).tick = c.prev_tick
  BY <1>2 DEF Retimed, HeaderUnread, Contexts
<1> QED  BY <1>1, <1>3 DEF c

\* What was reached before the header was read is what is reached once it is unread.
LEMMA UnreadReached ==
  ASSUME NEW c, NEW k, Reached(c, k), NEW p \in Parsers, p.pos >= 1,
         Retimed(c, p.ctx), p.ctx.prev_tick = c.tick, NEW q, q = UnreadHeader(p)
  PROVE  Reached(q.ctx, k)
<1> DEFINE d == p.ctx
           e == q.ctx
<1>1. Retimed(c, d) /\ Retimed(d, e) /\ e.tick = c.tick  BY UnreadingFacts
<1> HIDE DEF d, e
<1>2. Ready(d, k) /\ (~BaselineMayChange => Follows(d, k))  BY <1>1, RetimedFacts DEF Reached
<1>3. Ready(e, k) /\ (~BaselineMayChange => Follows(e, k))  BY <1>1, <1>2, RetimedFacts
<1> QED  BY <1>1, <1>3 DEF Reached, e

\* Ticks, one command after another.
LEMMA TickFacts ==
  ASSUME RecordingInv, NEW k \in 1..Len(demo)
  PROVE  /\ TickAt(k) = demo[k].tick /\ TickAt(k) \in Int /\ TickAt(k - 1) \in Int
         /\ k > 1 => TickAt(k - 1) <= TickAt(k)
<1> DEFINE j == k - 1
<1>1. Len(demo) \in Nat /\ Timed  BY DemoAssumption DEF RecordingInv, Recorded
<1>2. k \in Nat /\ k # 0 /\ k \in 1..Len(demo) /\ j \in Nat /\ j <= k /\ (j = 0 \/ j \in 1..Len(demo))
      /\ (k > 1 => j # 0)
  BY <1>1
<1> HIDE DEF j
<1>3. TickAt(k) = demo[k].tick /\ TickAt(k) \in Int  BY <1>2, CommandFacts DEF TickAt
<1>4. CASE j = 0  BY <1>2, <1>3, <1>4 DEF TickAt, j
<1>5. CASE j \in 1..Len(demo)
  <2>1. TickAt(j) = demo[j].tick /\ TickAt(j) \in Int
    <3>1. j # 0  BY <1>5
    <3> QED  BY <1>5, <3>1, CommandFacts DEF TickAt
  <2>2. demo[j].tick <= demo[k].tick  BY <1>1, <1>2, <1>5 DEF Timed
  <2> QED  BY <1>3, <2>1, <2>2 DEF j
<1> QED  BY <1>2, <1>4, <1>5

\* The signon part of a seek, up to its end.
LEMMA SeekSignon ==
  ASSUME RecordingInv, NEW k \in 1..4, NEW c, c = demo[k]
  PROVE  c.cmd = "DemSyncTick" <=> k >= 4
<1>1. c = Signon[k]  BY DEF RecordingInv, Recorded
<1>2. k = 1 \/ k = 2 \/ k = 3 \/ k = 4  OBVIOUS
<1> QED  BY <1>1, <1>2 DEF Signon, Command

\* A command that a seek leaves out.
LEMMA SeekSkips ==
  ASSUME RecordingInv, NEW T \in Int, NEW k \in 6..Len(demo), ~IsFullPacket(k),
         NEW c, Coming(c, k - 1, T), NEW d, Ready(d, k - 1),
         ~BaselineMayChange => Warm(d, game[k - 1])
  PROVE  Coming(d, k, T) /\ Ready(d, k)
<1> DEFINE j == k - 1
<1>1. k \in Nat /\ j \in Nat /\ k >= 5 /\ k >= 4 /\ j >= 4 /\ j + 1 = k /\ k \in 5..Len(demo)
  BY DemoAssumption DEF RecordingInv, Recorded
<1>2. ~BaselineMayChange => Warm(d, game[k])  BY <1>1, SkippedCommand
<1>3. \E i : LastUpTo(i, k) /\ T - demo[i].tick > FullPacketSpacing
  <2>1. PICK i : LastUpTo(i, j) /\ T - demo[i].tick > FullPacketSpacing  BY DEF Coming
  <2> HIDE DEF j
  <2>2. i \in 1..k  BY <1>1, <2>1 DEF LastUpTo
  <2>3. \A n \in i + 1..k : n \in i + 1..j \/ n = k  BY <1>1, <2>2
  <2>4. LastUpTo(i, k)  BY <2>1, <2>2, <2>3 DEF LastUpTo
  <2> QED  BY <2>1, <2>4
<1>4. Ready(d, k)
  <2>1. Ready(d, j)  OBVIOUS
  <2> HIDE DEF j
  <2> QED  BY <1>1, <2>1, ReadyFacts
<1> QED  BY <1>1, <1>2, <1>3, <1>4 DEF Coming

\* What a turn of a seek leaves: it goes on, failed with a callback, or has ended.
SeekTurned(s, t, k, T) ==
  /\ t \in LoopStates /\ t.l \in SeekLocals /\ t.l.target_tick = T
  /\ ~t.p.skip_entity_packets /\ t.p.fails = s.p.fails
  /\ Seeking(t, k, T) \/ Failed(t.p) \/ (t.flow = "Break" /\ Sought(t.p, T))

\* A command past the target.
LEMMA SeekBreaks ==
  ASSUME RecordingInv, Len(demo) >= 5, NEW T \in Int, T <= demo[Len(demo)].tick,
         NEW k \in 1..Len(demo), NEW s, Seeking(s, k - 1, T), demo[k].tick > T,
         NEW r \in Parsers, r.result = "ok", r.pos = k, r.ctx.prev_tick = s.p.ctx.tick,
         Retimed(s.p.ctx, r.ctx), NEW q, q = UnreadHeader(r)
  PROVE  /\ Sought(q, T) /\ q.fails = r.fails /\ q.skip_entity_packets = r.skip_entity_packets
<1> DEFINE j == k - 1
           c == s.p.ctx
<1>1. k \in Nat /\ j \in Nat /\ j \in 0..Len(demo) /\ j + 1 = k /\ k >= 1
  BY DemoAssumption DEF RecordingInv, Recorded
<1>2. Seeking(s, j, T) /\ (j = Len(demo) \/ demo[j + 1].tick > T)  BY <1>1
<1>3. AtTick(T) = j /\ Reached(c, j)
  <2> HIDE DEF j, c
  <2>1. AtTick(T) = j /\ Reached(s.p.ctx, j)  BY <1>1, <1>2, SeekEnds
  <2> QED  BY <2>1 DEF c
<1>4. r.pos >= 1 /\ Retimed(c, r.ctx) /\ r.ctx.prev_tick = c.tick  BY <1>1
<1> HIDE DEF c, j
<1>5. Reached(q.ctx, j)  BY <1>3, <1>4, UnreadReached
<1>6. /\ q \in Parsers /\ q.pos = r.pos - 1 /\ q.fails = r.fails /\ q.result = r.result
      /\ q.skip_entity_packets = r.skip_entity_packets
  BY <1>4, UnreadingFacts
<1>7. Live(q, j)  BY <1>6 DEF Live, j
<1> QED  BY <1>3, <1>5, <1>6, <1>7 DEF Sought

\* A command that a seek handles: one of the signon part, or one behind the last full
\* packet before the target.
LEMMA SeekHandles ==
  ASSUME RecordingInv, NEW T \in Int, NEW k \in 1..Len(demo), NEW s, Seeking(s, k - 1, T),
         demo[k].tick <= T, ~s.p.skip_entity_packets,
         k <= 4 \/ (k > 5 /\ s.l.last_full_packet),
         NEW r \in Parsers, r.result = "ok", r.pos = k, r.ctx.tick = TickAt(k),
         r.skip_entity_packets = s.p.skip_entity_packets, Retimed(s.p.ctx, r.ctx),
         NEW t, t.flow = "Handle", t.p = TickEnded(handle_cmd(r, demo[k])),
         t.l.last_full_packet = s.l.last_full_packet, t.l.first_sync_tick <=> k >= 4
  PROVE  /\ Seeking(t, k, T) \/ Failed(t.p)
         /\ t.p.fails = r.fails /\ ~t.p.skip_entity_packets
<1> DEFINE j == k - 1
           q == t.p
<1>0. k \in Nat /\ k >= 1 /\ j \in Nat /\ j + 1 = k
  BY DemoAssumption DEF RecordingInv, Recorded
<1>1. /\ Live(r, k) /\ ~r.skip_entity_packets /\ Ready(r.ctx, k - 1)
      /\ k <= 5 \/ s.l.last_full_packet => (~BaselineMayChange => Follows(r.ctx, k - 1))
  BY SeekReads
<1>2. q = TickEnded(handle_cmd(r, demo[k]))  OBVIOUS
<1> HIDE DEF q
<1>3. /\ Live(q, k) \/ Failed(q)
      /\ q.fails = r.fails
      /\ q.skip_entity_packets = r.skip_entity_packets /\ q.ctx.tick = TickAt(k)
      /\ Live(q, k) => Ready(q.ctx, k)
      /\ Live(q, k) /\ ~BaselineMayChange /\ Follows(r.ctx, k - 1) => Follows(q.ctx, k)
  BY <1>1, <1>2, NextCommand
<1>4. ~BaselineMayChange => Follows(r.ctx, k - 1)  BY <1>0, <1>1
<1>5. ASSUME Live(q, k) PROVE Seeking(t, k, T)
  <2>1. Ready(q.ctx, k) /\ (~BaselineMayChange => Follows(q.ctx, k))  BY <1>3, <1>4, <1>5
  <2>2. Seeking(s, j, T)  OBVIOUS
  <2> HIDE DEF j
  <2>3. \A i \in 1..k : demo[i].tick <= T
    <3>1. \A i \in 1..j : demo[i].tick <= T  BY <2>2 DEF Seeking
    <3>2. \A i \in 1..k : i \in 1..j \/ i = k  BY <1>0
    <3> QED  BY <3>1, <3>2
  <2>4. k >= 5 => T - TickAt(k) <= FullPacketSpacing
    <3> SUFFICES ASSUME k >= 5 PROVE T - TickAt(k) <= FullPacketSpacing  OBVIOUS
    <3>1. Caught(s.p.ctx, j, T) /\ j >= 5  BY <1>0, <2>2 DEF Seeking
    <3>2. T - TickAt(j) <= FullPacketSpacing  BY <3>1 DEF Caught
    <3>3. TickAt(j) <= TickAt(k) /\ TickAt(j) \in Int /\ TickAt(k) \in Int
      BY <1>0, TickFacts DEF j
    <3>4. FullPacketSpacing \in Nat  BY DemoAssumption DEF FullPacketSpacing
    <3> QED  BY <3>2, <3>3, <3>4
  <2>5. Caught(q.ctx, k, T)  BY <2>1, <2>4 DEF Caught
  <2>6. k > 4 => t.l.last_full_packet  BY <1>0
  <2>7. k <= 4 => ~t.l.last_full_packet
    <3>1. k <= 4 => j <= 4  BY <1>0
    <3> QED  BY <2>2, <3>1, <1>0 DEF Seeking
  <2>8. t.p = q  BY DEF q
  <2> HIDE DEF q
  <2> QED  BY <1>3, <1>5, <2>1, <2>3, <2>5, <2>6, <2>7, <2>8 DEF Seeking
<1> QED  BY <1>1, <1>3, <1>5 DEF q

\* A command between full packets that are too early.
LEMMA SeekLeavesOut ==
  ASSUME RecordingInv, NEW T \in Int, NEW k \in 6..Len(demo), NEW s, Seeking(s, k - 1, T),
         demo[k].tick <= T, ~s.p.skip_entity_packets, ~s.l.last_full_packet, ~IsFullPacket(k),
         NEW r \in Parsers, r.result = "ok", r.pos = k, r.ctx.tick = TickAt(k),
         r.skip_entity_packets = s.p.skip_entity_packets, Retimed(s.p.ctx, r.ctx),
         NEW t, t.flow = "Skip", t.p = r, t.l = s.l
  PROVE  Seeking(t, k, T)
<1> DEFINE j == k - 1
           c == s.p.ctx
           d == r.ctx
<1>0. k \in Nat /\ k > 5 /\ k \in 1..Len(demo) /\ j \in Nat /\ j + 1 = k /\ j > 4
  BY DemoAssumption DEF RecordingInv, Recorded
<1>1. /\ Live(r, k) /\ Ready(d, k - 1)
      /\ k > 5 /\ ~s.l.last_full_packet => (~BaselineMayChange => Warm(d, game[k - 1]))
  BY <1>0, SeekReads
<1>2. Seeking(s, j, T)  OBVIOUS
<1>3. Coming(c, j, T)
  <2> HIDE DEF j
  <2> QED  BY <1>0, <1>2 DEF Seeking
<1>4. Coming(d, k, T) /\ Ready(d, k)
  <2>1. Coming(c, k - 1, T)  BY <1>3
  <2> HIDE DEF c, d, j
  <2> QED  BY <1>0, <1>1, <2>1, SeekSkips
<1> HIDE DEF j, c
<1>5. \A i \in 1..k : demo[i].tick <= T
  <2>1. \A i \in 1..j : demo[i].tick <= T  BY <1>2 DEF Seeking
  <2>2. \A i \in 1..k : i \in 1..j \/ i = k  BY <1>0
  <2> QED  BY <2>1, <2>2
<1>6. s.l.first_sync_tick  BY <1>0, <1>2 DEF Seeking
<1> QED  BY <1>0, <1>1, <1>4, <1>5, <1>6 DEF Seeking

\* A full packet: its entities are left out where another one is to come.
LEMMA SeekApplies ==
  ASSUME RecordingInv, NEW T \in Int, NEW k \in 5..Len(demo), NEW s, Seeking(s, k - 1, T),
         demo[k].tick <= T, ~s.p.skip_entity_packets, IsFullPacket(k),
         NEW r \in Parsers, r.result = "ok", r.pos = k, r.ctx.tick = TickAt(k),
         r.skip_entity_packets = s.p.skip_entity_packets, Retimed(s.p.ctx, r.ctx),
         NEW t, t.flow = "Ignore", t.l.first_sync_tick,
         t.p = FullPacketApplied(r, demo[k], ~HasFullPacketAhead(r, T)),
         t.l.last_full_packet <=> ~HasFullPacketAhead(r, T)
  PROVE  /\ Seeking(t, k, T) \/ Failed(t.p)
         /\ t.p.fails = r.fails /\ ~t.p.skip_entity_packets
<1> DEFINE j == k - 1
           q == t.p
           w == ~HasFullPacketAhead(r, T)
           d == r.ctx
           e == q.ctx
<1>0. k \in Nat /\ k >= 5 /\ k > 4 /\ k \in 1..Len(demo) /\ j \in Nat /\ j + 1 = k /\ j >= 4
  BY DemoAssumption DEF RecordingInv, Recorded
<1>1. /\ Live(r, k) /\ ~r.skip_entity_packets /\ Ready(d, k - 1)
      /\ k > 5 /\ ~s.l.last_full_packet => (~BaselineMayChange => Warm(d, game[k - 1]))
      /\ k >= 5 => (~BaselineMayChange => Behind(d, game[k - 1]))
      /\ k = 5 => (~BaselineMayChange => Warm(d, game[k - 1]))
  BY <1>0, SeekReads
<1>2. /\ T - TickAt(k) \in Int /\ TickAt(k) = demo[k].tick
      /\ w <=> T - TickAt(k) <= FullPacketSpacing
  <2>1. TickAt(k) \in Int /\ TickAt(k) = demo[k].tick  BY <1>0, TickFacts
  <2>2. d.full_packet_interval = DEFAULT_FULL_PACKET_INTERVAL * TickRatio
    <3>1. Ready(d, j)  BY <1>1
    <3> HIDE DEF j, d
    <3> QED  BY <1>0, <3>1 DEF Ready
  <2>3. FullPacketSpacing = d.full_packet_interval + FullPacketSlack  BY <2>2 DEF FullPacketSpacing
  <2>4. w <=> ~(T - TickAt(k) > FullPacketSpacing)  BY <2>3 DEF HasFullPacketAhead
  <2>5. FullPacketSpacing \in Nat  BY DemoAssumption DEF FullPacketSpacing
  <2> HIDE DEF w
  <2> QED  BY <2>1, <2>4, <2>5
<1>3. w \in BOOLEAN  OBVIOUS
<1>4. q = FullPacketApplied(r, demo[k], w) /\ (t.l.last_full_packet <=> w)  OBVIOUS
<1> HIDE DEF w
<1>5. /\ Handles(r, q) /\ Holds(r, q)
      /\ q.result = "ok" => Ready(e, k)
      /\ q.result = "ok" /\ w /\ Behind(d, game[k - 1]) => Follows(e, k)
      /\ q.result = "ok" /\ ~w /\ Warm(d, game[k - 1]) => Warm(e, game[k])
  <2> HIDE DEF q, d, e
  <2>1. /\ Handles(r, q) /\ Holds(r, q)
        /\ q.result = "ok" => Ready(q.ctx, k)
        /\ q.result = "ok" /\ w /\ Behind(r.ctx, game[k - 1]) => Follows(q.ctx, k)
        /\ q.result = "ok" /\ ~w /\ Warm(r.ctx, game[k - 1]) => Warm(q.ctx, game[k])
    <3>1. Ready(r.ctx, k - 1)  BY <1>1 DEF d
    <3> QED  BY <1>1, <1>3, <1>4, <3>1, AppliedAdvances
  <2> QED  BY <2>1 DEF d, e
<1>6. /\ Live(q, k) \/ Failed(q)
      /\ q.fails = r.fails
      /\ q.skip_entity_packets = r.skip_entity_packets /\ q.ctx.tick = r.ctx.tick
  <2> HIDE DEF q
  <2>1. k \in Nat /\ k >= 1  BY <1>0
  <2> QED  BY <1>1, <1>5, <2>1, HandledFacts
<1>7. Seeking(s, j, T)  OBVIOUS
<1>8. ASSUME Live(q, k) PROVE Seeking(t, k, T)
  <2>1. q.result = "ok"  BY <1>8 DEF Live
  <2>2. \A i \in 1..k : demo[i].tick <= T
    <3> HIDE DEF j
    <3>1. \A i \in 1..j : demo[i].tick <= T  BY <1>7 DEF Seeking
    <3>2. \A i \in 1..k : i \in 1..j \/ i = k  BY <1>0
    <3> QED  BY <3>1, <3>2
  <2>3. CASE w
    <3>1. Caught(e, k, T)  BY <1>0, <1>1, <1>2, <1>5, <2>1, <2>3 DEF Caught
    <3>2. Ready(e, k) /\ e.tick = TickAt(k)  BY <1>5, <1>6, <2>1
    <3> QED  BY <1>0, <1>4, <1>8, <2>2, <2>3, <3>1, <3>2 DEF Seeking
  <2>4. CASE ~w
    <3>1. ~BaselineMayChange => Warm(d, game[k - 1])
      <4>1. CASE k = 5  BY <1>1, <4>1
      <4>2. CASE k # 5 /\ ~s.l.last_full_packet  BY <1>0, <1>1, <4>2
      <4>3. CASE k # 5 /\ s.l.last_full_packet
        <5> HIDE DEF j
        <5>1. Caught(s.p.ctx, j, T) /\ j >= 5  BY <1>0, <1>7, <4>3 DEF Seeking
        <5>2. T - TickAt(j) <= FullPacketSpacing  BY <5>1 DEF Caught
        <5>3. TickAt(j) <= TickAt(k) /\ TickAt(j) \in Int /\ TickAt(k) \in Int
          BY <1>0, TickFacts DEF j
        <5>4. FullPacketSpacing \in Nat  BY DemoAssumption DEF FullPacketSpacing
        <5>5. T - TickAt(k) <= FullPacketSpacing  BY <5>2, <5>3, <5>4
        <5> QED  BY <1>2, <2>4, <5>5
      <4> QED  BY <4>1, <4>2, <4>3
    <3>2. ~BaselineMayChange => Warm(e, game[k])  BY <1>5, <2>1, <2>4, <3>1
    <3>3. T - demo[k].tick > FullPacketSpacing
      <4>1. ~(T - TickAt(k) <= FullPacketSpacing)  BY <1>2, <2>4
      <4>2. FullPacketSpacing \in Nat  BY DemoAssumption DEF FullPacketSpacing
      <4> QED  BY <1>2, <4>1, <4>2
    <3>4. LastUpTo(k, k)
      <4>1. k \in 1..k /\ k + 1..k = {}  BY <1>0
      <4> QED  BY <4>1 DEF LastUpTo
    <3>5. Coming(e, k, T)  BY <1>0, <3>2, <3>3, <3>4 DEF Coming
    <3>6. Ready(e, k) /\ e.tick = TickAt(k)  BY <1>5, <1>6, <2>1
    <3> QED  BY <1>0, <1>4, <1>8, <2>2, <2>4, <3>5, <3>6 DEF Seeking
  <2> QED  BY <2>3, <2>4
<1> QED  BY <1>1, <1>6, <1>8

\* One turn of a seek.
LEMMA SeekTurn ==
  ASSUME RecordingInv, Len(demo) >= 5, NEW T \in Int, T <= demo[Len(demo)].tick,
         NEW s \in LoopStates, s.l \in SeekLocals, s.l.target_tick = T, ~s.p.skip_entity_packets,
         NEW k \in 1..Len(demo), Seeking(s, k - 1, T), NEW t, t = RunCommand(s, k)
  PROVE  SeekTurned(s, t, k, T)
<1>0. /\ k \in Nat /\ (k \in 1..4 \/ k \in 5..Len(demo)) /\ (k \in 5..Len(demo) => k = 5 \/ k \in 6..Len(demo))
      /\ IsFullPacket(5) /\ demo[k] \in Commands /\ demo[k].tick \in Int
  BY SMTT(60), DemoAssumption, CommandFacts DEF RecordingInv, Recorded, Timed
<1>1. s.flow # "Break" /\ s.p.result = "ok"  BY DEF Seeking, Live
<1>2. PICK r, u, h : Turn(s, k, t, r, u, h)  BY <1>1, RunTurn
<1> DEFINE c == demo[k]
<1>3. /\ r \in Parsers /\ r.result = "ok" /\ r.pos = k /\ r.fails = s.p.fails
      /\ r.skip_entity_packets = s.p.skip_entity_packets
      /\ r.ctx.tick = TickAt(k) /\ r.ctx.prev_tick = s.p.ctx.tick /\ Retimed(s.p.ctx, r.ctx)
      /\ u \in LoopStates /\ u.p = r /\ u.l = s.l
      /\ h \in LoopStates /\ h = Handler(u, c)
      /\ t \in LoopStates /\ t.l = h.l /\ t.flow = h.flow
      /\ h.flow = "Break" => t.p = UnreadHeader(h.p)
      /\ h.flow = "Handle" => t.p = TickEnded(handle_cmd(h.p, c))
      /\ h.flow \in {"Skip", "Ignore"} => t.p = h.p
  BY <1>2 DEF Turn
<1>4. h = SeekHandler(u, c)
  <2>1. u.l.run = "run_to_tick"  BY <1>3 DEF SeekLocals
  <2> QED  BY <1>3, <2>1 DEF Handler
<1>5. /\ h.l \in SeekLocals /\ h.l.target_tick = T
      /\ c.tick > T => h.p = r /\ h.flow = "Break" /\ h.l = s.l
      /\ c.tick <= T /\ ~s.l.first_sync_tick =>
           /\ h.p = r /\ h.flow = "Handle" /\ h.l.last_full_packet = s.l.last_full_packet
           /\ h.l.first_sync_tick <=> c.cmd = "DemSyncTick"
      /\ c.tick <= T /\ s.l.first_sync_tick /\ c.cmd # "DemFullPacket" =>
           /\ h.p = r /\ h.l = s.l
           /\ h.flow = IF s.l.last_full_packet THEN "Handle" ELSE "Skip"
      /\ c.tick <= T /\ s.l.first_sync_tick /\ c.cmd = "DemFullPacket" =>
           /\ h.flow = "Ignore" /\ h.l.first_sync_tick
           /\ h.l.last_full_packet <=> ~HasFullPacketAhead(r, T)
           /\ h.p = FullPacketApplied(r, c, ~HasFullPacketAhead(r, T))
  <2>1. c \in Commands /\ u \in LoopStates /\ u.l \in SeekLocals /\ u.p.result = "ok"
    BY <1>0, <1>3
  <2>2. /\ h.l \in SeekLocals /\ h.l.target_tick = u.l.target_tick
        /\ c.tick > u.l.target_tick => h.p = u.p /\ h.flow = "Break" /\ h.l = u.l
        /\ c.tick <= u.l.target_tick /\ ~u.l.first_sync_tick =>
             /\ h.p = u.p /\ h.flow = "Handle" /\ h.l.last_full_packet = u.l.last_full_packet
             /\ h.l.first_sync_tick <=> c.cmd = "DemSyncTick"
        /\ c.tick <= u.l.target_tick /\ u.l.first_sync_tick /\ c.cmd # "DemFullPacket" =>
             /\ h.p = u.p /\ h.l = u.l
             /\ h.flow = IF u.l.last_full_packet THEN "Handle" ELSE "Skip"
        /\ c.tick <= u.l.target_tick /\ u.l.first_sync_tick /\ c.cmd = "DemFullPacket" =>
             /\ h.flow = "Ignore" /\ h.l.first_sync_tick
             /\ h.l.last_full_packet <=> ~HasFullPacketAhead(u.p, u.l.target_tick)
             /\ h.p = FullPacketApplied(u.p, c, ~HasFullPacketAhead(u.p, u.l.target_tick))
    <3> HIDE DEF c
    <3> QED  BY <1>4, <2>1, SeekHandlerFacts
  <2> HIDE DEF c
  <2> QED  BY <1>3, <2>2
<1>6. s.l.first_sync_tick <=> k > 4
  <2> DEFINE j == k - 1
  <2>1. Seeking(s, j, T) /\ (j >= 4 <=> k > 4)  BY <1>0
  <2> HIDE DEF j
  <2> QED  BY <2>1 DEF Seeking
<1>7. t \in LoopStates /\ t.l \in SeekLocals /\ t.l.target_tick = T  BY <1>3, <1>5
<1> DEFINE q == t.p
<1>8. (Seeking(t, k, T) \/ Failed(q) \/ (t.flow = "Break" /\ Sought(q, T)))
      /\ q.fails = r.fails /\ ~q.skip_entity_packets
  <2>1. CASE c.tick > T
    <3>1. q = UnreadHeader(r) /\ t.flow = "Break"  BY <1>3, <1>5, <2>1
    <3> HIDE DEF q
    <3>2. Sought(q, T) /\ q.fails = r.fails /\ q.skip_entity_packets = r.skip_entity_packets
      BY <1>3, <2>1, <3>1, SeekBreaks
    <3> QED  BY <1>3, <3>1, <3>2
  <2>2. CASE c.tick <= T /\ k \in 1..4
    <3>1. ~s.l.first_sync_tick /\ (c.cmd = "DemSyncTick" <=> k >= 4) /\ k <= 4
      <4>1. k <= 4 /\ ~(k > 4)  BY <2>2
      <4>2. c.cmd = "DemSyncTick" <=> k >= 4  BY <2>2, SeekSignon
      <4> QED  BY <1>6, <4>1, <4>2
    <3>2. /\ t.flow = "Handle" /\ t.p = TickEnded(handle_cmd(r, demo[k]))
          /\ t.l.last_full_packet = s.l.last_full_packet /\ (t.l.first_sync_tick <=> k >= 4)
      BY <1>3, <1>5, <2>2, <3>1
    <3>3. /\ Seeking(t, k, T) \/ Failed(t.p)
          /\ t.p.fails = r.fails /\ ~t.p.skip_entity_packets
      BY <1>3, <2>2, <3>1, <3>2, SeekHandles
    <3> QED  BY <3>3
  <2>3. CASE c.tick <= T /\ k \in 5..Len(demo) /\ IsFullPacket(k)
    <3>1. s.l.first_sync_tick /\ c.cmd = "DemFullPacket"  BY <1>6, <2>3 DEF IsFullPacket
    <3>2. /\ t.flow = "Ignore" /\ t.l.first_sync_tick
          /\ t.p = FullPacketApplied(r, demo[k], ~HasFullPacketAhead(r, T))
          /\ t.l.last_full_packet <=> ~HasFullPacketAhead(r, T)
      BY <1>3, <1>5, <2>3, <3>1
    <3>3. /\ Seeking(t, k, T) \/ Failed(t.p)
          /\ t.p.fails = r.fails /\ ~t.p.skip_entity_packets
      BY <1>3, <2>3, <3>2, SeekApplies
    <3> QED  BY <3>3
  <2>4. CASE c.tick <= T /\ k \in 5..Len(demo) /\ ~IsFullPacket(k) /\ s.l.last_full_packet
    <3>1. s.l.first_sync_tick /\ c.cmd # "DemFullPacket" /\ k > 5 /\ k >= 4
      BY <1>0, <1>6, <2>4 DEF IsFullPacket
    <3>2. /\ t.flow = "Handle" /\ t.p = TickEnded(handle_cmd(r, demo[k]))
          /\ t.l.last_full_packet = s.l.last_full_packet /\ (t.l.first_sync_tick <=> k >= 4)
          /\ k <= 4 \/ (k > 5 /\ s.l.last_full_packet)
          /\ demo[k].tick <= T
      BY <1>3, <1>5, <2>4, <3>1
    <3> HIDE DEF c, q
    <3>3. /\ Seeking(t, k, T) \/ Failed(t.p)
          /\ t.p.fails = r.fails /\ ~t.p.skip_entity_packets
      BY <1>3, <3>2, SeekHandles
    <3> QED  BY <3>3 DEF q
  <2>5. CASE c.tick <= T /\ k \in 5..Len(demo) /\ ~IsFullPacket(k) /\ ~s.l.last_full_packet
    <3>1. s.l.first_sync_tick /\ c.cmd # "DemFullPacket" /\ k \in 6..Len(demo)
      BY <1>0, <1>6, <2>5 DEF IsFullPacket
    <3>2. t.flow = "Skip" /\ t.p = r /\ t.l = s.l
      BY <1>3, <1>5, <2>5, <3>1
    <3>3. Seeking(t, k, T)
      BY <1>3, <2>5, <3>1, <3>2, SeekLeavesOut
    <3> QED  BY <1>3, <3>2, <3>3
  <2>6. c.tick > T \/ c.tick <= T  BY <1>0
  <2> QED  BY <1>0, <2>1, <2>2, <2>3, <2>4, <2>5, <2>6
<1> QED  BY <1>3, <1>7, <1>8 DEF SeekTurned

\* A parser that was rewound is one that has reached the start.
LEMMA RewoundReached ==
  ASSUME NEW c, NEW d, d = Rewound(c)
  PROVE  Reached(d, 0) /\ d.tick = -1
BY DEF Rewound, Reached, TickAt, Ready, Follows, Fresh

\* run_to_tick ends before the first command past the target, and the context is that of
\* the game there, whichever full packets it left out; or a callback failed.
LEMMA SeekRun ==
  ASSUME RecordingInv, Len(demo) >= 5, NEW T \in Int, T <= demo[Len(demo)].tick,
         NEW p \in Parsers, p.pos = 0, Reached(p.ctx, 0), ~p.skip_entity_packets,
         NEW l, l = [run |-> "run_to_tick", target_tick |-> T, first_sync_tick |-> FALSE,
                     last_full_packet |-> FALSE],
         NEW q, q = run_seekable(p, l)
  PROVE  /\ q \in Parsers /\ q.fails = p.fails /\ ~q.skip_entity_packets
         /\ Sought(q, T) \/ Failed(q)
<1> DEFINE N == Len(demo)
           Good(k, s) == /\ s \in LoopStates /\ s.l \in SeekLocals /\ s.l.target_tick = T
                         /\ ~s.p.skip_entity_packets /\ s.p.fails = p.fails
                         /\ \/ Seeking(s, k, T) \/ Failed(s.p)
                            \/ s.flow = "Break" /\ Sought(s.p, T)
<1>1. N \in Nat /\ 0 \in 0..N  BY DemoAssumption DEF RecordingInv, Recorded
<1>2. PICK h : /\ h[p.pos] = Started(p, l) /\ q = h[N].p
               /\ \A k \in p.pos + 1..N : h[k] = RunCommand(h[k - 1], k)
  BY <1>1, RunSeekable
<1>2a. /\ h[0] = Started(p, l)
       /\ \A k \in 0 + 1..N : h[k] = RunCommand(h[k - 1], k)
  BY <1>2
<1>2b. l \in SeekLocals /\ l.target_tick = T /\ ~l.first_sync_tick /\ ~l.last_full_packet
  BY DEF SeekLocals
<1> DEFINE S == {k \in Nat : Good(k, h[k])}
<1>3. 0 \in S
  <2> DEFINE s == Started(p, l)
  <2>1. /\ s \in LoopStates /\ s.flow = "Handle" /\ s.l = l
        /\ s.p.pos = p.pos /\ s.p.fails = p.fails /\ s.p.ctx = p.ctx /\ s.p.result = "ok"
        /\ s.p.skip_entity_packets = p.skip_entity_packets
    BY <1>2b, StartedFacts
  <2> HIDE DEF s
  <2>2. s.p \in Parsers  BY <2>1 DEF LoopStates
  <2>3. Live(s.p, 0)  BY <2>1, <2>2 DEF Live
  <2>4. Seeking(s, 0, T)
    <3>1. Caught(s.p.ctx, 0, T)  BY <2>1 DEF Caught, Reached
    <3> QED  BY <1>2b, <2>1, <2>3, <3>1 DEF Seeking, Reached
  <2>5. Good(0, s)  BY <1>2b, <2>1, <2>4
  <2>6. h[0] = s  BY <1>2a DEF s
  <2> QED  BY <2>5, <2>6
<1>4. ASSUME NEW k \in 0 + 1..N, k - 1 \in S PROVE k \in S
  <2>1. k \in Nat /\ k \in 1..N  BY <1>1
  <2> DEFINE s == h[k - 1]
             t == h[k]
             j == k - 1
  <2>2. t = RunCommand(s, k) /\ Good(j, s)  BY <1>2a, <1>4
  <2> HIDE DEF s, t
  <2>3. CASE s.flow = "Break" \/ s.p.result # "ok"
    <3>1. s.flow = "Break" \/ s.p.result = "error"  BY <2>2, <2>3 DEF LoopStates, Parsers
    <3>2. t = s  BY <2>2, <3>1 DEF RunCommand
    <3> HIDE DEF j
    <3>3. ~Seeking(s, j, T)  BY <2>3 DEF Seeking, Live
    <3>4. Good(k, t)  BY <2>2, <3>2, <3>3
    <3> QED  BY <2>1, <3>4 DEF t
  <2>4. CASE s.flow # "Break" /\ s.p.result = "ok"
    <3>1. Seeking(s, k - 1, T)  BY <2>2, <2>4 DEF Failed
    <3> HIDE DEF j
    <3>2. SeekTurned(s, t, k, T)
      <4>1. /\ s \in LoopStates /\ s.l \in SeekLocals /\ s.l.target_tick = T
            /\ ~s.p.skip_entity_packets /\ t = RunCommand(s, k)
        BY <2>2
      <4> QED  BY <2>1, <3>1, <4>1, SeekTurn
    <3>3. Good(k, t)  BY <2>2, <3>2 DEF SeekTurned
    <3> QED  BY <2>1, <3>3 DEF t
  <2> QED  BY <2>3, <2>4
<1> HIDE DEF S, N
<1>4a. 0 \in Nat /\ N \in Nat  BY <1>1
<1>5. \A k \in 0..N : k \in S  BY <1>3, <1>4, <1>4a, UpInduction
<1>6. N \in S  BY <1>1, <1>5
<1>7. Good(N, h[N])  BY <1>6 DEF S
<1> DEFINE s == h[N]
<1>8. q = s.p /\ Good(N, s)  BY <1>2, <1>7
<1> HIDE DEF s
<1>9. q \in Parsers  BY <1>8 DEF LoopStates
<1>10. ASSUME Seeking(s, N, T) PROVE Sought(q, T)
  <2> DEFINE n == Len(demo)
  <2>1. Seeking(s, n, T) /\ n \in 0..Len(demo) /\ n = Len(demo)  BY <1>1, <1>10 DEF N
  <2> HIDE DEF n
  <2>2. AtTick(T) = n /\ Reached(s.p.ctx, n)  BY <2>1, SeekEnds
  <2>3. Live(s.p, n)  BY <2>1 DEF Seeking
  <2> QED  BY <1>8, <2>2, <2>3 DEF Sought
<1> QED  BY <1>8, <1>9, <1>10

------------------------------------------------------------------------------
(* run_full_packet.                                                        *)

\* n full packets were seen up to command k.
Seen(n, k) ==
  /\ n \in 0..Len(FullPackets)
  /\ \A i \in 1..n : FullPackets[i] <= k
  /\ n < Len(FullPackets) => FullPackets[n + 1] > k

\* The full packets, as numbers.
LEMMA FullPacketsAre ==
  ASSUME RecordingInv
  PROVE  /\ Len(FullPackets) \in Nat /\ Len(demo) \in Nat
         /\ \A o \in 1..Len(FullPackets) :
              /\ FullPackets[o] \in Nat /\ FullPackets[o] \in 1..Len(demo)
              /\ IsFullPacket(FullPackets[o])
         /\ \A o, u \in 1..Len(FullPackets) : o < u => FullPackets[o] < FullPackets[u]
         /\ \A j \in 1..Len(demo) :
              IsFullPacket(j) => \E o \in 1..Len(FullPackets) : FullPackets[o] = j
<1>1. Len(demo) \in Nat  BY DemoAssumption DEF RecordingInv, Recorded
<1> DEFINE F == FullPackets
<1>2. ListsFullPackets(F, Len(demo))  BY <1>1, FullPacketList
<1> HIDE DEF F
<1>3. F \in Seq(Nat) /\ Len(F) \in Nat  BY <1>2, LenProperties DEF ListsFullPackets
<1>4. \A o \in 1..Len(F) : F[o] \in Nat  BY <1>3, ElementOfSeq
<1> QED  BY <1>1, <1>2, <1>3, <1>4 DEF ListsFullPackets, F

\* None before the first command, all of them at the last.
LEMMA SeenEnds ==
  ASSUME RecordingInv
  PROVE  /\ Seen(0, 0)
         /\ \A n : Seen(n, Len(demo)) => n = Len(FullPackets)
<1> DEFINE F == FullPackets
           L == Len(FullPackets)
           N == Len(demo)
<1>1. L \in Nat /\ N \in Nat /\ \A o \in 1..L : F[o] \in Nat /\ F[o] \in 1..N
  BY FullPacketsAre
<1> HIDE DEF F, L, N
<1>2. Seen(0, 0)
  <2>1. 0 \in 0..L /\ 1..0 = {}  BY <1>1
  <2>2. 0 < L => F[0 + 1] > 0  BY <1>1
  <2> QED  BY <2>1, <2>2 DEF Seen, F, L
<1>3. ASSUME NEW n, Seen(n, N) PROVE n = L
  <2>1. n \in 0..L /\ (n < L => F[n + 1] > N)  BY <1>3 DEF Seen, F, L
  <2>2. n < L => n + 1 \in 1..L  BY <1>1, <2>1
  <2>3. n < L => FALSE  BY <1>1, <2>1, <2>2
  <2> QED  BY <1>1, <2>1, <2>3
<1> QED  BY <1>2, <1>3 DEF L, N

\* One more at a full packet, and at nothing else.
LEMMA SeenNext ==
  ASSUME RecordingInv, NEW k \in 1..Len(demo), NEW n, Seen(n, k - 1)
  PROVE  /\ IsFullPacket(k) =>
              /\ n + 1 \in 1..Len(FullPackets) /\ FullPackets[n + 1] = k /\ Seen(n + 1, k)
         /\ ~IsFullPacket(k) => Seen(n, k)
<1> DEFINE F == FullPackets
           L == Len(FullPackets)
           N == Len(demo)
<1>1. /\ L \in Nat /\ N \in Nat /\ k \in Nat /\ k \in 1..N
      /\ \A o \in 1..L : F[o] \in Nat /\ F[o] \in 1..N /\ IsFullPacket(F[o])
      /\ \A o, u \in 1..L : o < u => F[o] < F[u]
      /\ \A j \in 1..N : IsFullPacket(j) => \E o \in 1..L : F[o] = j
  BY FullPacketsAre
<1>2. n \in 0..L /\ (\A i \in 1..n : F[i] <= k - 1) /\ (n < L => F[n + 1] > k - 1)
  BY DEF Seen
<1> HIDE DEF F, L, N
<1>3. n \in Nat /\ n <= L /\ (\A i \in 1..n : i \in 1..L /\ F[i] <= k)
  <2>1. n \in Nat /\ n <= L /\ \A i \in 1..n : i \in 1..L  BY <1>1, <1>2
  <2>2. \A i \in 1..n : F[i] <= k  BY <1>1, <1>2, <2>1
  <2> QED  BY <2>1, <2>2
<1>4. ASSUME ~IsFullPacket(k) PROVE Seen(n, k)
  <2>1. n < L => F[n + 1] > k
    <3> SUFFICES ASSUME n < L PROVE F[n + 1] > k  OBVIOUS
    <3>1. n + 1 \in 1..L  BY <1>1, <1>3
    <3>2. F[n + 1] # k /\ F[n + 1] \in Nat  BY <1>1, <1>4, <3>1
    <3> QED  BY <1>1, <1>2, <3>2
  <2> QED  BY <1>2, <1>3, <2>1 DEF Seen, F, L
<1>5. ASSUME IsFullPacket(k) PROVE n + 1 \in 1..L /\ F[n + 1] = k /\ Seen(n + 1, k)
  <2> DEFINE m == n + 1
  <2>1. PICK o \in 1..L : F[o] = k  BY <1>1, <1>5
  <2>2. o > n
    <3>1. o \in 1..n => F[o] <= k - 1  BY <1>2
    <3>2. o \notin 1..n  BY <1>1, <2>1, <3>1
    <3> QED  BY <1>1, <1>3, <3>2
  <2>3. m \in Nat /\ m \in 1..L /\ (m = o \/ m < o) /\ n < L  BY <1>1, <1>3, <2>2
  <2>4. F[m] > k - 1 /\ F[m] \in Nat  BY <1>1, <1>2, <2>3
  <2> HIDE DEF m
  <2>5. m < o => F[m] < k  BY <1>1, <2>1, <2>3
  <2>6. F[m] = k  BY <1>1, <2>1, <2>3, <2>4, <2>5
  <2>7. \A i \in 1..m : F[i] <= k
    <3>1. \A i \in 1..m : i \in 1..n \/ i = m  BY <1>3 DEF m
    <3> QED  BY <1>1, <1>3, <2>6, <3>1
  <2>8. m < L => F[m + 1] > k
    <3> SUFFICES ASSUME m < L PROVE F[m + 1] > k  OBVIOUS
    <3>1. m + 1 \in 1..L /\ m < m + 1  BY <1>1, <2>3
    <3>2. F[m] < F[m + 1] /\ F[m + 1] \in Nat  BY <1>1, <2>3, <3>1
    <3> QED  BY <1>1, <2>6, <3>2
  <2>9. m \in 0..L  BY <2>3
  <2> QED  BY <2>3, <2>6, <2>7, <2>8, <2>9 DEF Seen, F, L, m
<1> QED  BY <1>4, <1>5 DEF F, L

\* Behind command k a run of the segment of full packet o goes on: before that full packet
\* it warms up, and from it on, or in the first segment from the start, it follows.
Segmenting(s, k, o) ==
  /\ Live(s.p, k) /\ s.p.ctx.tick = TickAt(k) /\ Ready(s.p.ctx, k) /\ s.flow # "Break"
  /\ Seen(s.l.fp_seen, k) /\ s.l.fp_seen <= o + 1
  /\ s.l.collecting <=> (o = 0 \/ s.l.fp_seen = o + 1)
  /\ s.p.skip_entity_packets <=> ~s.l.collecting
  /\ ~BaselineMayChange => IF k <= 4 \/ s.l.collecting THEN Follows(s.p.ctx, k)
                           ELSE Warm(s.p.ctx, game[k])

\* Where a segment ends.
Segmented(p, o) ==
  /\ Live(p, SegmentEnd(o))
  /\ o < Len(FullPackets) => Reached(p.ctx, SegmentEnd(o))

\* A command of a segment that is read: what is known then.
LEMMA SegmentReads ==
  ASSUME RecordingInv, NEW k \in 1..Len(demo), NEW o \in Nat, NEW s, Segmenting(s, k - 1, o),
         NEW r \in Parsers, r.result = "ok", r.pos = k,
         r.skip_entity_packets = s.p.skip_entity_packets, Retimed(s.p.ctx, r.ctx)
  PROVE  /\ Live(r, k) /\ Ready(r.ctx, k - 1) /\ (r.skip_entity_packets <=> ~s.l.collecting)
         /\ k <= 5 \/ s.l.collecting => (~BaselineMayChange => Follows(r.ctx, k - 1))
         /\ k > 5 /\ ~s.l.collecting => (~BaselineMayChange => Warm(r.ctx, game[k - 1]))
         /\ k >= 5 => (~BaselineMayChange => Behind(r.ctx, game[k - 1]))
         /\ k = 5 => (~BaselineMayChange => Warm(r.ctx, game[k - 1]))
<1> DEFINE j == k - 1
           d == s.p.ctx
           e == r.ctx
           g == game[k - 1]
           x == s.l.collecting
<1>0. k \in Nat /\ k >= 1 /\ j \in Nat /\ (j <= 4 <=> k <= 5) /\ (j # 0 <=> k # 1)
  BY DemoAssumption DEF RecordingInv, Recorded
<1>1. Segmenting(s, j, o) /\ Retimed(d, e)  OBVIOUS
<1>2. k = 5 => g = NewGame  BY DEF RecordingInv, Recorded
<1>3. k # 1 => (Follows(e, j) <=> Tracks(e, g))  BY <1>0 DEF Follows
<1> HIDE DEF j, d, e, g, x
<1>4. /\ Ready(d, j) /\ (s.p.skip_entity_packets <=> ~x)
      /\ ~BaselineMayChange => IF j <= 4 \/ x THEN Follows(d, j) ELSE Warm(d, game[j])
  BY <1>1 DEF Segmenting, d, x
<1>5. Ready(e, j)  BY <1>1, <1>4, RetimedFacts
<1>6. j <= 4 \/ x => (~BaselineMayChange => Follows(e, j))
  BY <1>1, <1>4, RetimedFacts
<1>7. j > 4 /\ ~x => (~BaselineMayChange => Warm(e, g))
  <2>1. j > 4 => ~(j <= 4)  BY <1>0
  <2> QED  BY <1>1, <1>4, <2>1, RetimedBehind DEF g, j
<1>8. k >= 5 => (~BaselineMayChange => Behind(e, g))
  BY <1>0, <1>3, <1>6, <1>7, BehindFacts
<1>9. k = 5 => (~BaselineMayChange => Warm(e, g))
  <2> SUFFICES ASSUME k = 5, ~BaselineMayChange PROVE Warm(e, g)  OBVIOUS
  <2>1. Tracks(e, g)  BY <1>0, <1>3, <1>6
  <2>2. g = NewGame  BY <1>2
  <2>3. Baseline(g) = 0 /\ DOMAIN g.entities = {}  BY <2>2, SignonFacts
  <2> QED  BY <2>1, <2>3 DEF Tracks, Warm, Cache
<1> QED  BY <1>0, <1>4, <1>5, <1>6, <1>7, <1>8, <1>9 DEF j, e, g, x, Live

\* What a turn of a segment leaves: it goes on, failed with a callback, or has ended.
SegmentTurned(s, t, k, o) ==
  /\ t \in LoopStates /\ t.l \in SegmentLocals /\ t.l.ordinal = o /\ t.p.fails = s.p.fails
  /\ Segmenting(t, k, o) \/ Failed(t.p) \/ (t.flow = "Break" /\ Segmented(t.p, o))

\* A command of the segment, or of the signon part before it.
LEMMA SegmentHandles ==
  ASSUME RecordingInv, NEW k \in 1..Len(demo), NEW o \in Nat, NEW s, Segmenting(s, k - 1, o),
         NEW n, Seen(n, k), n <= o + 1,
         NEW r, Live(r, k), r.ctx.tick = TickAt(k), Ready(r.ctx, k - 1),
         k <= 4 \/ ~r.skip_entity_packets,
         \/ ~BaselineMayChange => Follows(r.ctx, k - 1)
         \/ IsFullPacket(k) /\ (~BaselineMayChange => Behind(r.ctx, game[k - 1])),
         NEW t, t.flow = "Handle", t.p = TickEnded(handle_cmd(r, demo[k])),
         t.l.fp_seen = n, t.l.collecting <=> (o = 0 \/ n = o + 1),
         t.l.collecting <=> ~r.skip_entity_packets
  PROVE  /\ Segmenting(t, k, o) \/ Failed(t.p)
         /\ t.p.fails = r.fails
<1> DEFINE q == t.p
<1>1. k \in Nat /\ (k >= 5 => ~r.skip_entity_packets)
  BY DemoAssumption DEF RecordingInv, Recorded
<1>2. q = TickEnded(handle_cmd(r, demo[k]))  OBVIOUS
<1> HIDE DEF q
<1>3. /\ Live(q, k) \/ Failed(q)
      /\ q.fails = r.fails
      /\ q.skip_entity_packets = r.skip_entity_packets /\ q.ctx.tick = TickAt(k)
      /\ Live(q, k) => Ready(q.ctx, k)
      /\ Live(q, k) /\ ~BaselineMayChange /\ Follows(r.ctx, k - 1) => Follows(q.ctx, k)
      /\ Live(q, k) /\ IsFullPacket(k) /\ Behind(r.ctx, game[k - 1]) => Follows(q.ctx, k)
  BY <1>1, <1>2, NextCommand
<1>4. ASSUME Live(q, k) PROVE Segmenting(t, k, o)
  <2>1. ~BaselineMayChange => Follows(q.ctx, k)  BY <1>3, <1>4
  <2>2. k <= 4 \/ t.l.collecting  OBVIOUS
  <2>3. Ready(q.ctx, k) /\ q.ctx.tick = TickAt(k) /\ (q.skip_entity_packets <=> ~t.l.collecting)
    BY <1>3, <1>4
  <2> QED  BY <1>4, <2>1, <2>2, <2>3 DEF Segmenting, q
<1> QED  BY <1>3, <1>4 DEF q

\* A command before the segment, of which only the header is read.
LEMMA SegmentSkips ==
  ASSUME RecordingInv, NEW k \in 4..Len(demo), NEW o \in Nat, NEW s, Segmenting(s, k - 1, o),
         NEW n, Seen(n, k), n <= o, o # 0, ~s.l.collecting,
         NEW r \in Parsers, r.result = "ok", r.pos = k, r.ctx.tick = TickAt(k),
         r.skip_entity_packets = s.p.skip_entity_packets, Retimed(s.p.ctx, r.ctx),
         NEW t, t.flow = "Skip", t.p = r, t.l.fp_seen = n, ~t.l.collecting
  PROVE  Segmenting(t, k, o)
<1> DEFINE j == k - 1
           d == r.ctx
<1>0. k \in Nat /\ k \in 1..Len(demo) /\ j \in Nat /\ j + 1 = k /\ n \in Nat /\ n <= o + 1 /\ n # o + 1
      /\ (k = 4 \/ k \in 5..Len(demo)) /\ (k \in 5..Len(demo) => k = 5 \/ k > 5)
  BY DemoAssumption, FullPacketsAre DEF RecordingInv, Recorded, Seen
<1>1. /\ Live(r, k) /\ Ready(d, k - 1) /\ (r.skip_entity_packets <=> ~s.l.collecting)
      /\ k <= 5 \/ s.l.collecting => (~BaselineMayChange => Follows(d, k - 1))
      /\ k > 5 /\ ~s.l.collecting => (~BaselineMayChange => Warm(d, game[k - 1]))
      /\ k = 5 => (~BaselineMayChange => Warm(d, game[k - 1]))
  BY <1>0, SegmentReads
<1>2. Ready(d, k)
  <2>1. Ready(d, j)  BY <1>1
  <2>2. k = 4 => j = 3  OBVIOUS
  <2>3. k \in 5..Len(demo) => j >= 4 /\ k >= 4  BY <1>0
  <2> HIDE DEF j, d
  <2>4. k \in 5..Len(demo) => Ready(d, k)  BY <1>0, <2>1, <2>3, ReadyFacts
  <2>5. k = 4 => Ready(d, k)  BY <2>1, <2>2 DEF Ready
  <2> QED  BY <1>0, <2>4, <2>5
<1>3. ~BaselineMayChange => IF k <= 4 THEN Follows(d, k) ELSE Warm(d, game[k])
  <2> SUFFICES ASSUME ~BaselineMayChange
               PROVE  IF k <= 4 THEN Follows(d, k) ELSE Warm(d, game[k])
    OBVIOUS
  <2>1. CASE k = 4
    <3>1. Follows(d, 3)  BY <1>1, <2>1
    <3>2. game[3] = game[4]  BY DEF RecordingInv, Recorded
    <3> HIDE DEF d
    <3>3. Follows(d, 4)  BY <3>1, <3>2 DEF Follows
    <3> QED  BY <2>1, <3>3
  <2>2. CASE k \in 5..Len(demo)
    <3>1. Warm(d, game[k - 1])  BY <1>0, <1>1, <2>2
    <3> HIDE DEF d
    <3>2. Warm(d, game[k])  BY <2>2, <3>1, SkippedCommand
    <3>3. ~(k <= 4)  BY <1>0, <2>2
    <3> QED  BY <3>2, <3>3
  <2> QED  BY <1>0, <2>1, <2>2
<1> QED  BY <1>0, <1>1, <1>2, <1>3 DEF Segmenting

\* The full packet of the next segment.
LEMMA SegmentBreaks ==
  ASSUME RecordingInv, NEW k \in 1..Len(demo), NEW o \in Nat, NEW s, Segmenting(s, k - 1, o),
         s.l.fp_seen = o + 1, o + 2 \in 1..Len(FullPackets), FullPackets[o + 2] = k,
         NEW r \in Parsers, r.result = "ok", r.pos = k, r.ctx.prev_tick = s.p.ctx.tick,
         Retimed(s.p.ctx, r.ctx), NEW q, q = UnreadHeader(r)
  PROVE  Segmented(q, o) /\ q.fails = r.fails
<1> DEFINE j == k - 1
           c == s.p.ctx
<1>1. k \in Nat /\ j \in Nat /\ k >= 1 /\ Len(FullPackets) \in Nat
  BY DemoAssumption, FullPacketsAre DEF RecordingInv, Recorded
<1>2. SegmentEnd(o) = j
  <2>1. ~ (o + 1 >= Len(FullPackets))  BY <1>1
  <2> QED  BY <2>1 DEF SegmentEnd
<1>3. Segmenting(s, j, o)  OBVIOUS
<1>4. r.pos >= 1 /\ Retimed(c, r.ctx) /\ r.ctx.prev_tick = c.tick  BY <1>1
<1> HIDE DEF j
<1>5. Reached(c, j)  BY <1>3 DEF Segmenting, Reached
<1> HIDE DEF c
<1>6. Reached(q.ctx, j)  BY <1>4, <1>5, UnreadReached
<1>7. /\ q \in Parsers /\ q.pos = r.pos - 1 /\ q.fails = r.fails /\ q.result = r.result
  BY <1>4, UnreadingFacts
<1>8. Live(q, j)  BY <1>7 DEF Live, j
<1> QED  BY <1>2, <1>6, <1>7, <1>8 DEF Segmented

\* The signon part is what a warm-up handles; the tick that ends it, and the packets of the
\* body, are not.
LEMMA WarmUpCommands ==
  ASSUME RecordingInv, NEW k \in 1..Len(demo), NEW c, c = demo[k]
  PROVE  /\ k \in 1..3 \/ k \in 4..Len(demo)
         /\ k \in 1..3 => c.cmd \in {"DemSendTables", "DemClassInfo", "DemSignonPacket"}
         /\ k \in 4..Len(demo) => c.cmd \notin {"DemSendTables", "DemClassInfo", "DemSignonPacket"}
         /\ c.cmd = "DemFullPacket" => k \in 4..Len(demo)
<1>1. k \in 1..3 \/ k = 4 \/ k \in 5..Len(demo)
  BY DemoAssumption DEF RecordingInv, Recorded
<1>2. CASE k \in 1..3
  <2>1. c = Signon[k]  BY <1>2 DEF RecordingInv, Recorded
  <2>2. k = 1 \/ k = 2 \/ k = 3  BY <1>2
  <2>3. c.cmd \in {"DemSendTables", "DemClassInfo", "DemSignonPacket"}
    BY <2>1, <2>2 DEF Signon, Command
  <2>4. k \notin 4..Len(demo)  BY <1>2
  <2> QED  BY <1>2, <2>3, <2>4
<1>3. CASE k = 4
  <2>1. c = Signon[4]  BY <1>3 DEF RecordingInv, Recorded
  <2>2. c.cmd = "DemSyncTick"  BY <2>1 DEF Signon, Command
  <2>3. k \in 4..Len(demo) /\ k \notin 1..3
    BY <1>3, DemoAssumption DEF RecordingInv, Recorded
  <2> QED  BY <2>2, <2>3
<1>4. CASE k \in 5..Len(demo)
  <2>1. c.cmd \in {"DemPacket", "DemFullPacket"}  BY <1>4, BodyFacts
  <2>2. k \in 4..Len(demo) /\ k \notin 1..3
    BY <1>4, DemoAssumption DEF RecordingInv, Recorded
  <2> QED  BY <2>1, <2>2
<1> QED  BY <1>1, <1>2, <1>3, <1>4

\* What one turn of run_full_packet does: n full packets were seen before command k, x tells
\* whether the segment has begun, and r is the parser that has read the header.
SegmentMove(s, k, t, r, n, x, o) ==
  /\ r \in Parsers /\ r.result = "ok" /\ r.pos = k /\ r.fails = s.p.fails
  /\ r.log = s.p.log /\ r.collecting = s.p.collecting
  /\ r.skip_entity_packets = s.p.skip_entity_packets
  /\ r.ctx.tick = TickAt(k) /\ r.ctx.prev_tick = s.p.ctx.tick /\ Retimed(s.p.ctx, r.ctx)
  /\ t \in LoopStates /\ t.l \in SegmentLocals /\ t.l.ordinal = o
  /\ IsFullPacket(k) => t.l.fp_seen = n + 1
  /\ IsFullPacket(k) /\ n < o => t.p = r /\ t.flow = "Skip" /\ t.l.collecting = x
  /\ IsFullPacket(k) /\ n = o =>
       /\ t.p = TickEnded(handle_cmd(Collected(r), demo[k]))
       /\ t.flow = "Handle" /\ t.l.collecting
  /\ IsFullPacket(k) /\ n > o => t.p = UnreadHeader(r) /\ t.flow = "Break" /\ t.l.collecting = x
  /\ ~IsFullPacket(k) => t.l = s.l
  /\ ~IsFullPacket(k) /\ (x \/ k \in 1..3) =>
       t.p = TickEnded(handle_cmd(r, demo[k])) /\ t.flow = "Handle"
  /\ ~IsFullPacket(k) /\ ~x /\ k \in 4..Len(demo) => t.p = r /\ t.flow = "Skip"

\* A header that is read shows nothing.
LEMMA ReadingLog ==
  ASSUME NEW p \in Parsers, NEW k, NEW q, q = ReadHeader(p, k)
  PROVE  q.log = p.log /\ q.collecting = p.collecting
BY DEF ReadHeader, Parsers

\* Each turn is such a one.
LEMMA SegmentMoves ==
  ASSUME RecordingInv, NEW o \in Nat, NEW s \in LoopStates, s.l \in SegmentLocals, s.l.ordinal = o,
         s.flow # "Break", s.p.result = "ok", NEW k \in 1..Len(demo), NEW t, t = RunCommand(s, k),
         NEW n, n = s.l.fp_seen, NEW x, x = s.l.collecting
  PROVE  \E r : SegmentMove(s, k, t, r, n, x, o)
<1>2. PICK r, u, h : Turn(s, k, t, r, u, h)  BY RunTurn
<1> DEFINE c == demo[k]
<1>3. /\ r = ReadHeader(s.p, k)
      /\ r \in Parsers /\ r.result = "ok" /\ r.pos = k /\ r.fails = s.p.fails
      /\ r.skip_entity_packets = s.p.skip_entity_packets
      /\ r.ctx.tick = TickAt(k) /\ r.ctx.prev_tick = s.p.ctx.tick /\ Retimed(s.p.ctx, r.ctx)
      /\ u \in LoopStates /\ u.p = r /\ u.l = s.l
      /\ h \in LoopStates /\ h = Handler(u, c)
      /\ t \in LoopStates /\ t.l = h.l /\ t.flow = h.flow
      /\ h.flow = "Break" => t.p = UnreadHeader(h.p)
      /\ h.flow = "Handle" => t.p = TickEnded(handle_cmd(h.p, c))
      /\ h.flow \in {"Skip", "Ignore"} => t.p = h.p
  BY <1>2 DEF Turn
<1>3a. r.log = s.p.log /\ r.collecting = s.p.collecting
  <2>1. s.p \in Parsers  BY DEF LoopStates
  <2> DEFINE z == s.p
  <2>2. z \in Parsers /\ r = ReadHeader(z, k)  BY <1>3, <2>1
  <2> HIDE DEF z
  <2>3. r.log = z.log /\ r.collecting = z.collecting  BY <2>2, ReadingLog
  <2> QED  BY <2>3 DEF z
<1>4. h = SegmentHandler(u, c)
  <2>1. u.l.run = "run_full_packet"  BY <1>3 DEF SegmentLocals
  <2> QED  BY <1>3, <2>1 DEF Handler
<1>4a. SegmentStep(u, c, h) /\ u.l.fp_seen = n /\ u.l.collecting = x /\ u.l.ordinal = o
  <2>1. u \in LoopStates /\ u.l \in SegmentLocals  BY <1>3
  <2> HIDE DEF c
  <2> QED  BY <1>3, <1>4, <2>1, SegmentHandlerFacts
<1>5. /\ h.l \in SegmentLocals /\ h.l.ordinal = o
      /\ c.cmd = "DemFullPacket" => h.l.fp_seen = n + 1
      /\ c.cmd = "DemFullPacket" /\ n < o =>
           h.p = r /\ h.flow = "Skip" /\ h.l.collecting = x
      /\ c.cmd = "DemFullPacket" /\ n = o =>
           h.p = Collected(r) /\ h.flow = "Handle" /\ h.l.collecting
      /\ c.cmd = "DemFullPacket" /\ n > o =>
           h.p = r /\ h.flow = "Break" /\ h.l.collecting = x
      /\ c.cmd # "DemFullPacket" =>
           /\ h.p = r /\ h.l = s.l
           /\ h.flow = IF x \/ c.cmd \in {"DemSendTables", "DemClassInfo", "DemSignonPacket"}
                       THEN "Handle" ELSE "Skip"
  <2> HIDE DEF c
  <2> QED  BY <1>3, <1>4a DEF SegmentStep
<1>9. /\ k \in 1..3 => c.cmd \in {"DemSendTables", "DemClassInfo", "DemSignonPacket"}
      /\ k \in 4..Len(demo) => c.cmd \notin {"DemSendTables", "DemClassInfo", "DemSignonPacket"}
  BY WarmUpCommands
<1>11. IsFullPacket(k) <=> c.cmd = "DemFullPacket"  BY DEF IsFullPacket
<1> HIDE DEF c
<1>12. IsFullPacket(k) /\ n < o => t.p = r /\ t.flow = "Skip" /\ t.l.collecting = x
  BY <1>3, <1>5, <1>11
<1>13. IsFullPacket(k) /\ n = o =>
         /\ t.p = TickEnded(handle_cmd(Collected(r), c)) /\ t.flow = "Handle" /\ t.l.collecting
  BY <1>3, <1>5, <1>11
<1>14. IsFullPacket(k) /\ n > o => t.p = UnreadHeader(r) /\ t.flow = "Break" /\ t.l.collecting = x
  BY <1>3, <1>5, <1>11
<1>15. ~IsFullPacket(k) /\ (x \/ k \in 1..3) =>
         t.p = TickEnded(handle_cmd(r, c)) /\ t.flow = "Handle"
  BY <1>3, <1>5, <1>9, <1>11
<1>16. ~IsFullPacket(k) /\ ~x /\ k \in 4..Len(demo) => t.p = r /\ t.flow = "Skip"
  BY <1>3, <1>5, <1>9, <1>11
<1>17. /\ IsFullPacket(k) => t.l.fp_seen = n + 1
       /\ ~IsFullPacket(k) => t.l = s.l
       /\ t.l \in SegmentLocals /\ t.l.ordinal = o
  BY <1>3, <1>5, <1>11
<1>18. SegmentMove(s, k, t, r, n, x, o)
  BY <1>3, <1>3a, <1>12, <1>13, <1>14, <1>15, <1>16, <1>17 DEF SegmentMove, c
<1> QED  BY <1>18

\* One turn of run_full_packet.
LEMMA SegmentTurn ==
  ASSUME RecordingInv, NEW o \in Nat, NEW s \in LoopStates, s.l \in SegmentLocals, s.l.ordinal = o,
         NEW k \in 1..Len(demo), Segmenting(s, k - 1, o), NEW t, t = RunCommand(s, k)
  PROVE  SegmentTurned(s, t, k, o)
<1>1. s.flow # "Break" /\ s.p.result = "ok"  BY DEF Segmenting, Live
<1> DEFINE n == s.l.fp_seen
           x == s.l.collecting
<1>2. PICK r : SegmentMove(s, k, t, r, n, x, o)  BY <1>1, SegmentMoves
<1>3. /\ r \in Parsers /\ r.result = "ok" /\ r.pos = k /\ r.fails = s.p.fails
      /\ r.skip_entity_packets = s.p.skip_entity_packets
      /\ r.ctx.tick = TickAt(k) /\ r.ctx.prev_tick = s.p.ctx.tick /\ Retimed(s.p.ctx, r.ctx)
      /\ t \in LoopStates /\ t.l \in SegmentLocals /\ t.l.ordinal = o
  BY <1>2 DEF SegmentMove
<1>6. /\ Live(r, k) /\ Ready(r.ctx, k - 1) /\ (r.skip_entity_packets <=> ~x)
      /\ k <= 5 \/ x => (~BaselineMayChange => Follows(r.ctx, k - 1))
      /\ k >= 5 => (~BaselineMayChange => Behind(r.ctx, game[k - 1]))
  BY <1>3, SegmentReads
<1>7. /\ Seen(n, k - 1) /\ n <= o + 1 /\ (x <=> (o = 0 \/ n = o + 1))
      /\ n \in Nat /\ Len(FullPackets) \in Nat
  <2> DEFINE j == k - 1
  <2>1. Segmenting(s, j, o)  OBVIOUS
  <2> HIDE DEF j
  <2>2. Seen(n, j) /\ n <= o + 1 /\ (x <=> (o = 0 \/ n = o + 1))  BY <2>1 DEF Segmenting
  <2> QED  BY <2>2, FullPacketsAre DEF Seen, j
<1>8. /\ IsFullPacket(k) =>
           n + 1 \in 1..Len(FullPackets) /\ FullPackets[n + 1] = k /\ Seen(n + 1, k)
      /\ ~IsFullPacket(k) => Seen(n, k)
  BY <1>7, SeenNext
<1>9. /\ k \in 1..3 \/ k \in 4..Len(demo)
      /\ IsFullPacket(k) => k \in 4..Len(demo)
  BY WarmUpCommands DEF IsFullPacket
<1>10. k \in Nat /\ (k \in 1..3 => k <= 4)
  BY DemoAssumption DEF RecordingInv, Recorded
<1> HIDE DEF n, x
<1>12. /\ Segmenting(t, k, o) \/ Failed(t.p) \/ (t.flow = "Break" /\ Segmented(t.p, o))
       /\ t.p.fails = r.fails
  <2>1. CASE ~IsFullPacket(k) /\ x
    <3>1. t.flow = "Handle" /\ t.p = TickEnded(handle_cmd(r, demo[k])) /\ t.l.fp_seen = n /\ t.l.collecting
      BY <1>2, <2>1 DEF SegmentMove, n, x
    <3> QED  BY SMTT(60), <1>3, <1>6, <1>7, <1>8, <2>1, <3>1, SegmentHandles
  <2>2. CASE ~IsFullPacket(k) /\ ~x /\ k \in 1..3
    <3>1. t.flow = "Handle" /\ t.p = TickEnded(handle_cmd(r, demo[k])) /\ t.l.fp_seen = n /\ ~t.l.collecting
      BY <1>2, <2>2 DEF SegmentMove, n, x
    <3>2. ~BaselineMayChange => Follows(r.ctx, k - 1)  BY <1>6, <2>2
    <3> QED  BY <1>3, <1>6, <1>7, <1>8, <1>10, <2>2, <3>1, <3>2, SegmentHandles
  <2>3. CASE ~IsFullPacket(k) /\ ~x /\ k \in 4..Len(demo)
    <3>1. t.flow = "Skip" /\ t.p = r /\ t.l.fp_seen = n /\ ~t.l.collecting
      BY <1>2, <2>3 DEF SegmentMove, n, x
    <3>2. n <= o /\ o # 0 /\ ~s.l.collecting /\ Seen(n, k)  BY <1>7, <1>8, <2>3 DEF x
    <3>3. Segmenting(t, k, o)  BY <1>3, <2>3, <3>1, <3>2, SegmentSkips
    <3> QED  BY <3>1, <3>3
  <2>4. CASE IsFullPacket(k) /\ n < o
    <3> DEFINE m == n + 1
    <3>1. m <= o /\ o # 0 /\ ~x /\ Seen(m, k) /\ m \in Nat  BY <1>7, <1>8, <2>4
    <3>2. t.flow = "Skip" /\ t.p = r /\ t.l.fp_seen = m /\ ~t.l.collecting
      BY <1>2, <2>4, <3>1 DEF SegmentMove
    <3>3. ~s.l.collecting /\ k \in 4..Len(demo)  BY <1>9, <2>4, <3>1 DEF x
    <3> HIDE DEF m
    <3>4. Segmenting(t, k, o)  BY <1>3, <3>1, <3>2, <3>3, SegmentSkips
    <3> QED  BY <3>2, <3>4
  <2>5. CASE IsFullPacket(k) /\ n = o
    <3> DEFINE m == n + 1
               y == Collected(r)
    <3>1. m <= o + 1 /\ Seen(m, k) /\ m = o + 1  BY <1>8, <2>5
    <3>2. /\ y = Collected(r) /\ t.flow = "Handle" /\ t.p = TickEnded(handle_cmd(y, demo[k]))
          /\ t.l.fp_seen = m /\ t.l.collecting
      BY <1>2, <2>5 DEF SegmentMove
    <3> HIDE DEF m, y
    <3>3. /\ y \in Parsers /\ Stays(r, y) /\ y.ctx = r.ctx /\ y.result = r.result
          /\ ~y.skip_entity_packets
      BY <1>3, <3>2, CollectedFacts
    <3>4. Live(y, k) /\ y.ctx.tick = TickAt(k) /\ Ready(y.ctx, k - 1) /\ y.fails = r.fails
      BY <1>3, <1>6, <3>3 DEF Live, Stays
    <3>5. ~BaselineMayChange => Behind(y.ctx, game[k - 1])
      <4>1. k >= 5
        <5>1. k \notin 1..4  BY <2>5, SignonFacts DEF RecordingInv, Recorded, IsFullPacket
        <5> QED  BY <1>10, <5>1
      <4> QED  BY <1>6, <3>3, <4>1
    <3>6. Segmenting(t, k, o) \/ Failed(t.p)
      BY <2>5, <3>1, <3>2, <3>3, <3>4, <3>5, SegmentHandles
    <3>7. t.p.fails = y.fails
      BY <2>5, <3>1, <3>2, <3>3, <3>4, <3>5, SegmentHandles
    <3> QED  BY <3>4, <3>6, <3>7
  <2>6. CASE IsFullPacket(k) /\ n > o
    <3>1. n = o + 1 /\ n + 1 = o + 2  BY <1>7, <2>6
    <3>2. o + 2 \in 1..Len(FullPackets) /\ FullPackets[o + 2] = k  BY <1>8, <2>6, <3>1
    <3>3. t.flow = "Break" /\ t.p = UnreadHeader(r)  BY <1>2, <2>6 DEF SegmentMove
    <3>4. s.l.fp_seen = o + 1  BY <3>1 DEF n
    <3> DEFINE q == t.p
    <3>5. q = UnreadHeader(r)  BY <3>3
    <3> HIDE DEF q
    <3>6. Segmented(q, o) /\ q.fails = r.fails  BY <1>3, <3>2, <3>4, <3>5, SegmentBreaks
    <3> QED  BY <3>3, <3>6 DEF q
  <2>7. n < o \/ n = o \/ n > o  BY <1>7
  <2> QED  BY <1>9, <2>1, <2>2, <2>3, <2>4, <2>5, <2>6, <2>7
<1> QED  BY <1>3, <1>12 DEF SegmentTurned

\* run_full_packet ends before the next full packet or at the end, and the context is that
\* of the game there, though nothing before the segment was decoded; or a callback failed.
LEMMA SegmentLoop ==
  ASSUME RecordingInv, NEW o \in Nat,
         NEW p \in Parsers, p.pos = 0, Reached(p.ctx, 0), p.skip_entity_packets <=> o # 0,
         NEW l, l = SegmentStartLocals(o), NEW q, q = run_seekable(p, l)
  PROVE  q \in Parsers /\ q.fails = p.fails /\ (Segmented(q, o) \/ Failed(q))
<1> DEFINE N == Len(demo)
           Good(k, s) == /\ s \in LoopStates /\ s.l \in SegmentLocals /\ s.l.ordinal = o
                         /\ s.p.fails = p.fails
                         /\ \/ Segmenting(s, k, o) \/ Failed(s.p)
                            \/ s.flow = "Break" /\ Segmented(s.p, o)
<1>1. N \in Nat /\ 0 \in 0..N  BY DemoAssumption DEF RecordingInv, Recorded
<1>2. PICK h : /\ h[p.pos] = Started(p, l) /\ q = h[N].p
               /\ \A k \in p.pos + 1..N : h[k] = RunCommand(h[k - 1], k)
  BY <1>1, RunSeekable
<1>2a. /\ h[0] = Started(p, l)
       /\ \A k \in 0 + 1..N : h[k] = RunCommand(h[k - 1], k)
  BY <1>2
<1>2b. l \in SegmentLocals /\ l.ordinal = o /\ l.fp_seen = 0 /\ (l.collecting <=> o = 0)
  BY DEF SegmentLocals, SegmentStartLocals
<1> DEFINE S == {k \in Nat : Good(k, h[k])}
<1>3. 0 \in S
  <2> DEFINE s == Started(p, l)
  <2>1. /\ s \in LoopStates /\ s.flow = "Handle" /\ s.l = l
        /\ s.p.pos = p.pos /\ s.p.fails = p.fails /\ s.p.ctx = p.ctx /\ s.p.result = "ok"
        /\ s.p.skip_entity_packets = p.skip_entity_packets
    BY <1>2b, StartedFacts
  <2> HIDE DEF s
  <2>2. s.p \in Parsers  BY <2>1 DEF LoopStates
  <2>3. Live(s.p, 0)  BY <2>1, <2>2 DEF Live
  <2>4. Segmenting(s, 0, o)
    <3>1. Seen(0, 0)  BY SeenEnds
    <3>2. s.l.collecting <=> (o = 0 \/ s.l.fp_seen = o + 1)  BY <1>2b, <2>1
    <3>3. s.p.skip_entity_packets <=> ~s.l.collecting  BY <1>2b, <2>1
    <3> QED  BY <1>2b, <2>1, <2>3, <3>1, <3>2, <3>3 DEF Segmenting, Reached
  <2>5. Good(0, s)  BY <1>2b, <2>1, <2>4
  <2>6. h[0] = s  BY <1>2a DEF s
  <2> QED  BY <2>5, <2>6
<1>4. ASSUME NEW k \in 0 + 1..N, k - 1 \in S PROVE k \in S
  <2>1. k \in Nat /\ k \in 1..N  BY <1>1
  <2> DEFINE s == h[k - 1]
             t == h[k]
             j == k - 1
  <2>2. t = RunCommand(s, k) /\ Good(j, s)  BY <1>2a, <1>4
  <2> HIDE DEF s, t
  <2>3. CASE s.flow = "Break" \/ s.p.result # "ok"
    <3>1. s.flow = "Break" \/ s.p.result = "error"  BY <2>2, <2>3 DEF LoopStates, Parsers
    <3>2. t = s  BY <2>2, <3>1 DEF RunCommand
    <3> HIDE DEF j
    <3>3. ~Segmenting(s, j, o)  BY <2>3 DEF Segmenting, Live
    <3>4. Good(k, t)  BY <2>2, <3>2, <3>3
    <3> QED  BY <2>1, <3>4 DEF t
  <2>4. CASE s.flow # "Break" /\ s.p.result = "ok"
    <3>1. Segmenting(s, k - 1, o)  BY <2>2, <2>4 DEF Failed
    <3> HIDE DEF j
    <3>2. SegmentTurned(s, t, k, o)
      <4>1. s \in LoopStates /\ s.l \in SegmentLocals /\ s.l.ordinal = o /\ t = RunCommand(s, k)
        BY <2>2
      <4> QED  BY <2>1, <3>1, <4>1, SegmentTurn
    <3>3. Good(k, t)  BY <2>2, <3>2 DEF SegmentTurned
    <3> QED  BY <2>1, <3>3 DEF t
  <2> QED  BY <2>3, <2>4
<1> HIDE DEF S, N
<1>4a. 0 \in Nat /\ N \in Nat  BY <1>1
<1>5. \A k \in 0..N : k \in S  BY <1>3, <1>4, <1>4a, UpInduction
<1>6. N \in S  BY <1>1, <1>5
<1>7. Good(N, h[N])  BY <1>6 DEF S
<1> DEFINE s == h[N]
<1>8. q = s.p /\ Good(N, s)  BY <1>2, <1>7
<1> HIDE DEF s
<1>9. q \in Parsers  BY <1>8 DEF LoopStates
<1>10. ASSUME Segmenting(s, N, o) PROVE Segmented(q, o)
  <2> DEFINE n == s.l.fp_seen
             F == Len(FullPackets)
  <2>1. Seen(n, N)  BY <1>10 DEF Segmenting
  <2>2. n = F /\ F \in Nat  BY <2>1, SeenEnds, FullPacketsAre DEF N
  <2>3. n <= o + 1 /\ (s.l.collecting <=> (o = 0 \/ n = o + 1))  BY <1>10 DEF Segmenting
  <2> HIDE DEF n
  <2>4. SegmentEnd(o) = N
    <3>1. o + 1 >= F  BY <2>2, <2>3
    <3> QED  BY <3>1 DEF SegmentEnd, N
  <2>5. o < F => s.l.collecting  BY <2>2, <2>3
  <2>6. s.l.collecting => Reached(q.ctx, N)  BY <1>8, <1>10 DEF Segmenting, Reached
  <2>7. Live(q, N)  BY <1>8, <1>10 DEF Segmenting
  <2> QED  BY <2>4, <2>5, <2>6, <2>7 DEF Segmented
<1> QED  BY <1>8, <1>9, <1>10

------------------------------------------------------------------------------
(* The calls of a session: where they stop, and the state they leave.      *)

\* Where a call is to stop.
AskedEnd(name, arg) ==
  CASE name \in {"run_to_end"} \cup AsyncCalls -> Len(demo)
    [] name = "run_to_tick"     -> AtTick(arg)
    [] name = "run_full_packet" -> SegmentEnd(arg)
    [] OTHER                    -> 0

\* The session, and the parse that it has come to.
ReachedInv ==
  /\ SessionInv
  /\ ~parser.skip_entity_packets
  /\ call.whole => Reached(parser.ctx, parser.pos)
  /\ call.count \in Nat /\ (call.count = 0 => call.name = "none")
  /\ call.name = "none" => /\ parser = NewParser /\ call.fails = NoFailure
                           /\ call.whole /\ call.was_whole /\ call.count = 0
  /\ StopsWhereAsked

\* What is asked for depends on the recording alone.
LEMMA AskedStays ==
  ASSUME demo' = demo, NEW name, NEW arg
  PROVE  AskedEnd(name, arg)' = AskedEnd(name, arg)
<1>1. FullPackets' = FullPackets  BY SMT DEF FullPackets, ScanCommand
<1>2. AtTick(arg)' = AtTick(arg)  BY SMT DEF AtTick, MaxOf
<1>3. SegmentEnd(arg)' = SegmentEnd(arg)  BY <1>1 DEF SegmentEnd
<1> QED  BY <1>2, <1>3 DEF AskedEnd, AsyncCalls

\* As does what is reached.
LEMMA ReachedStays ==
  ASSUME demo' = demo, game' = game, NEW c, NEW k, parser'.ctx = c, parser'.pos = k, Reached(c, k)
  PROVE  Reached(parser.ctx, parser.pos)'
BY DEF Reached, TickAt, Ready, Follows, Fresh, Tracks, Cache, Baseline, Tables

\* The property after a step, in these terms.
LEMMA StopsAfter ==
  ASSUME NEW f, call'.fails = f, NEW name, call'.name = name, NEW arg, call'.arg = arg,
         demo' = demo, NEW r, parser'.result = r, NEW k, parser'.pos = k,
         f # NoFailure => r = "error" /\ k = f.at,
         f = NoFailure /\ (call'.was_whole \/ name \in RewindCalls) =>
           r = "ok" /\ k = AskedEnd(name, arg),
         f = NoFailure /\ ~(call'.was_whole \/ name \in RewindCalls) => (r = "ok" => k = Len(demo))
  PROVE  StopsWhereAsked'
<1>1. AskedEnd(name, arg)' = AskedEnd(name, arg)  BY AskedStays
<1>2. AskedEnd(call.name, call.arg)' = AskedEnd(name, arg)  BY <1>1 DEF AskedEnd
<1>3. NoFailure' = NoFailure /\ RewindCalls' = RewindCalls  BY DEF NoFailure, RewindCalls
<1>4. StopsWhereAsked' <=>
        /\ call'.fails # NoFailure => parser'.result = "error" /\ parser'.pos = call'.fails.at
        /\ call'.fails = NoFailure /\ (call'.was_whole \/ call'.name \in RewindCalls) =>
             parser'.result = "ok" /\ parser'.pos = AskedEnd(call.name, call.arg)'
        /\ call'.fails = NoFailure /\ ~(call'.was_whole \/ call'.name \in RewindCalls) =>
             (parser'.result = "ok" => parser'.pos = Len(demo'))
  BY <1>3 DEF StopsWhereAsked, AskedEnd
<1> QED  BY <1>2, <1>4

\* A call that ends where it was asked to, or where its visitor failed.
LEMMA CallReaches ==
  ASSUME ReachedInv, NEW name, name # "none", NEW arg, NEW f \in Failures,
         NEW p \in Parsers, p.fails = f, ~p.skip_entity_packets, Calls(name, arg, p),
         SessionInv', NEW E, E = AskedEnd(name, arg),
         call.whole \/ name \in RewindCalls =>
           \/ /\ Live(p, E)
              /\ (name = "run_full_packet" => arg < Len(FullPackets)) => Reached(p.ctx, E)
           \/ Failed(p),
         name \notin RewindCalls => (p.result = "ok" => p.pos = Len(demo))
  PROVE  ReachedInv'
<1>1. /\ parser' = [p EXCEPT !.fails = NoFailure]
      /\ call'.name = name /\ call'.arg = arg /\ call'.was_whole = call.whole
      /\ call'.whole = (/\ p.result = "ok" /\ (call.whole \/ name \in RewindCalls)
                        /\ name = "run_full_packet" => arg < Len(FullPackets))
      /\ call'.fails = f /\ call'.count = call.count + 1
      /\ demo' = demo /\ game' = game
      /\ f # NoFailure => p.result = "error"
  BY DEF Calls
<1>2. NoFailure \in [at : Nat, kind : Callbacks \cup {"none"}] /\ NoFailure.at = 0
  BY DEF NoFailure
<1>3. /\ parser'.result = p.result /\ parser'.pos = p.pos /\ parser'.ctx = p.ctx
      /\ parser'.skip_entity_packets = p.skip_entity_packets
  BY <1>1, <1>2 DEF Parsers
<1>4. f # NoFailure => call.whole
  <2>1. f # NoFailure => call.count = 0  BY DEF Failures, Troubled
  <2> QED  BY <2>1 DEF ReachedInv
<1>5. f = NoFailure => ~Failed(p)  BY <1>2 DEF Failed
<1>6. /\ Live(p, E) => p.result = "ok" /\ p.pos = E
      /\ Failed(p) => p.result = "error" /\ p.pos = f.at
  BY DEF Live, Failed
<1>7. StopsWhereAsked'
  <2> DEFINE r == p.result
             k == p.pos
  <2>1. parser'.result = r /\ parser'.pos = k  BY <1>3
  <2>2. f # NoFailure => r = "error" /\ k = f.at  BY <1>1, <1>4, <1>6
  <2>3. f = NoFailure /\ (call'.was_whole \/ name \in RewindCalls) =>
          r = "ok" /\ k = AskedEnd(name, arg)
    BY <1>1, <1>5, <1>6
  <2>4. f = NoFailure /\ ~(call'.was_whole \/ name \in RewindCalls) => (r = "ok" => k = Len(demo))
    OBVIOUS
  <2> HIDE DEF r, k
  <2> QED  BY <1>1, <2>1, <2>2, <2>3, <2>4, StopsAfter
<1>8. call'.whole => Reached(parser.ctx, parser.pos)'
  <2> SUFFICES ASSUME call'.whole PROVE Reached(parser.ctx, parser.pos)'  OBVIOUS
  <2> DEFINE c == p.ctx
             k == p.pos
  <2>1. Reached(c, E) /\ k = E  BY <1>1, <1>6
  <2>2. parser'.ctx = c /\ parser'.pos = k  BY <1>3
  <2>3. Reached(c, k)  BY <2>1
  <2> HIDE DEF c, k
  <2> QED  BY <1>1, <2>2, <2>3, ReachedStays
<1>9. call'.count \in Nat /\ call'.count # 0  BY <1>1 DEF ReachedInv
<1> QED  BY <1>1, <1>3, <1>7, <1>8, <1>9 DEF ReachedInv

\* What a call begins with.
LEMMA CallBegins ==
  ASSUME ReachedInv, NEW f \in Failures, NEW q, q = Idle(f)
  PROVE  /\ RecordingInv /\ q \in Parsers /\ q.pos \in 0..Len(demo) /\ q.fails = f
         /\ ~q.skip_entity_packets
         /\ call.whole => Reached(q.ctx, q.pos)
<1>1. SessionInv /\ ~parser.skip_entity_packets /\ (call.whole => Reached(parser.ctx, parser.pos))
  BY DEF ReachedInv
<1>2. /\ q \in Parsers /\ q.pos = parser.pos /\ q.fails = f /\ q.ctx = parser.ctx
      /\ q.skip_entity_packets = parser.skip_entity_packets
  BY <1>1, IdleFacts
<1> QED  BY <1>1, <1>2 DEF SessionInv

\* run_to_end.
LEMMA EndReaches ==
  ASSUME ReachedInv, NEW f \in Failures, RunToEnd(f) PROVE ReachedInv'
<1> DEFINE r == Idle(f)
           l == [run |-> "run_to_end"]
           q == run_to_end(r)
           name == "run_to_end"
           n == 0
<1>1. /\ RecordingInv /\ r \in Parsers /\ r.pos \in 0..Len(demo) /\ r.fails = f
      /\ ~r.skip_entity_packets
      /\ call.whole => Reached(r.ctx, r.pos)
  BY CallBegins
<1>2. q = run_seekable(r, l) /\ l \in EndLocals  BY DEF run_to_end, EndLocals
<1>3. /\ Calls(name, n, q) /\ name # "none" /\ name \notin RewindCalls
      /\ AskedEnd(name, n) = Len(demo)
      /\ name # "run_full_packet"
  BY DEF RunToEnd, RewindCalls, AskedEnd
<1>4. SessionInv'  BY RunEndFacts DEF ReachedInv
<1> HIDE DEF r, l, q, name, n
<1>5. /\ q \in Parsers /\ q.fails = r.fails /\ ~q.skip_entity_packets
      /\ q.result = "ok" => q.pos = Len(demo)
      /\ Reached(r.ctx, r.pos) =>
           (Live(q, Len(demo)) /\ Reached(q.ctx, Len(demo))) \/ Failed(q)
  BY <1>1, <1>2, EndRun
<1> QED  BY <1>1, <1>3, <1>4, <1>5, CallReaches

\* The two calls on the parser of a stream.
LEMMA AsyncReaches ==
  ASSUME ReachedInv, NEW f \in Failures, NEW name \in AsyncCalls, NEW clears \in BOOLEAN,
         NEW q, q = run_internal(Idle(f), clears), NEW n, n = 0, Calls(name, n, q)
  PROVE  ReachedInv'
<1> DEFINE r == Idle(f)
<1>1. /\ RecordingInv /\ r \in Parsers /\ r.pos \in 0..Len(demo) /\ r.fails = f
      /\ ~r.skip_entity_packets
      /\ call.whole => Reached(r.ctx, r.pos)
  BY CallBegins
<1>2. q = run_internal(r, clears)  OBVIOUS
<1>3. /\ name # "none" /\ name \notin RewindCalls /\ name # "run_full_packet"
      /\ AskedEnd(name, n) = Len(demo)
  BY DEF AsyncCalls, RewindCalls, AskedEnd
<1>4. SessionInv'
  <2>1. Calls(name, 0, q)  OBVIOUS
  <2> QED  BY <2>1, AsyncRunCallFacts DEF ReachedInv
<1> HIDE DEF r
<1>5. /\ q \in Parsers /\ q.fails = r.fails /\ ~q.skip_entity_packets
      /\ q.result = "ok" => q.pos = Len(demo)
      /\ Reached(r.ctx, r.pos) =>
           (Live(q, Len(demo)) /\ Reached(q.ctx, Len(demo))) \/ Failed(q)
  BY <1>1, <1>2, AsyncEndRun
<1> QED  BY <1>1, <1>3, <1>4, <1>5, CallReaches

\* A rewound parser is at the start of a parse.
LEMMA RewindReaches ==
  ASSUME NEW p \in Parsers, NEW q, q = reset(p)
  PROVE  /\ q \in Parsers /\ q.pos = 0 /\ q.fails = p.fails /\ Reached(q.ctx, 0)
         /\ q.skip_entity_packets = p.skip_entity_packets
<1> DEFINE c == p.ctx
           d == q.ctx
<1>1. /\ q \in Parsers /\ q.pos = 0 /\ q.fails = p.fails /\ d = Rewound(c)
      /\ q.skip_entity_packets = p.skip_entity_packets
  BY ResetFacts
<1> HIDE DEF c, d
<1>2. Reached(d, 0)  BY <1>1, RewoundReached
<1> QED  BY <1>1, <1>2 DEF d

\* run_to_tick.
LEMMA TickReaches ==
  ASSUME ReachedInv, NEW f \in Failures, NEW T \in Ticks, RunToTick(T, f) PROVE ReachedInv'
<1> DEFINE i == Idle(f)
           r == reset(i)
           l == [run |-> "run_to_tick", target_tick |-> T, first_sync_tick |-> FALSE,
                 last_full_packet |-> FALSE]
           q == run_to_tick(i, T)
           name == "run_to_tick"
<1>1. RecordingInv /\ i \in Parsers /\ i.fails = f /\ ~i.skip_entity_packets
  BY CallBegins
<1>2. q = run_seekable(r, l) /\ r = reset(i)  BY DEF run_to_tick
<1>3. /\ Calls(name, T, q) /\ name # "none" /\ name \in RewindCalls
      /\ AskedEnd(name, T) = AtTick(T) /\ name # "run_full_packet"
  BY DEF RunToTick, RewindCalls, AskedEnd, AsyncCalls
<1>4. SessionInv'  BY RunTickFacts DEF ReachedInv
<1>5. T \in Int /\ T <= demo[Len(demo)].tick /\ Len(demo) >= 5
  <2>1. FullPackets # <<>>  BY <1>3 DEF Calls
  <2>2. Len(demo) >= 5  BY <1>1, <2>1, LastFullPacket
  <2>3. T <= demo[Len(demo)].tick  BY DEF RunToTick, Last
  <2> QED  BY <2>2, <2>3, DemoAssumption DEF Ticks
<1>6. l = [run |-> "run_to_tick", target_tick |-> T, first_sync_tick |-> FALSE,
           last_full_packet |-> FALSE]
  OBVIOUS
<1> HIDE DEF i, r, l, q, name
<1>7. /\ r \in Parsers /\ r.pos = 0 /\ r.fails = f /\ Reached(r.ctx, 0)
      /\ ~r.skip_entity_packets
  BY <1>1, <1>2, RewindReaches
<1>8. /\ q \in Parsers /\ q.fails = r.fails /\ ~q.skip_entity_packets
      /\ Sought(q, T) \/ Failed(q)
  BY <1>1, <1>2, <1>5, <1>6, <1>7, SeekRun
<1>9. Sought(q, T) => Live(q, AtTick(T)) /\ Reached(q.ctx, AtTick(T))  BY DEF Sought
<1> QED  BY <1>3, <1>4, <1>7, <1>8, <1>9, CallReaches

\* scan_full_packet_ticks.
LEMMA ScanReaches ==
  ASSUME ReachedInv, Scan PROVE ReachedInv'
<1> DEFINE f == NoFailure
           i == Idle(f)
           r == reset(i)
           q == Restarted(r)
           name == "scan_full_packet_ticks"
           n == 0
<1>0. f \in Failures  BY DEF Failures
<1>1. RecordingInv /\ i \in Parsers /\ i.fails = f /\ ~i.skip_entity_packets
  <2> HIDE DEF f
  <2> QED  BY <1>0, CallBegins
<1>2. r = reset(i) /\ q = Restarted(r)  OBVIOUS
<1>3. /\ Calls(name, n, q) /\ name # "none" /\ name \in RewindCalls
      /\ AskedEnd(name, n) = n /\ n = 0 /\ name # "run_full_packet"
  BY DEF Scan, scan_full_packet_ticks, Restarted, RewindCalls, AskedEnd, AsyncCalls
<1>4. SessionInv'  BY ScanFacts DEF ReachedInv
<1> HIDE DEF f, i, r, q, name
<1>7. /\ r \in Parsers /\ r.pos = 0 /\ r.fails = f /\ Reached(r.ctx, 0)
      /\ ~r.skip_entity_packets
  BY <1>1, <1>2, RewindReaches
<1>8. /\ q \in Parsers /\ q.fails = f /\ ~q.skip_entity_packets /\ q.ctx = r.ctx
      /\ q.pos = 0 /\ q.result = "ok"
  BY <1>2, <1>7 DEF Restarted, Parsers
<1>9. Live(q, n) /\ Reached(q.ctx, n)  BY <1>7, <1>8 DEF Live
<1> HIDE DEF n
<1> QED  BY <1>0, <1>3, <1>4, <1>8, <1>9, CallReaches

\* run_full_packet.
LEMMA SegmentReaches ==
  ASSUME ReachedInv, NEW f \in Failures, NEW o \in Ordinals, RunFullPacket(o, f) PROVE ReachedInv'
<1> DEFINE i == Idle(f)
           r == reset(i)
           w == Warming(r, o)
           l == SegmentStartLocals(o)
           x == run_seekable(w, l)
           q == Ended(x)
           name == "run_full_packet"
<1>1. RecordingInv /\ i \in Parsers /\ i.fails = f /\ ~i.skip_entity_packets
  BY CallBegins
<1>2. /\ r = reset(i) /\ w = Warming(r, o) /\ l = SegmentStartLocals(o)
      /\ x = run_seekable(w, l) /\ q = Ended(x)
  OBVIOUS
<1>3. /\ Calls(name, o, q) /\ name # "none" /\ name \in RewindCalls
      /\ AskedEnd(name, o) = SegmentEnd(o) /\ name = "run_full_packet"
  BY SegmentRun DEF RunFullPacket, RewindCalls, AskedEnd, AsyncCalls
<1>4. SessionInv'  BY RunSegmentFacts DEF ReachedInv
<1>5. o \in Nat  BY DemoAssumption DEF Ordinals
<1> HIDE DEF i, r, w, l, x, q, name
<1>7. r \in Parsers /\ r.pos = 0 /\ r.fails = f /\ Reached(r.ctx, 0)
  BY <1>1, <1>2, RewindReaches
<1>7a. /\ w \in Parsers /\ w.pos = r.pos /\ w.fails = r.fails /\ w.ctx = r.ctx
       /\ w.skip_entity_packets = (o # 0)
  BY ZenonT(60), <1>2, <1>7, WarmingFacts
<1>7b. w.skip_entity_packets <=> o # 0  BY <1>7a
<1>8. /\ w \in Parsers /\ w.pos = 0 /\ w.fails = f /\ Reached(w.ctx, 0)
      /\ w.skip_entity_packets <=> o # 0
  BY <1>7, <1>7a, <1>7b
<1>9. x \in Parsers /\ x.fails = w.fails /\ (Segmented(x, o) \/ Failed(x))
  BY <1>1, <1>2, <1>5, <1>8, SegmentLoop
<1>10. /\ q \in Parsers /\ q.pos = x.pos /\ q.fails = x.fails /\ q.ctx = x.ctx
       /\ ~q.skip_entity_packets /\ q.result = x.result
  BY <1>2, <1>9, EndedFacts
<1> DEFINE E == SegmentEnd(o)
<1>11. Failed(q) \/ (Live(q, E) /\ (o < Len(FullPackets) => Reached(q.ctx, E)))
  BY <1>9, <1>10 DEF Segmented, Failed, Live
<1> HIDE DEF E
<1>12. AskedEnd(name, o) = E  BY <1>3 DEF E
<1> QED  BY <1>3, <1>4, <1>8, <1>9, <1>10, <1>11, <1>12, CallReaches

\* A session begins with what a new parser has reached.
LEMMA ReachedInit == ASSUME Init PROVE ReachedInv
<1>1. SessionInv  BY SessionInit
<1>2. parser = NewParser /\ call.name = "none" /\ call.fails = NoFailure /\ call.count = 0
      /\ call.whole /\ call.was_whole
  BY DEF Init
<1>3. /\ parser.pos = 0 /\ parser.result = "ok" /\ ~parser.skip_entity_packets
      /\ parser.ctx = NewContext
  BY <1>2 DEF NewParser
<1>4. Reached(parser.ctx, parser.pos)
  <2>1. Reached(NewContext, 0)  BY DEF NewContext, Reached, TickAt, Ready, Follows, Fresh
  <2> QED  BY <1>3, <2>1
<1>5. StopsWhereAsked  BY <1>2, <1>3 DEF StopsWhereAsked, AsyncCalls
<1> QED  BY <1>1, <1>2, <1>3, <1>4, <1>5 DEF ReachedInv

\* Nothing was called while the recording goes on.
LEMMA RecordReaches ==
  ASSUME ReachedInv, Recording, NEW c, NEW h, Record(c, h), SessionInv'
  PROVE  ReachedInv'
<1>1. /\ call.name = "none" /\ parser = NewParser /\ call.fails = NoFailure
      /\ call.whole /\ call.was_whole /\ call.count = 0
  BY DEF ReachedInv, Recording
<1>2. parser' = parser /\ call' = call  BY DEF Record
<1>3. /\ parser'.pos = 0 /\ parser'.result = "ok" /\ ~parser'.skip_entity_packets
      /\ parser'.ctx = NewContext
  BY <1>1, <1>2 DEF NewParser
<1>4. Reached(parser.ctx, parser.pos)'
  BY <1>3 DEF NewContext, Reached, TickAt, Ready, Follows, Fresh
<1>5. StopsWhereAsked'  BY <1>1, <1>2, <1>3 DEF StopsWhereAsked, AsyncCalls, NoFailure
<1>6. parser' = NewParser'  BY <1>1, <1>2 DEF NewParser, NewContext, NoFailure
<1>7. NoFailure' = NoFailure  BY DEF NoFailure
<1> QED  BY <1>1, <1>2, <1>3, <1>4, <1>5, <1>6, <1>7 DEF ReachedInv

\* A step that changes nothing.
LEMMA IdleReaches ==
  ASSUME ReachedInv, UNCHANGED vars, SessionInv' PROVE ReachedInv'
<1>1. demo' = demo /\ game' = game /\ parser' = parser /\ call' = call  BY DEF vars
<1>2. call.whole => Reached(parser.ctx, parser.pos)'
  <2> DEFINE c == parser.ctx
             k == parser.pos
  <2>1. parser'.ctx = c /\ parser'.pos = k /\ (call.whole => Reached(c, k))
    BY <1>1 DEF ReachedInv
  <2> HIDE DEF c, k
  <2> QED  BY <1>1, <2>1, ReachedStays
<1>3. StopsWhereAsked'
  <2> DEFINE f == call.fails
             name == call.name
             arg == call.arg
             r == parser.result
             k == parser.pos
  <2>1. /\ call'.fails = f /\ call'.name = name /\ call'.arg = arg
        /\ parser'.result = r /\ parser'.pos = k /\ call'.was_whole = call.was_whole
    BY <1>1
  <2>2. StopsWhereAsked  BY DEF ReachedInv
  <2>3. f # NoFailure => r = "error" /\ k = f.at  BY <2>2 DEF StopsWhereAsked
  <2>4. f = NoFailure /\ (call.was_whole \/ name \in RewindCalls) =>
          r = "ok" /\ k = AskedEnd(name, arg)
    BY <2>2 DEF StopsWhereAsked, AskedEnd
  <2>5. f = NoFailure /\ ~(call.was_whole \/ name \in RewindCalls) => (r = "ok" => k = Len(demo))
    BY <2>2 DEF StopsWhereAsked
  <2> HIDE DEF f, name, arg, r, k
  <2> QED  BY <1>1, <2>1, <2>3, <2>4, <2>5, StopsAfter
<1>4. NewParser' = NewParser /\ NoFailure' = NoFailure  BY DEF NewParser, NewContext, NoFailure
<1> QED  BY <1>1, <1>2, <1>3, <1>4 DEF ReachedInv

\* Every recorded command and every call keeps it.
LEMMA ReachedNext == ASSUME ReachedInv, [Next]_vars PROVE ReachedInv'
<1>1. SessionInv'
  <2>1. SessionInv  BY DEF ReachedInv
  <2> QED  BY <2>1, SessionNext
<1>2. CASE UNCHANGED vars  BY <1>1, <1>2, IdleReaches
<1>3. CASE RecordFullPacket
  <2>1. Recording /\ \E c, h : Record(c, h)  BY <1>3 DEF RecordFullPacket
  <2> QED  BY <1>1, <2>1, RecordReaches
<1>4. ASSUME NEW i \in Indexes, RecordCreate(i) PROVE ReachedInv'
  <2>1. Recording /\ \E c, h : Record(c, h)  BY <1>4 DEF RecordCreate, EntityPacket, Packet
  <2> QED  BY <1>1, <2>1, RecordReaches
<1>5. ASSUME NEW i \in Indexes, RecordUpdate(i) PROVE ReachedInv'
  <2>1. Recording /\ \E c, h : Record(c, h)  BY <1>5 DEF RecordUpdate, EntityPacket, Packet
  <2> QED  BY <1>1, <2>1, RecordReaches
<1>6. ASSUME NEW i \in Indexes, RecordGone(i) PROVE ReachedInv'
  <2>1. Recording /\ \E c, h : Record(c, h)  BY <1>6 DEF RecordGone, EntityPacket, Packet
  <2> QED  BY <1>1, <2>1, RecordReaches
<1>7. ASSUME NEW t \in Tables, RecordTableUpdate(t) PROVE ReachedInv'
  <2>1. Recording /\ \E c, h : Record(c, h)  BY <1>7 DEF RecordTableUpdate, Packet
  <2> QED  BY <1>1, <2>1, RecordReaches
<1>8. CASE Scan  BY <1>8, ScanReaches
<1>9. ASSUME NEW f \in Failures, RunToEnd(f) PROVE ReachedInv'  BY <1>9, EndReaches
<1>10. ASSUME NEW f \in Failures, NEW tick \in Ticks, RunToTick(tick, f) PROVE ReachedInv'
  BY <1>10, TickReaches
<1>11. ASSUME NEW f \in Failures, NEW o \in Ordinals, RunFullPacket(o, f) PROVE ReachedInv'
  BY <1>11, SegmentReaches
<1>12. ASSUME NEW f \in Failures, AsyncRunToEnd(f) PROVE ReachedInv'
  <2> DEFINE name == "async_run_to_end"
             clears == FALSE
             q == run_internal(Idle(f), clears)
             n == 0
  <2>1. name \in AsyncCalls /\ clears \in BOOLEAN /\ n = 0 /\ Calls(name, n, q)
    BY <1>12 DEF AsyncCalls, AsyncRunToEnd, async_run_to_end
  <2> HIDE DEF name, clears, n
  <2> QED  BY <2>1, AsyncReaches
<1>13. ASSUME NEW f \in Failures, RunToEndFinalState(f) PROVE ReachedInv'
  <2> DEFINE name == "run_to_end_final_state"
             clears == TRUE
             q == run_internal(Idle(f), clears)
             n == 0
  <2>1. name \in AsyncCalls /\ clears \in BOOLEAN /\ n = 0 /\ Calls(name, n, q)
    BY <1>13 DEF AsyncCalls, RunToEndFinalState, run_to_end_final_state
  <2> HIDE DEF name, clears, n
  <2> QED  BY <2>1, AsyncReaches
<1> QED  BY <1>2, <1>3, <1>4, <1>5, <1>6, <1>7, <1>8, <1>9, <1>10, <1>11, <1>12, <1>13 DEF Next

\* The parser is where a parse from the start has reached, in every session.
THEOREM ReachedCorrect == Spec => []ReachedInv
<1>1. Init => ReachedInv  BY ReachedInit
<1>2. ReachedInv /\ [Next]_vars => ReachedInv'  BY ReachedNext
<1> QED  BY <1>1, <1>2, PTL DEF Spec

\* Each public call stops where it says and fails only with its visitor, for a recording of
\* any length, any calls before it, and a visitor that fails anywhere.
THEOREM StopsCorrect == Spec => []StopsWhereAsked
<1>1. ReachedInv => StopsWhereAsked  BY DEF ReachedInv
<1> QED  BY <1>1, ReachedCorrect, PTL

\* If the recording does not rewrite a baseline, the entities, string tables and tick that
\* the parser exposes are those of the game at its position, however it got there.
THEOREM StateCorrect == ASSUME ~BaselineMayChange PROVE Spec => []StateIsRecorded
<1>1. ReachedInv => StateIsRecorded
  <2> SUFFICES ASSUME ReachedInv, call.whole, parser.pos > 0
               PROVE  /\ parser.ctx.entities = game[parser.pos].entities
                      /\ parser.ctx.string_tables = game[parser.pos].tables
                      /\ parser.ctx.tick = demo[parser.pos].tick
    BY DEF StateIsRecorded
  <2> DEFINE c == parser.ctx
             k == parser.pos
  <2>1. Reached(c, k)  BY DEF ReachedInv
  <2>2. k # 0
    <3>1. k \in 0..Len(demo) /\ Len(demo) \in Nat
      BY DemoAssumption DEF ReachedInv, SessionInv, RecordingInv, Recorded
    <3> QED  BY <3>1
  <2> HIDE DEF c, k
  <2>3. c.tick = demo[k].tick /\ Tracks(c, game[k])  BY <2>1, <2>2 DEF Reached, TickAt, Follows
  <2> QED  BY <2>3 DEF Tracks, c, k
<1> QED  BY <1>1, ReachedCorrect, PTL
================================================================================
