--------------------------- MODULE EntityContainer ---------------------------
(***************************************************************************)
(* haste_core::entities::EntityContainer under                             *)
(* handle_svc_packet_entities, of both parsers: entities that the visitor  *)
(* wants are decoded and kept, of the others only the serializer is kept,  *)
(* to get over their updates.                                              *)
(*                                                                         *)
(* An entry of a message is written with the serializer of the entity it   *)
(* is about, and its length is not written: read with another serializer,  *)
(* or not read at all, it leaves the reader between two fields.  in_step   *)
(* says that this has not happened.  `game` is what the sender has; it is  *)
(* the reference, and what an entry may be depends on it alone.            *)
(***************************************************************************)
EXTENDS Integers

CONSTANTS
  Indexes,    \* entity indexes
  Classes,    \* a class stands for its serializer
  Tracked,    \* the classes for which should_track_entity is true
  Fields, Values,
  Baseline,   \* what the instance baseline says of each class
  Absent,     \* no entry in a map
  MayReuse    \* an index may be given to another class with no DELETE between

Entity == [index : Indexes, class : Classes, fields : [Fields -> Values]]
Thing  == [class : Classes, fields : [Fields -> Values]]
Delta  == UNION {[S -> Values] : S \in SUBSET Fields}
DeltaHeader == {"CREATE", "UPDATE", "LEAVE", "DELETE"}
Callback == [delta : DeltaHeader, index : Indexes, entity : Entity]

ASSUME EntityAssumption ==
  /\ Tracked \subseteq Classes
  /\ Baseline \in [Classes -> [Fields -> Values]]
  /\ MayReuse \in BOOLEAN
  /\ Absent \notin Classes \cup Entity \cup Thing \cup Callback

VARIABLES
  game,                  \* what the sender has at each index
  restate,               \* indexes that a full packet has still to restate
  entities,              \* EntityContainer.entities
  baseline_entities,     \* .baseline_entities
  skipped_serializers,   \* .skipped_serializers
  in_step,               \* the reader is at the beginning of an entry
  seen                   \* the callback on_entity of the last entry, or none

containerVars == <<entities, baseline_entities, skipped_serializers>>
vars == <<game, restate, containerVars, in_step, seen>>

\* What the entity of an index should be.
EntityOf(i, thing) == [index |-> i, class |-> thing.class, fields |-> thing.fields]

\* Mutant of Merge: the fields that a delta does not name are lost.
MergeOnlyDelta(fields, delta) == delta

\* Entity::parse, and the same in the game: fields that a delta names are replaced.
Merge(fields, delta) == [f \in Fields |-> IF f \in DOMAIN delta THEN delta[f] ELSE fields[f]]

TypeOK ==
  /\ game \in [Indexes -> Thing \cup {Absent}]
  /\ restate \subseteq Indexes
  /\ entities \in [Indexes -> Entity \cup {Absent}]
  /\ baseline_entities \in [Classes -> Entity \cup {Absent}]
  /\ skipped_serializers \in [Indexes -> Classes \cup {Absent}]
  /\ in_step \in BOOLEAN
  /\ seen \in Callback \cup {Absent}

Init ==
  /\ game = [i \in Indexes |-> Absent]
  /\ restate = {}
  /\ entities = [i \in Indexes |-> Absent]
  /\ baseline_entities = [c \in Classes |-> Absent]
  /\ skipped_serializers = [i \in Indexes |-> Absent]
  /\ in_step = TRUE
  /\ seen = Absent

on_entity(kind, i, e) == [delta |-> kind, index |-> i, entity |-> e]

------------------------------------------------------------------------------
(* What the code does with an entry.                                       *)

\* Mutant of FromBaseline: a copy keeps the index of the first entity of its class.
FromBaselineAsIs(i, c) ==
  IF baseline_entities[c] # Absent THEN baseline_entities[c]
  ELSE [index |-> i, class |-> c, fields |-> Baseline[c]]

\* A copy of the decoded baseline of the class, which is decoded the first time.
FromBaseline(i, c) ==
  IF baseline_entities[c] # Absent THEN [baseline_entities[c] EXCEPT !.index = i]
  ELSE [index |-> i, class |-> c, fields |-> Baseline[c]]

\* Mutant of CachedBaseline: what is kept is the entity, not the copy it came from.
CachedEntity(i, c, delta) ==
  [FromBaseline(i, c) EXCEPT !.fields = Merge(@, delta)]

CachedBaseline(i, c, delta) == FromBaseline(i, c)

handle_create_with_filter(i, c, delta) ==
  IF c \notin Tracked
  THEN /\ skipped_serializers' = [skipped_serializers EXCEPT ![i] = c]
       /\ seen' = Absent
       /\ UNCHANGED <<entities, baseline_entities>>
  ELSE LET entity == [FromBaseline(i, c) EXCEPT !.fields = Merge(@, delta)]
       IN /\ entities' = [entities EXCEPT ![i] = entity]
          /\ baseline_entities' = [baseline_entities EXCEPT ![c] =
               IF @ = Absent THEN CachedBaseline(i, c, delta) ELSE @]
          /\ seen' = on_entity("CREATE", i, entity)
          /\ UNCHANGED skipped_serializers

\* Mutant of Forgotten: the serializer of a skipped entity stays.
ForgottenNot(i) == skipped_serializers

Forgotten(i) == [skipped_serializers EXCEPT ![i] = Absent]

\* Mutant of Removed: an entity that leaves is kept.
RemovedNot(i) == entities

Removed(i) == [entities EXCEPT ![i] = Absent]

\* handle_delete and handle_leave, which are the same.
handle_gone(kind, i) ==
  /\ seen' = IF entities[i] = Absent THEN Absent ELSE on_entity(kind, i, entities[i])
  /\ entities' = Removed(i)
  /\ skipped_serializers' = Forgotten(i)
  /\ UNCHANGED baseline_entities

\* Mutant of Updated: the fields not named go back to the baseline.
UpdatedFromBaseline(i, delta) ==
  [entities[i] EXCEPT !.fields = Merge(Baseline[entities[i].class], delta)]

Updated(i, delta) == [entities[i] EXCEPT !.fields = Merge(@, delta)]

\* c is the serializer the update was written with.  The parser looks the
\* entity up again after handle_update, whatever that returned.
handle_update(i, c, delta) ==
  /\ LET reader == IF skipped_serializers[i] # Absent THEN skipped_serializers[i]
                   ELSE IF entities[i] # Absent THEN entities[i].class ELSE Absent
     IN /\ in_step' = (reader = c)
        /\ entities' = IF skipped_serializers[i] # Absent \/ reader # c THEN entities
                       ELSE [entities EXCEPT ![i] = Updated(i, delta)]
  /\ seen' = IF entities'[i] = Absent THEN Absent ELSE on_entity("UPDATE", i, entities'[i])
  /\ UNCHANGED <<baseline_entities, skipped_serializers>>

\* EntityContainer::clear, in run_to_end_final_state at each full packet, and in
\* Parser::reset.
clear ==
  /\ entities' = [i \in Indexes |-> Absent]
  /\ baseline_entities' = [c \in Classes |-> Absent]
  /\ skipped_serializers' = [i \in Indexes |-> Absent]

------------------------------------------------------------------------------
(* The entries that come.                                                  *)

Create(i, c, delta) ==
  LET thing == [class |-> c, fields |-> Merge(Baseline[c], delta)]
  IN /\ in_step
     /\ \/ restate = {} /\ (game[i] # Absent => MayReuse \/ game[i].class = c)
        \/ i \in restate /\ game[i] = thing
     /\ game' = [game EXCEPT ![i] = thing]
     /\ restate' = restate \ {i}
     /\ handle_create_with_filter(i, c, delta)
     /\ UNCHANGED in_step

Update(i, delta) ==
  /\ in_step /\ restate = {} /\ game[i] # Absent
  /\ game' = [game EXCEPT ![i].fields = Merge(@, delta)]
  /\ handle_update(i, game[i].class, delta)
  /\ UNCHANGED restate

Gone(kind, i) ==
  /\ in_step /\ restate = {} /\ game[i] # Absent
  /\ game' = [game EXCEPT ![i] = Absent]
  /\ handle_gone(kind, i)
  /\ UNCHANGED <<restate, in_step>>

\* A full packet restates all there is; the container is emptied for it.
FullPacket ==
  /\ in_step /\ restate = {}
  /\ restate' = {i \in Indexes : game[i] # Absent}
  /\ clear
  /\ seen' = Absent
  /\ UNCHANGED <<game, in_step>>

Next ==
  \/ \E i \in Indexes, c \in Classes, delta \in Delta : Create(i, c, delta)
  \/ \E i \in Indexes, delta \in Delta : Update(i, delta)
  \/ \E i \in Indexes, kind \in {"LEAVE", "DELETE"} : Gone(kind, i)
  \/ FullPacket

Spec == Init /\ [][Next]_vars

------------------------------------------------------------------------------
\* Every update is read with the serializer it was written with, those of untracked entities too; no entry shifts what follows it in the message.
InStep == in_step

\* "if entity was ever created, and not deleted, it can be updated": a tracked entity is at all times what the sender has at its index.
TrackedIsCurrent ==
  \A i \in Indexes \ restate :
    game[i] # Absent => (game[i].class \in Tracked => entities[i] = EntityOf(i, game[i]))

\* Nothing else is in the container: no entity that is gone, or whose index another one has.
NothingStale ==
  \A i \in Indexes : entities[i] # Absent => game[i] # Absent /\ game[i].class \in Tracked

\* What the visitor is given is what the sender has after the entry, or had before it where the entity is gone, and no change of a tracked entity is kept from it.
VisitorSeesGame ==
  [][\A i \in Indexes :
       /\ game'[i] # game[i] =>
            LET now == IF game'[i] = Absent THEN game[i] ELSE game'[i]
            IN IF now.class \in Tracked
               THEN seen' # Absent /\ seen'.entity = EntityOf(i, now)
               ELSE seen' = Absent
       /\ game'[i] = game[i] /\ seen' # Absent /\ seen'.index = i =>
            game[i] # Absent /\ seen'.entity = EntityOf(i, game[i])]_vars
==============================================================================
