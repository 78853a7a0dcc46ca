----------------------------- MODULE EntityProofs -----------------------------
(***************************************************************************)
(* Proofs about EntityContainer and EntityFields, which do not depend on   *)
(* each other.                                                             *)
(*                                                                         *)
(* EntityContainer, for any indexes, classes, fields and values, where an  *)
(* index is not given to another class without a DELETE.  TypeOK is        *)
(* inductive as it stands.  The rest is not: that an update is read with   *)
(* its own serializer depends on which of the three maps has its index, so *)
(* Agrees states that for every index, and with it that the cached         *)
(* baselines are clean.                                                    *)
(*                                                                         *)
(* EntityFields, for any serializer, paths and streams, as many deltas and *)
(* fields as there may be.  What it takes from TLC is named: that the      *)
(* codes of the tree are read back (CodesAreRead, of no constant), that    *)
(* the sender names fields that there are (FieldsAreFound), and, for the   *)
(* values, that the fields of one struct have different names              *)
(* (NamesTellApart).  That no two paths then have one key is proved.       *)
(* PathsInv has, for each path stored, that it is the one sent, and that   *)
(* the path being written on holds the sender's last one byte by byte;     *)
(* ReadersInv that both readers are at one place; SlotsInv what is stored. *)
(***************************************************************************)
EXTENDS EntityContainer, EntityFields, SequenceTheorems, FiniteSetTheorems, TLAPS

------------------------------------------------------------------------------
(* The container.                                                          *)


\* What the maps hold at an index follows from what the sender has there.
AgreesAt(i) ==
  /\ (game[i] = Absent \/ i \in restate) =>
        entities[i] = Absent /\ skipped_serializers[i] = Absent
  /\ (game[i] # Absent /\ i \notin restate /\ game[i].class \in Tracked) =>
        entities[i] = EntityOf(i, game[i]) /\ skipped_serializers[i] = Absent
  /\ (game[i] # Absent /\ i \notin restate /\ game[i].class \notin Tracked) =>
        entities[i] = Absent /\ skipped_serializers[i] = game[i].class

\* A cached baseline is of its class, and as the instance baseline has it.
CleanBaselines ==
  \A c \in Classes : baseline_entities[c] # Absent =>
    baseline_entities[c].class = c /\ baseline_entities[c].fields = Baseline[c]

\* The maps agree with the sender, and a full packet restates only what it has.
Agrees == /\ in_step
          /\ CleanBaselines
          /\ \A i \in Indexes : AgreesAt(i)
          /\ \A i \in restate : game[i] # Absent

\* The inductive invariant of the container.
IInv == TypeOK /\ Agrees

\* Replacing fields gives fields: Entity::parse on values of the field types.
LEMMA MergeType ==
  ASSUME NEW old \in [Fields -> Values], NEW delta \in Delta
  PROVE  Merge(old, delta) \in [Fields -> Values]
<1>1. PICK S \in SUBSET Fields : delta \in [S -> Values]
  BY DEF Delta
<1>2. \A f \in Fields : f \in DOMAIN delta => delta[f] \in Values
  BY <1>1
<1> QED
  BY <1>2 DEF Merge

\* Nothing that a map holds is Absent.
LEMMA NotAbsent ==
  /\ \A x \in Entity : x # Absent
  /\ \A x \in Thing : x # Absent
  /\ \A x \in Callback : x # Absent
  /\ \A c \in Classes : c # Absent
BY EntityAssumption

\* A copy of a baseline is an entity, with its own index and the baseline's fields.
LEMMA FromBaselineType ==
  ASSUME TypeOK, NEW i \in Indexes, NEW c \in Classes
  PROVE  /\ FromBaseline(i, c) \in Entity
         /\ FromBaseline(i, c).index = i
         /\ CleanBaselines => /\ FromBaseline(i, c).class = c
                              /\ FromBaseline(i, c).fields = Baseline[c]
<1>0. Baseline[c] \in [Fields -> Values]
  BY EntityAssumption
<1>1. CASE baseline_entities[c] = Absent
  BY <1>0, <1>1 DEF FromBaseline, Entity
<1>2. CASE baseline_entities[c] # Absent
  <2>1. baseline_entities[c] \in Entity
    BY <1>2 DEF TypeOK
  <2> QED
    BY <1>2, <2>1 DEF FromBaseline, Entity, CleanBaselines
<1> QED
  BY <1>1, <1>2

------------------------------------------------------------------------------
\* The container begins empty.
LEMMA InitTypeOK == Init => TypeOK
BY DEF Init, TypeOK

\* Each of its operations keeps the types.
LEMMA StepTypeOK == TypeOK /\ [Next]_vars => TypeOK'
<1> SUFFICES ASSUME TypeOK, [Next]_vars PROVE TypeOK'
  OBVIOUS
<1>1. ASSUME NEW i \in Indexes, NEW c \in Classes, NEW delta \in Delta, Create(i, c, delta)
      PROVE  TypeOK'
  <2> DEFINE thing  == [class |-> c, fields |-> Merge(Baseline[c], delta)]
             base   == FromBaseline(i, c)
             entity == [base EXCEPT !.fields = Merge(@, delta)]
  <2>1. thing \in Thing
    BY MergeType, EntityAssumption DEF Thing
  <2>2. game' \in [Indexes -> Thing \cup {Absent}] /\ restate' \subseteq Indexes
    BY <1>1, <2>1 DEF Create, TypeOK
  <2>3. base \in Entity
    BY FromBaselineType
  <2>4. entity \in Entity
    <3>1. base.fields \in [Fields -> Values]
      BY <2>3 DEF Entity
    <3>2. Merge(base.fields, delta) \in [Fields -> Values]
      BY <3>1, MergeType
    <3> HIDE DEF base
    <3> QED
      BY <2>3, <3>2 DEF Entity
  <2>5. CASE c \notin Tracked
    BY <1>1, <2>2, <2>5 DEF Create, handle_create_with_filter, TypeOK
  <2>6. CASE c \in Tracked
    <3>1. /\ entities' = [entities EXCEPT ![i] = entity]
          /\ baseline_entities' = [baseline_entities EXCEPT ![c] = IF @ = Absent THEN base ELSE @]
          /\ seen' = [delta |-> "CREATE", index |-> i, entity |-> entity]
          /\ UNCHANGED <<skipped_serializers, in_step>>
      BY <1>1, <2>6 DEF Create, handle_create_with_filter, on_entity, CachedBaseline
    <3> HIDE DEF entity, base
    <3>2. seen' \in Callback
      BY <3>1, <2>4 DEF Callback, DeltaHeader
    <3> QED
      BY <3>1, <3>2, <2>2, <2>3, <2>4 DEF TypeOK
  <2> QED
    BY <2>5, <2>6
<1>2. ASSUME NEW i \in Indexes, NEW delta \in Delta, Update(i, delta)
      PROVE  TypeOK'
  <2>1. game[i] \in Thing
    BY <1>2 DEF Update, TypeOK
  <2>2. game' \in [Indexes -> Thing \cup {Absent}]
    <3>1. [game[i] EXCEPT !.fields = Merge(@, delta)] \in Thing
      BY <2>1, MergeType DEF Thing
    <3>2. game' = [game EXCEPT ![i] = [game[i] EXCEPT !.fields = Merge(@, delta)]]
      BY <1>2 DEF Update
    <3> QED
      BY <3>1, <3>2 DEF TypeOK
  <2>3. entities[i] # Absent => Updated(i, delta) \in Entity
    BY MergeType DEF Updated, TypeOK, Entity
  <2>4. entities' \in [Indexes -> Entity \cup {Absent}]
    <3>1. \/ entities' = entities
          \/ entities[i] # Absent /\ entities' = [entities EXCEPT ![i] = Updated(i, delta)]
      <4>1. game[i].class \in Classes
        BY <2>1 DEF Thing
      <4> QED
        BY <1>2, <4>1, EntityAssumption DEF Update, handle_update
    <3> QED
      BY <2>3, <3>1 DEF TypeOK
  <2>5. seen' \in Callback \cup {Absent}
    <3>1. seen' = IF entities'[i] = Absent THEN Absent
                  ELSE [delta |-> "UPDATE", index |-> i, entity |-> entities'[i]]
      BY <1>2 DEF Update, handle_update, on_entity
    <3>2. entities'[i] # Absent => entities'[i] \in Entity
      BY <2>4
    <3> QED
      BY <3>1, <3>2 DEF Callback, DeltaHeader
  <2>6. in_step' \in BOOLEAN
    BY <1>2 DEF Update, handle_update
  <2> QED
    BY <1>2, <2>2, <2>4, <2>5, <2>6 DEF Update, handle_update, TypeOK
<1>3. ASSUME NEW i \in Indexes, NEW kind \in {"LEAVE", "DELETE"}, Gone(kind, i)
      PROVE  TypeOK'
  <2>1. entities[i] # Absent => on_entity(kind, i, entities[i]) \in Callback
    BY DEF on_entity, Callback, DeltaHeader, TypeOK
  <2>2. seen' \in Callback \cup {Absent}
    BY <1>3, <2>1 DEF Gone, handle_gone
  <2> QED
    BY <1>3, <2>2 DEF Gone, handle_gone, Removed, Forgotten, TypeOK
<1>4. CASE FullPacket
  BY <1>4 DEF FullPacket, clear, TypeOK
<1>5. CASE UNCHANGED vars
  BY <1>5 DEF vars, containerVars, TypeOK
<1> QED
  BY <1>1, <1>2, <1>3, <1>4, <1>5 DEF Next

------------------------------------------------------------------------------
\* An empty container agrees with a sender that has nothing.
LEMMA InitAgrees == Init => Agrees
BY EntityAssumption DEF Init, Agrees, AgreesAt, CleanBaselines

\* A create, tracked or not, leaves its index agreeing, and the others alone.
LEMMA CreateAgrees ==
  ASSUME ~MayReuse, IInv,
         NEW i \in Indexes, NEW c \in Classes, NEW delta \in Delta, Create(i, c, delta)
  PROVE  /\ Agrees'
         /\ game'[i] # Absent /\ game'[i].class = c
         /\ \A j \in Indexes \ {i} : game'[j] = game[j]
         /\ c \in Tracked => seen' = on_entity("CREATE", i, EntityOf(i, game'[i]))
         /\ c \notin Tracked => seen' = Absent
<1> DEFINE thing == [class |-> c, fields |-> Merge(Baseline[c], delta)]
           base  == FromBaseline(i, c)
<1>1. thing \in Thing /\ thing.class = c
  BY MergeType, EntityAssumption DEF Thing
<1>2. /\ game' = [game EXCEPT ![i] = thing] /\ game'[i] = thing /\ thing # Absent
      /\ restate' = restate \ {i}
      /\ in_step' = in_step
  BY <1>1, NotAbsent DEF Create, IInv, TypeOK
<1>3. /\ base \in Entity /\ base # Absent
      /\ base.index = i /\ base.class = c /\ base.fields = Baseline[c]
  BY FromBaselineType, NotAbsent DEF IInv, Agrees
<1>4. \/ game[i] = Absent
      \/ game[i] # Absent /\ game[i].class = c
  BY <1>1 DEF Create, IInv
<1>5. [base EXCEPT !.fields = Merge(@, delta)] = EntityOf(i, thing)
  <2>1. base = [index |-> i, class |-> c, fields |-> Baseline[c]]
    <3> HIDE DEF base
    <3> QED BY <1>3 DEF Entity
  <2> QED
    BY <2>1 DEF EntityOf
<1>6. \A j \in restate' : game'[j] # Absent
  BY <1>2 DEF IInv, Agrees, TypeOK
<1>7. CASE c \notin Tracked
  <2>1. /\ skipped_serializers' = [skipped_serializers EXCEPT ![i] = c]
        /\ seen' = Absent
        /\ UNCHANGED <<entities, baseline_entities>>
    BY <1>7 DEF Create, handle_create_with_filter
  <2>2. entities[i] = Absent
    BY <1>4, <1>7 DEF IInv, Agrees, AgreesAt
  <2> HIDE DEF thing
  <2>3. \A j \in Indexes : AgreesAt(j)'
    BY <1>1, <1>2, <1>7, <2>1, <2>2 DEF IInv, Agrees, AgreesAt, TypeOK, EntityOf
  <2>4. CleanBaselines'
    BY <2>1 DEF IInv, Agrees, CleanBaselines
  <2> QED
    BY <1>1, <1>2, <1>6, <1>7, <2>1, <2>3, <2>4 DEF IInv, Agrees, TypeOK
<1>8. CASE c \in Tracked
  <2>1. /\ entities' = [entities EXCEPT ![i] = EntityOf(i, thing)]
        /\ baseline_entities' = [baseline_entities EXCEPT ![c] = IF @ = Absent THEN base ELSE @]
        /\ seen' = on_entity("CREATE", i, EntityOf(i, thing))
        /\ UNCHANGED skipped_serializers
    BY <1>5, <1>8 DEF Create, handle_create_with_filter, CachedBaseline
  <2>2. skipped_serializers[i] = Absent
    BY <1>4, <1>8 DEF IInv, Agrees, AgreesAt
  <2> HIDE DEF thing, base
  <2>3. \A j \in Indexes : AgreesAt(j)'
    BY <1>1, <1>2, <1>8, <2>1, <2>2 DEF IInv, Agrees, AgreesAt, TypeOK, EntityOf
  <2>4. CleanBaselines'
    BY <1>3, <2>1 DEF IInv, Agrees, CleanBaselines, TypeOK
  <2> QED
    BY <1>1, <1>2, <1>6, <1>8, <2>1, <2>3, <2>4 DEF IInv, Agrees, TypeOK
<1> QED
  BY <1>7, <1>8

\* An update finds its own serializer, and changes what it is about.
LEMMA UpdateAgrees ==
  ASSUME IInv, NEW i \in Indexes, NEW delta \in Delta, Update(i, delta)
  PROVE  /\ Agrees'
         /\ game'[i] # Absent /\ game'[i].class = game[i].class
         /\ \A j \in Indexes \ {i} : game'[j] = game[j]
         /\ game'[i].class \in Tracked => seen' = on_entity("UPDATE", i, EntityOf(i, game'[i]))
         /\ game'[i].class \notin Tracked => seen' = Absent
<1> DEFINE old   == game[i]
           thing == [old EXCEPT !.fields = Merge(@, delta)]
<1>1. old \in Thing /\ old # Absent /\ old.class \in Classes /\ old.class # Absent
  BY NotAbsent DEF Update, IInv, TypeOK, Thing
<1>2. thing \in Thing /\ thing.class = old.class /\ thing # Absent
  <2>1. thing \in Thing /\ thing.class = old.class
    BY <1>1, MergeType DEF Thing
  <2> QED
    BY <2>1, NotAbsent
<1>3. game' = [game EXCEPT ![i] = thing] /\ game'[i] = thing /\ restate = {} /\ restate' = {}
  BY DEF Update, IInv, TypeOK
<1>4. CASE old.class \notin Tracked
  <2>1. entities[i] = Absent /\ skipped_serializers[i] = old.class
    BY <1>1, <1>3, <1>4 DEF IInv, Agrees, AgreesAt
  <2>2. /\ in_step' /\ entities' = entities /\ seen' = Absent
        /\ UNCHANGED <<baseline_entities, skipped_serializers>>
    BY <1>1, <2>1 DEF Update, handle_update
  <2> HIDE DEF thing
  <2>3. \A j \in Indexes : AgreesAt(j)'
    BY <1>2, <1>3, <1>4, <2>1, <2>2 DEF IInv, Agrees, AgreesAt, TypeOK, EntityOf
  <2> QED
    BY <1>2, <1>3, <1>4, <2>2, <2>3 DEF IInv, Agrees, CleanBaselines, TypeOK
<1>5. CASE old.class \in Tracked
  <2>1. entities[i] = EntityOf(i, old) /\ skipped_serializers[i] = Absent
    BY <1>1, <1>3, <1>5 DEF IInv, Agrees, AgreesAt
  <2>2. entities[i] \in Entity /\ entities[i] # Absent /\ entities[i].class = old.class
    BY <1>1, <2>1, NotAbsent DEF EntityOf, Entity, Thing
  <2>3. Updated(i, delta) = EntityOf(i, thing) /\ EntityOf(i, thing) \in Entity
    BY <1>1, <1>2, <2>1 DEF Updated, EntityOf, Entity, Thing
  <2>4. /\ in_step' /\ entities' = [entities EXCEPT ![i] = Updated(i, delta)]
        /\ UNCHANGED <<baseline_entities, skipped_serializers>>
    BY <2>1, <2>2 DEF Update, handle_update
  <2> HIDE DEF thing
  <2>5. entities' = [entities EXCEPT ![i] = EntityOf(i, thing)] /\ entities'[i] = EntityOf(i, thing)
    BY <2>3, <2>4 DEF IInv, TypeOK
  <2>6. seen' = on_entity("UPDATE", i, EntityOf(i, thing))
    BY <2>3, <2>5, NotAbsent DEF Update, handle_update
  <2>7. \A j \in Indexes : AgreesAt(j)'
    BY <1>2, <1>3, <1>5, <2>1, <2>4, <2>5 DEF IInv, Agrees, AgreesAt, TypeOK, EntityOf
  <2> QED
    BY <1>2, <1>3, <1>5, <2>4, <2>6, <2>7 DEF IInv, Agrees, CleanBaselines, TypeOK
<1> QED
  BY <1>4, <1>5

\* What is gone is gone from the map that had it, and the visitor is told.
LEMMA GoneAgrees ==
  ASSUME IInv, NEW i \in Indexes, NEW kind \in {"LEAVE", "DELETE"}, Gone(kind, i)
  PROVE  /\ Agrees'
         /\ game[i] # Absent /\ game'[i] = Absent
         /\ \A j \in Indexes \ {i} : game'[j] = game[j]
         /\ game[i].class \in Tracked => seen' = on_entity(kind, i, EntityOf(i, game[i]))
         /\ game[i].class \notin Tracked => seen' = Absent
<1>1. /\ game' = [game EXCEPT ![i] = Absent] /\ game'[i] = Absent /\ game[i] # Absent
      /\ restate = {} /\ restate' = {} /\ in_step' = in_step
      /\ entities' = [entities EXCEPT ![i] = Absent]
      /\ skipped_serializers' = [skipped_serializers EXCEPT ![i] = Absent]
      /\ baseline_entities' = baseline_entities
  BY DEF Gone, handle_gone, Removed, Forgotten, IInv, TypeOK
<1>2. \A j \in Indexes : AgreesAt(j)'
  BY <1>1 DEF IInv, Agrees, AgreesAt, TypeOK, EntityOf
<1>3. Agrees'
  BY <1>1, <1>2 DEF IInv, Agrees, CleanBaselines
<1>4. game[i].class \in Tracked => entities[i] = EntityOf(i, game[i]) /\ EntityOf(i, game[i]) \in Entity
  <2>1. game[i].class \in Tracked => entities[i] = EntityOf(i, game[i])
    BY <1>1 DEF IInv, Agrees, AgreesAt
  <2>2. EntityOf(i, game[i]) \in Entity
    BY <1>1 DEF IInv, TypeOK, EntityOf, Entity, Thing
  <2> QED
    BY <2>1, <2>2
<1>5. game[i].class \notin Tracked => entities[i] = Absent
  BY <1>1 DEF IInv, Agrees, AgreesAt
<1>6. seen' = IF entities[i] = Absent THEN Absent ELSE on_entity(kind, i, entities[i])
  BY DEF Gone, handle_gone
<1> QED
  BY <1>1, <1>3, <1>4, <1>5, <1>6, NotAbsent DEF IInv, TypeOK

\* Emptying the container is right because everything is about to be restated.
LEMMA FullPacketAgrees ==
  ASSUME IInv, FullPacket
  PROVE  Agrees' /\ game' = game /\ seen' = Absent
BY DEF IInv, Agrees, AgreesAt, CleanBaselines, FullPacket, clear, TypeOK

\* Each operation keeps the maps in agreement with the sender.
LEMMA StepAgrees ==
  ASSUME ~MayReuse, IInv, [Next]_vars
  PROVE  Agrees'
<1>1. CASE Next
  BY <1>1, CreateAgrees, UpdateAgrees, GoneAgrees, FullPacketAgrees DEF Next
<1>2. CASE UNCHANGED vars
  BY <1>2 DEF vars, containerVars, IInv, Agrees, AgreesAt, CleanBaselines
<1> QED
  BY <1>1, <1>2

------------------------------------------------------------------------------
\* The maps of the container and the callbacks have their types in every run.
THEOREM TypeCorrect == Spec => []TypeOK
<1> QED
  BY InitTypeOK, StepTypeOK, PTL DEF Spec

\* The three maps agree with the sender, if no index changes its class without a DELETE.
THEOREM AlwaysAgrees == ~MayReuse => (Spec => []IInv)
<1> SUFFICES ASSUME ~MayReuse PROVE Spec => []IInv
  OBVIOUS
<1>1. Init => IInv
  BY InitTypeOK, InitAgrees DEF IInv
<1>2. IInv /\ [Next]_vars => IInv'
  BY StepTypeOK, StepAgrees DEF IInv
<1> QED
  BY <1>1, <1>2, PTL DEF Spec

\* Every entry is read with the serializer it was written with.
THEOREM AlwaysInStep == ~MayReuse => (Spec => []InStep)
<1>1. IInv => InStep
  BY DEF IInv, Agrees, InStep
<1> QED
  BY <1>1, AlwaysAgrees, PTL

\* Every tracked entity is what the sender has at its index.
THEOREM AlwaysCurrent == ~MayReuse => (Spec => []TrackedIsCurrent)
<1>1. IInv => TrackedIsCurrent
  BY DEF IInv, Agrees, AgreesAt, TrackedIsCurrent
<1> QED
  BY <1>1, AlwaysAgrees, PTL

\* The container has nothing that the sender has not.
THEOREM NeverStale == ~MayReuse => (Spec => []NothingStale)
<1>1. IInv => NothingStale
  BY DEF IInv, Agrees, AgreesAt, NothingStale
<1> QED
  BY <1>1, AlwaysAgrees, PTL

\* The visitor is told of each change of a tracked entity, and what it is told is true.
THEOREM VisitorIsTold == ~MayReuse => (Spec => VisitorSeesGame)
<1> SUFFICES ASSUME ~MayReuse PROVE Spec => VisitorSeesGame
  OBVIOUS
<1> DEFINE Told(i) ==
       /\ game'[i] # game[i] =>
            LET now == IF game'[i] = Absent THEN game[i] ELSE game'[i]
            IN IF now.class \in Tracked
               THEN seen' # Absent /\ seen'.entity = EntityOf(i, now)
               ELSE seen' = Absent
       /\ game'[i] = game[i] /\ seen' # Absent /\ seen'.index = i =>
            game[i] # Absent /\ seen'.entity = EntityOf(i, game[i])
<1>1. ASSUME IInv, Next, NEW j \in Indexes
      PROVE  Told(j)
  <2>0. /\ \A k \in DeltaHeader, i \in Indexes, t \in Thing :
              /\ on_entity(k, i, EntityOf(i, t)) # Absent
              /\ on_entity(k, i, EntityOf(i, t)).index = i
              /\ on_entity(k, i, EntityOf(i, t)).entity = EntityOf(i, t)
        /\ \A i \in Indexes : /\ game[i] # Absent => game[i] \in Thing
                              /\ game'[i] # Absent => game'[i] \in Thing
    <3>1. TypeOK'
      BY <1>1, StepTypeOK DEF IInv
    <3>2. \A k \in DeltaHeader, i \in Indexes, t \in Thing : on_entity(k, i, EntityOf(i, t)) \in Callback
      BY DEF on_entity, EntityOf, Callback, Entity, Thing
    <3> QED
      BY <1>1, <3>1, <3>2, NotAbsent DEF IInv, TypeOK, on_entity
  <2>1. ASSUME NEW i \in Indexes, NEW c \in Classes, NEW delta \in Delta, Create(i, c, delta)
        PROVE  Told(j)
    BY <1>1, <2>0, <2>1, CreateAgrees DEF DeltaHeader
  <2>2. ASSUME NEW i \in Indexes, NEW delta \in Delta, Update(i, delta)
        PROVE  Told(j)
    BY <1>1, <2>0, <2>2, UpdateAgrees DEF DeltaHeader
  <2>3. ASSUME NEW i \in Indexes, NEW kind \in {"LEAVE", "DELETE"}, Gone(kind, i)
        PROVE  Told(j)
    BY <1>1, <2>0, <2>3, GoneAgrees DEF DeltaHeader
  <2>4. CASE FullPacket
    BY <1>1, <2>4, FullPacketAgrees
  <2> QED
    BY <1>1, <2>1, <2>2, <2>3, <2>4 DEF Next
<1>2. IInv /\ [Next]_vars => [\A i \in Indexes : Told(i)]_vars
  BY <1>1
<1> QED
  BY <1>2, AlwaysAgrees, PTL DEF Spec, VisitorSeesGame
------------------------------------------------------------------------------
(* Decoders.                                                               *)

\* A reader at any bit of any stream.
Readers == [bits : {bits \in Seq(BOOLEAN) : Len(bits) # 0}, pos : Nat]

\* The stream repeats, so there is a bit at every position.
LEMMA FlagFacts == ASSUME NEW r \in Readers PROVE Flag(r) \in BOOLEAN
<1> DEFINE n == Len(r.bits)
           i == r.pos % n
<1>1. r.bits \in Seq(BOOLEAN) /\ n \in Nat /\ n # 0 /\ r.pos \in Nat  BY DEF Readers
<1>2. i \in 0..n - 1
  <2> HIDE DEF n
  <2> QED  BY <1>1
<1>3. i + 1 \in 1..n
  <2> HIDE DEF i
  <2> QED  BY <1>1, <1>2
<1> QED  BY <1>1, <1>3, ElementOfSeq DEF Flag

\* What every read of a fixed number of bits does.
LEMMA ReadFacts ==
  ASSUME NEW r \in Readers, NEW n \in Nat
  PROVE  /\ skip_bits(r, n) \in Readers /\ skip_bits(r, n).pos = r.pos + n
         /\ read_ubit64(r, n) = skip_bits(r, n) /\ read_bitangle(r, n) = skip_bits(r, n)
         /\ read_bool(r) = skip_bits(r, 1)
         /\ \A m \in Nat : skip_bits(skip_bits(r, n), m) = skip_bits(r, n + m)
<1>1. r.pos \in Nat /\ r.bits \in {bits \in Seq(BOOLEAN) : Len(bits) # 0}
      /\ r = [bits |-> r.bits, pos |-> r.pos]
  BY DEF Readers
<1>2. ASSUME NEW m \in Nat PROVE skip_bits(r, m) = [bits |-> r.bits, pos |-> r.pos + m]
  BY <1>1 DEF skip_bits
<1>3. skip_bits(r, n) \in Readers
  <2>1. r.pos + n \in Nat  BY <1>1
  <2> QED  BY <1>1, <1>2, <2>1 DEF Readers
<1>4. read_ubit64(r, n) = skip_bits(r, n)  BY DEF skip_bits, read_ubit64
<1>5. read_bitangle(r, n) = skip_bits(r, n)  BY <1>4 DEF read_bitangle
<1>6. read_bool(r) = skip_bits(r, 1)  BY DEF skip_bits, read_bool
<1>7. ASSUME NEW m \in Nat PROVE skip_bits(skip_bits(r, n), m) = skip_bits(r, n + m)
  <2> DEFINE q == [bits |-> r.bits, pos |-> r.pos + n]
  <2>1. skip_bits(q, m) = [bits |-> r.bits, pos |-> (r.pos + n) + m]  BY DEF skip_bits
  <2>2. (r.pos + n) + m = r.pos + (n + m) /\ n + m \in Nat  BY <1>1
  <2> QED  BY <1>2, <2>1, <2>2
<1> QED  BY <1>2, <1>3, <1>4, <1>5, <1>6, <1>7

\* The reads whose length depends on what they read.
LEMMA VariableReads ==
  ASSUME NEW r \in Readers
  PROVE  /\ read_uvarint(r) \in Readers /\ read_string_to_end(r) \in Readers
         /\ read_bitcoord(r) \in Readers /\ read_bitnormal(r) = skip_bits(r, 12)
<1>1. read_bytes_while(r) \in Readers  BY ReadFacts DEF read_bytes_while
<1>2. read_bitnormal(r) = skip_bits(r, 12)
  <2>1. read_bool(r) = skip_bits(r, 1) /\ skip_bits(r, 1) \in Readers  BY ReadFacts
  <2>2. skip_bits(skip_bits(r, 1), 11) = skip_bits(r, 12)  BY ReadFacts
  <2>3. read_ubit64(skip_bits(r, 1), 11) = skip_bits(skip_bits(r, 1), 11)  BY <2>1, ReadFacts
  <2> QED  BY <2>1, <2>2, <2>3 DEF read_bitnormal, NORMAL_FRACTIONAL_BITS
<1>3. read_bitcoord(r) \in Readers
  <2> DEFINE flags  == read_bool(read_bool(r))
             signed == read_bool(flags)
             whole  == read_ubit64(signed, COORD_INTEGER_BITS)
  <2>1. read_bool(r) \in Readers  BY ReadFacts
  <2>2. flags \in Readers  BY <2>1, ReadFacts
  <2>3. signed \in Readers  BY <2>2, ReadFacts
  <2>4. whole \in Readers  BY <2>3, ReadFacts DEF COORD_INTEGER_BITS
  <2>5. read_ubit64(signed, COORD_FRACTIONAL_BITS) \in Readers
        /\ read_ubit64(whole, COORD_FRACTIONAL_BITS) \in Readers
    BY <2>3, <2>4, ReadFacts DEF COORD_FRACTIONAL_BITS
  <2> QED  BY <2>2, <2>3, <2>4, <2>5 DEF read_bitcoord
<1> QED  BY <1>1, <1>2, <1>3 DEF read_uvarint, read_string_to_end

\* A skip that ends where decoding does, with the distance.
SkipsTo(s, r, q) == q \in Readers /\ s = Measured(r, q)

\* A skip of a fixed number of bits ends where they end, and says how many.
LEMMA SkipFixed ==
  ASSUME NEW r \in Readers, NEW n \in Nat
  PROVE  SkipsTo(Skipped(r, n), r, skip_bits(r, n))
<1>1. skip_bits(r, n) \in Readers /\ skip_bits(r, n).pos = r.pos + n /\ r.pos \in Nat
  BY ReadFacts DEF Readers
<1> QED  BY <1>1 DEF SkipsTo, Skipped, Measured

\* The flags of a quantized float are asked for alike.
LEMMA QuantizedSkips ==
  ASSUME NEW r \in Readers, NEW d, d.bit_count \in Nat
  PROVE  SkipsTo(QuantizedSkip(d, r), r, QuantizedDecode(d, r))
<1> DEFINE Alike(s, t) == /\ s.r \in Readers /\ s.done \in BOOLEAN
                          /\ t = [r |-> s.r, done |-> s.done, bits |-> s.r.pos - r.pos]
<1>1. ASSUME NEW s, NEW t, NEW f, Alike(s, t) PROVE Alike(Ask(d, f, s), AskCounted(d, f, t))
  <2>1. Flag(s.r) \in BOOLEAN /\ read_bool(s.r) \in Readers /\ read_bool(s.r).pos = s.r.pos + 1
    BY <1>1, FlagFacts, ReadFacts
  <2>2. s.r.pos \in Nat /\ r.pos \in Nat  BY <1>1 DEF Readers
  <2>3. CASE s.done \/ f \notin d.encode_flags
    BY <1>1, <2>3 DEF Ask, AskCounted
  <2>4. CASE ~(s.done \/ f \notin d.encode_flags)
    <3>1. Ask(d, f, s) = [r |-> read_bool(s.r), done |-> Flag(s.r)]  BY <2>4 DEF Ask
    <3>2. t.r = s.r /\ t.done = s.done /\ t.bits = s.r.pos - r.pos  BY <1>1
    <3>3. AskCounted(d, f, t) = [r |-> read_bool(s.r), done |-> Flag(s.r), bits |-> t.bits + 1]
      BY <2>4, <3>2 DEF AskCounted
    <3>4. t.bits + 1 = read_bool(s.r).pos - r.pos  BY <2>1, <2>2, <3>2
    <3> QED  BY <2>1, <3>1, <3>3, <3>4
  <2> QED  BY <2>3, <2>4
<1> DEFINE s0 == [r |-> r, done |-> FALSE]
           t0 == [r |-> r, done |-> FALSE, bits |-> 0]
           s1 == Ask(d, QFE_ROUNDDOWN, s0)
           t1 == AskCounted(d, QFE_ROUNDDOWN, t0)
           s2 == Ask(d, QFE_ROUNDUP, s1)
           t2 == AskCounted(d, QFE_ROUNDUP, t1)
           s3 == Ask(d, QFE_ENCODE_ZERO_EXACTLY, s2)
           t3 == AskCounted(d, QFE_ENCODE_ZERO_EXACTLY, t2)
<1>2. Alike(s0, t0)
  <2>1. r.pos - r.pos = 0  BY DEF Readers
  <2> QED  BY <2>1
<1> HIDE DEF Alike, s0, t0
<1>3. Alike(s1, t1)  BY <1>1, <1>2
<1> HIDE DEF s1, t1
<1>4. Alike(s2, t2)  BY <1>1, <1>3
<1> HIDE DEF s2, t2
<1>5. Alike(s3, t3)  BY <1>1, <1>4
<1>6. t3 = AllCounted(d, r)  BY DEF AllCounted, t0, t1, t2
<1>7. QuantizedDecode(d, r) = IF s3.done THEN s3.r ELSE read_ubit64(s3.r, d.bit_count)
  BY DEF QuantizedDecode, s0, s1, s2
<1>8. QuantizedSkip(d, r) = IF t3.done THEN [r |-> t3.r, bits |-> t3.bits]
                            ELSE [r |-> skip_bits(t3.r, d.bit_count), bits |-> t3.bits + d.bit_count]
  BY <1>6 DEF QuantizedSkip
<1> HIDE DEF s3, t3
<1>9. /\ s3.r \in Readers /\ s3.done \in BOOLEAN
      /\ t3.r = s3.r /\ t3.done = s3.done /\ t3.bits = s3.r.pos - r.pos
  BY <1>5 DEF Alike
<1>10. /\ skip_bits(s3.r, d.bit_count) \in Readers
       /\ skip_bits(s3.r, d.bit_count).pos = s3.r.pos + d.bit_count
       /\ read_ubit64(s3.r, d.bit_count) = skip_bits(s3.r, d.bit_count)
       /\ s3.r.pos \in Nat /\ r.pos \in Nat
  BY <1>9, ReadFacts DEF Readers
<1>11. CASE s3.done
  BY <1>7, <1>8, <1>9, <1>11 DEF SkipsTo, Measured
<1>12. CASE ~s3.done
  <2>1. QuantizedDecode(d, r) = skip_bits(s3.r, d.bit_count)  BY <1>7, <1>10, <1>12
  <2>2. QuantizedSkip(d, r) = [r |-> skip_bits(s3.r, d.bit_count), bits |-> t3.bits + d.bit_count]
    BY <1>8, <1>9, <1>12
  <2>3. t3.bits + d.bit_count = skip_bits(s3.r, d.bit_count).pos - r.pos  BY <1>9, <1>10
  <2> QED  BY <1>10, <2>1, <2>2, <2>3 DEF SkipsTo, Measured
<1> QED  BY <1>9, <1>11, <1>12

\* Decoding and then measuring what was read.
LEMMA MeasuredSkips ==
  ASSUME NEW r, NEW q \in Readers
  PROVE  SkipsTo(Measured(r, q), r, q)
BY DEF SkipsTo

\* The decoders of a float.
LEMMA F32Skips ==
  ASSUME NEW r \in Readers, NEW d \in F32Decoders
  PROVE  SkipsTo(InternalF32SkipBits(d, r), r, InternalF32Decode(d, r))
<1>1. CASE d.kind = "F32SimulationTime"
  <2>1. InternalF32SkipBits(d, r) = Measured(r, read_uvarint(r)) /\ InternalF32Decode(d, r) = read_uvarint(r)
    BY <1>1 DEF InternalF32SkipBits, InternalF32Decode
  <2> QED  BY <2>1, VariableReads, MeasuredSkips
<1>2. CASE d.kind = "F32Coord"
  <2>1. InternalF32SkipBits(d, r) = Measured(r, read_bitcoord(r)) /\ InternalF32Decode(d, r) = read_bitcoord(r)
    BY <1>2 DEF InternalF32SkipBits, InternalF32Decode
  <2> QED  BY <2>1, VariableReads, MeasuredSkips
<1>3. CASE d.kind = "F32Normal"
  <2>1. InternalF32SkipBits(d, r) = Skipped(r, 12) /\ InternalF32Decode(d, r) = read_bitnormal(r)
    BY <1>3 DEF InternalF32SkipBits, InternalF32Decode
  <2>2. read_bitnormal(r) = skip_bits(r, 12)  BY VariableReads
  <2> QED  BY <2>1, <2>2, SkipFixed
<1>4. CASE d.kind = "F32NoScale"
  <2>1. InternalF32SkipBits(d, r) = Skipped(r, 32) /\ InternalF32Decode(d, r) = read_ubit64(r, 32)
    BY <1>4 DEF InternalF32SkipBits, InternalF32Decode
  <2>2. read_ubit64(r, 32) = skip_bits(r, 32)  BY ReadFacts
  <2> QED  BY <2>1, <2>2, SkipFixed
<1>5. CASE d.kind = "QuantizedFloat"
  <2>1. InternalF32SkipBits(d, r) = QuantizedSkip(d, r) /\ InternalF32Decode(d, r) = QuantizedDecode(d, r)
    BY <1>5 DEF InternalF32SkipBits, InternalF32Decode
  <2>2. d.bit_count \in Nat  BY <1>5 DEF F32Decoders, Decoder
  <2> QED  BY <2>1, <2>2, QuantizedSkips
<1>6. d.kind \in {"F32SimulationTime", "F32Coord", "F32Normal", "F32NoScale", "QuantizedFloat"}
  BY DEF F32Decoders, Decoder
<1> QED  BY <1>1, <1>2, <1>3, <1>4, <1>5, <1>6

\* The next component: the distances add up.
LEMMA ComponentSkips ==
  ASSUME NEW r \in Readers, NEW q \in Readers, NEW d \in F32Decoders
  PROVE  SkipsTo(SkipNext(d, Measured(r, q)), r, InternalF32Decode(d, q))
<1> DEFINE next == InternalF32Decode(d, q)
<1>1. InternalF32SkipBits(d, q) = Measured(q, next) /\ next \in Readers
  BY F32Skips DEF SkipsTo
<1> HIDE DEF next
<1>2. r.pos \in Nat /\ q.pos \in Nat /\ next.pos \in Nat  BY <1>1 DEF Readers
<1>3. SkipNext(d, Measured(r, q)) = [r |-> next, bits |-> (q.pos - r.pos) + (next.pos - q.pos)]
  BY <1>1 DEF SkipNext, Measured
<1>4. (q.pos - r.pos) + (next.pos - q.pos) = next.pos - r.pos  BY <1>2
<1>5. SkipNext(d, Measured(r, q)) = Measured(r, next)  BY <1>3, <1>4 DEF Measured
<1> QED  BY <1>1, <1>5 DEF SkipsTo, next

\* All components of a vector.
LEMMA VectorSkips ==
  ASSUME NEW r \in Readers, NEW d, d.kind = "Vector", d.components \in 2..4, d.decoder \in F32Decoders
  PROVE  SkipsTo(SkipDecoder(d, r), r, decode(d, r))
<1> DEFINE D(q) == InternalF32Decode(d.decoder, q)
           S(s) == SkipNext(d.decoder, s)
<1>1. ASSUME NEW q \in Readers PROVE D(q) \in Readers /\ S(Measured(r, q)) = Measured(r, D(q))
  BY <1>1, ComponentSkips DEF SkipsTo
<1>2. Measured(r, r) = [r |-> r, bits |-> 0]
  <2>1. r.pos - r.pos = 0  BY DEF Readers
  <2> QED  BY <2>1 DEF Measured
<1>3. decode(d, r) = EachComponent(D, d.components, r)
      /\ SkipDecoder(d, r) = EachComponent(S, d.components, Measured(r, r))
  BY <1>2 DEF decode, SkipDecoder
<1> HIDE DEF D, S
<1>4. D(r) \in Readers /\ S(Measured(r, r)) = Measured(r, D(r))  BY <1>1
<1>5. D(D(r)) \in Readers /\ S(S(Measured(r, r))) = Measured(r, D(D(r)))  BY <1>1, <1>4
<1>6. D(D(D(r))) \in Readers /\ S(S(S(Measured(r, r)))) = Measured(r, D(D(D(r))))  BY <1>1, <1>5
<1>7. D(D(D(D(r)))) \in Readers /\ S(S(S(S(Measured(r, r))))) = Measured(r, D(D(D(D(r)))))  BY <1>1, <1>6
<1>8. d.components = 2 \/ d.components = 3 \/ d.components = 4  OBVIOUS
<1>9. CASE d.components = 2
  <2>1. decode(d, r) = D(D(r)) /\ SkipDecoder(d, r) = S(S(Measured(r, r)))  BY <1>3, <1>9 DEF EachComponent
  <2> QED  BY <1>5, <2>1 DEF SkipsTo
<1>10. CASE d.components = 3
  <2>1. decode(d, r) = D(D(D(r))) /\ SkipDecoder(d, r) = S(S(S(Measured(r, r))))
    BY <1>3, <1>10 DEF EachComponent
  <2> QED  BY <1>6, <2>1 DEF SkipsTo
<1>11. CASE d.components = 4
  <2>1. decode(d, r) = D(D(D(D(r)))) /\ SkipDecoder(d, r) = S(S(S(S(Measured(r, r)))))
    BY <1>3, <1>11 DEF EachComponent
  <2> QED  BY <1>7, <2>1 DEF SkipsTo
<1> QED  BY <1>8, <1>9, <1>10, <1>11

\* Three flags, and after them what is flagged.
LEMMA FlaggedSkips ==
  ASSUME NEW r \in Readers
  PROVE  /\ read_bitvec3coord(r) \in Readers
         /\ read_bitvec3normal(r) \in Readers
<1> DEFINE y == read_bool(r)
           z == read_bool(y)
           a == read_bool(z)
<1>1. y \in Readers  BY ReadFacts
<1>2. z \in Readers  BY <1>1, ReadFacts
<1>3. a \in Readers  BY <1>2, ReadFacts
<1>4. ASSUME NEW f, NEW q \in Readers
      PROVE  Flagged(read_bitcoord, f, q) \in Readers /\ Flagged(read_bitnormal, f, q) \in Readers
  <2>1. read_bitcoord(q) \in Readers /\ read_bitnormal(q) \in Readers  BY VariableReads, ReadFacts
  <2> QED  BY <2>1 DEF Flagged
<1>5. read_bitvec3coord(r) = Flagged(read_bitcoord, z, Flagged(read_bitcoord, y, Flagged(read_bitcoord, r, a)))
  BY DEF read_bitvec3coord, ReadFlagged3
<1>6. read_bitvec3normal(r) = read_bool(Flagged(read_bitnormal, y, Flagged(read_bitnormal, r, z)))
  BY DEF read_bitvec3normal, ReadFlagged2
<1> HIDE DEF y, z, a
<1>7. Flagged(read_bitcoord, r, a) \in Readers  BY <1>3, <1>4
<1>8. Flagged(read_bitcoord, y, Flagged(read_bitcoord, r, a)) \in Readers  BY <1>4, <1>7
<1>9. read_bitvec3coord(r) \in Readers  BY <1>4, <1>5, <1>8
<1>10. Flagged(read_bitnormal, r, z) \in Readers  BY <1>2, <1>4
<1>11. Flagged(read_bitnormal, y, Flagged(read_bitnormal, r, z)) \in Readers  BY <1>4, <1>10
<1>12. read_bitvec3normal(r) \in Readers  BY <1>6, <1>11, ReadFacts
<1> QED  BY <1>9, <1>12

\* The components of a precise angle have twenty bits each.
LEMMA PreciseSkips ==
  ASSUME NEW r \in Readers, NEW d, d.kind = "QAnglePrecise"
  PROVE  SkipsTo(SkipDecoder(d, r), r, decode(d, r))
<1> DEFINE y == read_bool(r)
           z == read_bool(y)
           a == read_bool(z)
           n == 20 * (One(r) + One(y) + One(z))
           F(f, q) == Flagged(LAMBDA p : read_bitangle(p, 20), f, q)
<1>1. y \in Readers /\ y.pos = r.pos + 1  BY ReadFacts
<1>2. z \in Readers /\ z.pos = y.pos + 1  BY <1>1, ReadFacts
<1>3. a \in Readers /\ a.pos = z.pos + 1  BY <1>2, ReadFacts
<1>4. decode(d, r) = F(z, F(y, F(r, a)))  BY DEF decode, ReadFlagged3
<1>5. SkipDecoder(d, r) = [r |-> skip_bits(a, n), bits |-> 3 + n]  BY DEF SkipDecoder
<1>6. ASSUME NEW f, NEW q \in Readers
      PROVE  One(f) \in 0..1 /\ F(f, q) = skip_bits(q, 20 * One(f)) /\ F(f, q) \in Readers
  <2>1. read_bitangle(q, 20) = skip_bits(q, 20) /\ skip_bits(q, 20) \in Readers  BY ReadFacts
  <2>2. skip_bits(q, 0) = q
    <3>1. q.pos + 0 = q.pos /\ q = [bits |-> q.bits, pos |-> q.pos]  BY DEF Readers
    <3> QED  BY <3>1 DEF skip_bits
  <2>3. CASE Flag(f)
    <3>1. One(f) = 1 /\ F(f, q) = read_bitangle(q, 20)  BY <2>3 DEF One, Flagged
    <3> QED  BY <2>1, <3>1
  <2>4. CASE ~Flag(f)
    <3>1. One(f) = 0 /\ F(f, q) = q  BY <2>4 DEF One, Flagged
    <3> QED  BY <2>2, <3>1
  <2> QED  BY <2>3, <2>4
<1> HIDE DEF y, z, a, F
<1>7. One(r) \in 0..1 /\ One(y) \in 0..1 /\ One(z) \in 0..1  BY <1>3, <1>6
<1>8. F(r, a) = skip_bits(a, 20 * One(r)) /\ F(r, a) \in Readers  BY <1>3, <1>6
<1>9. F(y, F(r, a)) = skip_bits(F(r, a), 20 * One(y)) /\ F(y, F(r, a)) \in Readers  BY <1>6, <1>8
<1>10. F(z, F(y, F(r, a))) = skip_bits(F(y, F(r, a)), 20 * One(z))  BY <1>6, <1>9
<1>11. ASSUME NEW i \in Nat, NEW j \in Nat
       PROVE  skip_bits(skip_bits(a, i), j) = skip_bits(a, i + j)
  BY <1>3, ReadFacts
<1>12. F(y, F(r, a)) = skip_bits(a, 20 * One(r) + 20 * One(y))  BY <1>7, <1>8, <1>9, <1>11
<1>13. F(z, F(y, F(r, a))) = skip_bits(a, (20 * One(r) + 20 * One(y)) + 20 * One(z))
  <2>1. 20 * One(r) + 20 * One(y) \in Nat /\ 20 * One(z) \in Nat  BY <1>7
  <2> QED  BY <1>10, <1>11, <1>12, <2>1
<1>14. (20 * One(r) + 20 * One(y)) + 20 * One(z) = n /\ n \in Nat  BY <1>7
<1> HIDE DEF n
<1>15. decode(d, r) = skip_bits(a, n)  BY <1>4, <1>13, <1>14
<1>16. skip_bits(a, n) \in Readers /\ skip_bits(a, n).pos = a.pos + n  BY <1>3, <1>14, ReadFacts
<1>17. skip_bits(a, n).pos - r.pos = 3 + n
  <2>1. r.pos \in Nat /\ a.pos = ((r.pos + 1) + 1) + 1  BY <1>1, <1>2, <1>3 DEF Readers
  <2> QED  BY <1>14, <1>16, <2>1
<1> QED  BY <1>5, <1>15, <1>16, <1>17 DEF SkipsTo, Measured

\* Skipping any field ends where decoding it does, and knows how far that is: every
\* decoder is written twice, skip_bits apart from decode.
THEOREM SkippingIsDecoding ==
  ASSUME NEW r \in Readers, NEW d \in Decoders
  PROVE  SkipsTo(SkipDecoder(d, r), r, decode(d, r))
<1>1. CASE d.kind \in {"I64", "U64", "String", "Vector3Normal", "QAngleNoBitCount"}
  <2>1. \/ SkipDecoder(d, r) = Measured(r, read_uvarint(r)) /\ decode(d, r) = read_uvarint(r)
        \/ SkipDecoder(d, r) = Measured(r, read_string_to_end(r)) /\ decode(d, r) = read_string_to_end(r)
        \/ SkipDecoder(d, r) = Measured(r, read_bitvec3normal(r)) /\ decode(d, r) = read_bitvec3normal(r)
        \/ SkipDecoder(d, r) = Measured(r, read_bitvec3coord(r)) /\ decode(d, r) = read_bitvec3coord(r)
    BY <1>1 DEF SkipDecoder, decode
  <2> QED  BY <2>1, VariableReads, FlaggedSkips, MeasuredSkips
<1>2. CASE d.kind \in {"U64Fixed64", "Bool"}
  <2>1. \/ SkipDecoder(d, r) = Skipped(r, 64) /\ decode(d, r) = read_ubit64(r, 64)
        \/ SkipDecoder(d, r) = Skipped(r, 1) /\ decode(d, r) = read_bool(r)
    BY <1>2 DEF SkipDecoder, decode
  <2>2. read_ubit64(r, 64) = skip_bits(r, 64) /\ read_bool(r) = skip_bits(r, 1)  BY ReadFacts
  <2> QED  BY <2>1, <2>2, SkipFixed
<1>3. CASE d.kind \in {"QAnglePitchYaw", "QAngleBitCount"}
  <2> DEFINE n == d.bit_count
             A(q) == read_bitangle(q, n)
  <2>1. n \in Nat  BY <1>3 DEF Decoders, Decoder, F32Decoders
  <2>2. \/ SkipDecoder(d, r) = Skipped(r, 2 * n) /\ decode(d, r) = A(A(r))
        \/ SkipDecoder(d, r) = Skipped(r, 3 * n) /\ decode(d, r) = A(A(A(r)))
    BY <1>3 DEF SkipDecoder, decode, EachComponent
  <2>3. ASSUME NEW i \in Nat PROVE A(skip_bits(r, i)) = skip_bits(r, i + n)
    <3>1. skip_bits(r, i) \in Readers  BY ReadFacts
    <3>2. A(skip_bits(r, i)) = skip_bits(skip_bits(r, i), n)  BY <2>1, <3>1, ReadFacts
    <3> QED  BY <2>1, <3>2, ReadFacts
  <2>4. A(r) = skip_bits(r, n)  BY <2>1, ReadFacts
  <2> HIDE DEF n, A
  <2>5. n + n \in Nat /\ n + n = 2 * n /\ (n + n) + n = 3 * n /\ 3 * n \in Nat  BY <2>1
  <2>6. A(A(r)) = skip_bits(r, 2 * n)  BY <2>1, <2>3, <2>4, <2>5
  <2>7. A(A(A(r))) = skip_bits(r, 3 * n)  BY <2>3, <2>5, <2>6
  <2> QED  BY <2>2, <2>5, <2>6, <2>7, SkipFixed
<1>4. CASE d.kind = "QAnglePrecise"  BY <1>4, PreciseSkips
<1>5. CASE d.kind = "Vector"
  <2>1. d.components \in 2..4 /\ d.decoder \in F32Decoders  BY <1>5 DEF Decoders, Decoder, F32Decoders
  <2> QED  BY <1>5, <2>1, VectorSkips
<1>6. CASE d \in F32Decoders
  <2>1. d.kind \in {"F32SimulationTime", "F32Coord", "F32Normal", "F32NoScale", "QuantizedFloat"}
    BY <1>6 DEF F32Decoders, Decoder
  <2>2. SkipDecoder(d, r) = InternalF32SkipBits(d, r) /\ decode(d, r) = InternalF32Decode(d, r)
    BY <2>1 DEF SkipDecoder, decode
  <2> QED  BY <1>6, <2>2, F32Skips
<1>7. \/ d \in F32Decoders
      \/ d.kind \in {"I64", "U64", "String", "Vector3Normal", "QAngleNoBitCount", "U64Fixed64", "Bool",
                     "QAnglePitchYaw", "QAngleBitCount", "QAnglePrecise", "Vector"}
  BY DEF Decoders, Decoder
<1> QED  BY <1>1, <1>2, <1>3, <1>4, <1>5, <1>6, <1>7

------------------------------------------------------------------------------
(* Paths.                                                                  *)

\* The loops of ApplyFieldOp over components.
PushLoop      == INSTANCE LoopFacts WITH Body <- push
IncrementLoop == INSTANCE LoopFacts WITH Body <- inc_flagged

\* A path has the first n components of p, each cut to a byte.
Holds(h, n, p) ==
  /\ h \in FieldPathRecord /\ ~h.finished
  /\ n \in 1..7 /\ h.last = n - 1
  /\ \A i \in 1..n : h.data[i - 1] = p[i] % 256

\* A path is its three fields.
LEMMA PathFacts ==
  ASSUME NEW h \in FieldPathRecord
  PROVE  /\ h = [data |-> h.data, last |-> h.last, finished |-> h.finished]
         /\ h.data \in [0..6 -> Byte] /\ h.last \in 0..6 /\ h.finished \in BOOLEAN
BY DEF FieldPathRecord

\* What is cut to a byte may be cut before a sum or after it.
LEMMA ModFacts ==
  ASSUME NEW a \in Int, NEW b \in Int
  PROVE  a % 256 \in Byte /\ ((a % 256) + b) % 256 = (a + b) % 256
BY SMT DEF Byte

\* A byte is not changed by being cut to one.
LEMMA ByteFacts ==
  ASSUME NEW a \in Byte
  PROVE  a \in Int /\ a % 256 = a
BY SMT DEF Byte

\* A record with the last component in use and the data replaced.
LEMMA PathExcept ==
  ASSUME NEW h \in FieldPathRecord, NEW l, NEW d
  PROVE  [h EXCEPT !.last = l, !.data = d] = [data |-> d, last |-> l, finished |-> h.finished]
<1>1. [h EXCEPT !.last = l] = [data |-> h.data, last |-> l, finished |-> h.finished]
  BY PathFacts
<1> DEFINE g == [h EXCEPT !.last = l]
           a == h.data
           b == h.finished
<1>2. g = [data |-> a, last |-> l, finished |-> b]  BY <1>1
<1> HIDE DEF g, a, b
<1>3. [g EXCEPT !.data = d] = [data |-> d, last |-> l, finished |-> b]  BY <1>2
<1> QED  BY <1>3 DEF g, b

\* A pop leaves the components before it.
LEMMA PopHolds ==
  ASSUME NEW h, NEW n, NEW p, Holds(h, n, p), NEW m \in Nat, m < n
  PROVE  Holds(pop(h, m), n - m, p)
<1>1. h = [data |-> h.data, last |-> h.last, finished |-> h.finished]
      /\ h.data \in [0..6 -> Byte] /\ h.finished \in BOOLEAN /\ ~h.finished /\ n \in 1..7 /\ h.last = n - 1
  BY PathFacts DEF Holds
<1> DEFINE d == [i \in 0..6 |-> IF i > h.last - m /\ i <= h.last THEN 0 ELSE h.data[i]]
<1>2. pop(h, m) = [data |-> d, last |-> h.last - m, finished |-> h.finished]
  <2>1. pop(h, m) = [h EXCEPT !.last = h.last - m, !.data = d]  BY DEF pop
  <2> HIDE DEF d
  <2> QED  BY ZenonT(60), <2>1, PathExcept DEF Holds
<1>3. d \in [0..6 -> Byte]  BY <1>1 DEF Byte
<1>4. h.last - m \in 0..6 /\ n - m \in 1..7 /\ h.last - m = (n - m) - 1  BY <1>1
<1>5. ASSUME NEW i \in 1..(n - m) PROVE d[i - 1] = p[i] % 256
  <2>1. i - 1 \in 0..6 /\ ~(i - 1 > h.last - m) /\ i \in 1..n  BY <1>1, <1>4
  <2>2. d[i - 1] = h.data[i - 1]  BY <2>1
  <2> QED  BY <2>1, <2>2 DEF Holds
<1> HIDE DEF d
<1>6. pop(h, m) \in FieldPathRecord  BY <1>1, <1>2, <1>3, <1>4 DEF FieldPathRecord
<1> QED  BY <1>1, <1>2, <1>4, <1>5, <1>6 DEF Holds

\* An increment of component i, in bytes as in numbers.
LEMMA IncrementHolds ==
  ASSUME NEW h, NEW n, NEW p, Holds(h, n, p), NEW i \in 1..n, NEW v \in Int,
         NEW q, \A j \in 1..n : p[j] \in Int /\ q[j] = IF j = i THEN p[j] + v ELSE p[j]
  PROVE  Holds(inc_at(h, i - 1, v), n, q)
<1>1. h = [data |-> h.data, last |-> h.last, finished |-> h.finished]
      /\ h.data \in [0..6 -> Byte] /\ h.last \in 0..6 /\ h.finished \in BOOLEAN /\ ~h.finished /\ n \in 1..7 /\ h.last = n - 1
  BY PathFacts DEF Holds
<1> DEFINE d == [h.data EXCEPT ![i - 1] = (@ + v) % 256]
<1>2. inc_at(h, i - 1, v) = [data |-> d, last |-> h.last, finished |-> h.finished]
  BY <1>1 DEF inc_at
<1>3. i - 1 \in 0..6 /\ h.data[i - 1] \in Int
  <2>1. i - 1 \in 0..6  BY <1>1
  <2>2. h.data[i - 1] \in Byte  BY <1>1, <2>1
  <2> QED  BY <2>1, <2>2, ByteFacts
<1>4. (h.data[i - 1] + v) % 256 \in Byte
  <2>1. h.data[i - 1] + v \in Int  BY <1>3
  <2> QED  BY <2>1, ModFacts
<1>5. d \in [0..6 -> Byte]  BY <1>1, <1>3, <1>4
<1>6. ASSUME NEW j \in 1..n PROVE d[j - 1] = q[j] % 256
  <2>1. j - 1 \in 0..6 /\ h.data[j - 1] = p[j] % 256 /\ p[j] \in Int  BY <1>1 DEF Holds
  <2>2. CASE j = i
    <3>1. d[j - 1] = ((p[j] % 256) + v) % 256  BY <1>1, <2>1, <2>2
    <3>2. ((p[j] % 256) + v) % 256 = (p[j] + v) % 256  BY <2>1, ModFacts
    <3>3. q[j] = p[j] + v  BY <2>2
    <3> QED  BY <3>1, <3>2, <3>3
  <2>3. CASE j # i
    <3>1. d[j - 1] = h.data[j - 1]  BY <1>1, <2>1, <2>3
    <3>2. q[j] = p[j]  BY <2>3
    <3> QED  BY <2>1, <3>1, <3>2
  <2> QED  BY <2>2, <2>3
<1> HIDE DEF d
<1>7. inc_at(h, i - 1, v) \in FieldPathRecord  BY <1>1, <1>2, <1>5 DEF FieldPathRecord
<1> QED  BY <1>1, <1>2, <1>6, <1>7 DEF Holds

\* A push of the next component.
LEMMA PushHolds ==
  ASSUME NEW h, NEW n, NEW q, Holds(h, n, q), n < 7, NEW v \in Int, q[n + 1] = v
  PROVE  Holds(push(h, v), n + 1, q)
<1>1. h = [data |-> h.data, last |-> h.last, finished |-> h.finished]
      /\ h.data \in [0..6 -> Byte] /\ h.last \in 0..6 /\ h.finished \in BOOLEAN /\ ~h.finished /\ n \in 1..7 /\ h.last = n - 1
  BY PathFacts DEF Holds
<1> DEFINE d == [h.data EXCEPT ![h.last + 1] = v % 256]
<1>2. push(h, v) = [data |-> d, last |-> h.last + 1, finished |-> h.finished]
  <2>1. push(h, v) = [h EXCEPT !.last = h.last + 1, !.data = d]  BY DEF push
  <2> HIDE DEF d
  <2> QED  BY ZenonT(60), <2>1, PathExcept DEF Holds
<1>3. h.last + 1 = n /\ n \in 0..6 /\ n + 1 \in 1..7 /\ n = (n + 1) - 1  BY <1>1
<1>4. v % 256 \in Byte  BY ModFacts
<1>5. d \in [0..6 -> Byte]  BY <1>1, <1>3, <1>4
<1>6. ASSUME NEW j \in 1..n + 1 PROVE d[j - 1] = q[j] % 256
  <2>1. CASE j = n + 1  BY <1>1, <1>3, <2>1
  <2>2. CASE j # n + 1
    <3>1. j \in 1..n /\ j - 1 \in 0..6 /\ j - 1 # n  BY <1>3, <2>2
    <3>2. d[j - 1] = h.data[j - 1]  BY <1>1, <1>3, <3>1
    <3> QED  BY <3>1, <3>2 DEF Holds
  <2> QED  BY <2>1, <2>2
<1> HIDE DEF d
<1>7. push(h, v) \in FieldPathRecord  BY <1>1, <1>2, <1>3, <1>5 DEF FieldPathRecord
<1> QED  BY <1>1, <1>2, <1>3, <1>6, <1>7 DEF Holds

\* A path whose components are bytes is what is held of it.
LEMMA HeldPath ==
  ASSUME NEW h, NEW q \in Seq(Byte), Holds(h, Len(q), q)
  PROVE  Components(h) = q
<1>1. h.last + 1 = Len(q) /\ Len(q) \in Nat  BY DEF Holds
<1>2. ASSUME NEW i \in 1..Len(q) PROVE h.data[i - 1] = q[i]
  <2>1. h.data[i - 1] = q[i] % 256  BY DEF Holds
  <2>2. q[i] \in Byte  BY <1>2, ElementOfSeq
  <2> QED  BY <2>1, <2>2, ByteFacts
<1>3. q = [i \in 1..Len(q) |-> q[i]]  OBVIOUS
<1> QED  BY <1>1, <1>2, <1>3 DEF Components

------------------------------------------------------------------------------
(* Operations.                                                             *)

\* An operation pops, increments and pushes in one of the ways there are.
IsOp(op) ==
  /\ op.pops \in {"none", "one", "all", "n"}
  /\ op.at \in {"last", "any", "penultimate", "finish"}
  /\ op.by.add \in Int /\ op.push.add \in Int /\ op.pushes \in Int

\* Whatever a source is for, what is added to its number is a number.
LEMMA SourceFacts ==
  ASSUME NEW k \in Int
  PROVE  Const(k).add \in Int /\ ubitvar(k).add \in Int /\ varint32(k).add \in Int
         /\ \A n : ubit64(n, k).add \in Int
BY DEF Const, ubitvar, varint32, ubit64, Source

\* Every shorthand for an operation makes one.
LEMMA OpKinds ==
  ASSUME NEW weight, NEW by, by.add \in Int, NEW push_, push_.add \in Int, NEW pushes \in Int,
         NEW pops \in {"none", "one", "all", "n"}, NEW at \in {"last", "any", "penultimate", "finish"}
  PROVE  /\ IsOp(Op(weight, pops, at, by, pushes, push_))
         /\ IsOp(Plus(weight, by)) /\ IsOp(Push(weight, by, pushes, push_))
         /\ IsOp(Pop(weight, pops, by)) /\ IsOp(NonTopo(weight, pops, by))
<1>1. ASSUME NEW ps \in {"none", "one", "all", "n"}, NEW a \in {"last", "any", "penultimate", "finish"},
             NEW n \in Int, NEW p, p.add \in Int
      PROVE  IsOp(Op(weight, ps, a, by, n, p))
  BY <1>1 DEF IsOp, Op
<1>2. Const(0).add \in Int /\ 0 \in Int  BY SourceFacts
<1>3. IsOp(Plus(weight, by))  BY <1>1, <1>2 DEF Plus
<1>4. IsOp(Push(weight, by, pushes, push_))  BY <1>1 DEF Push
<1>5. IsOp(Pop(weight, pops, by))  BY <1>1, <1>2 DEF Pop
<1>6. IsOp(NonTopo(weight, pops, by))  BY <1>1, <1>2 DEF NonTopo
<1> QED  BY <1>1, <1>3, <1>4, <1>5, <1>6

\* The forty of FIELDOP_DESCRIPTORS are operations.
LEMMA AllOps == \A n \in FieldOps : IsOp(FIELDOP_DESCRIPTORS[n])
<1>1. \A k \in Int : Const(k).add \in Int /\ ubitvar(k).add \in Int /\ varint32(k).add \in Int
                     /\ \A n : ubit64(n, k).add \in Int
  BY SourceFacts
<1>2. \A w, by : by.add \in Int => IsOp(Plus(w, by))
  <2> TAKE w, by
  <2> HAVE by.add \in Int
  <2> QED  BY <1>1, OpKinds
<1>3. \A w, by, push_ : \A pushes \in Int : by.add \in Int /\ push_.add \in Int => IsOp(Push(w, by, pushes, push_))
  <2> TAKE w, by, push_
  <2> TAKE pushes \in Int
  <2> HAVE by.add \in Int /\ push_.add \in Int
  <2> QED  BY OpKinds
<1>4. \A w, by : \A pops \in {"none", "one", "all", "n"} :
        by.add \in Int => IsOp(Pop(w, pops, by)) /\ IsOp(NonTopo(w, pops, by))
  <2> TAKE w, by
  <2> TAKE pops \in {"none", "one", "all", "n"}
  <2> HAVE by.add \in Int
  <2> QED  BY <1>1, OpKinds
<1>5. IsOp(Op(310, "none", "any", varint32(1), Many, ubitvar(0)))
  <2>1. varint32(1).add \in Int /\ ubitvar(0).add \in Int /\ Many \in Int  BY <1>1 DEF Many
  <2> QED  BY <2>1, OpKinds
<1>6. IsOp(Op(271, "none", "penultimate", Const(1), 0, Const(0)))
  <2>1. Const(1).add \in Int /\ Const(0).add \in Int  BY <1>1
  <2> QED  BY <2>1, OpKinds
<1>7. IsOp(Op(25474, "none", "finish", Const(0), 0, Const(0)))
  <2> DEFINE zero == Const(0)
  <2>1. zero.add \in Int  BY <1>1
  <2> HIDE DEF zero
  <2>2. "none" \in {"none", "one", "all", "n"} /\ "finish" \in {"last", "any", "penultimate", "finish"} /\ 0 \in Int
    OBVIOUS
  <2>3. IsOp(Op(25474, "none", "finish", zero, 0, zero))
    <3> DEFINE op == Op(25474, "none", "finish", zero, 0, zero)
    <3>1. op.pops = "none" /\ op.at = "finish" /\ op.by = zero /\ op.pushes = 0 /\ op.push = zero  BY DEF Op
    <3> HIDE DEF op
    <3>2. IsOp(op)  BY <2>1, <2>2, <3>1 DEF IsOp
    <3> QED  BY <3>2 DEF op
  <2> QED  BY <2>3 DEF zero
<1>8. Many \in Int  BY DEF Many
<1>9. ASSUME NEW n \in 1..40 PROVE IsOp(FIELDOP_DESCRIPTORS[n])
  <2>1. \/ n \in 1..5 \/ n \in 6..13 \/ n \in 14..25 \/ n \in 26..33 \/ n \in 34..40  OBVIOUS
  <2>2. CASE n \in 1..5
    BY <1>1, <1>2, <2>2 DEF FIELDOP_DESCRIPTORS
  <2>3. CASE n \in 6..13
    BY <1>1, <1>3, <2>3 DEF FIELDOP_DESCRIPTORS
  <2>4. CASE n \in 14..25
    BY <1>1, <1>3, <2>4 DEF FIELDOP_DESCRIPTORS
  <2>5. CASE n \in 26..33
    BY <1>1, <1>3, <1>4, <1>5, <1>8, <2>5 DEF FIELDOP_DESCRIPTORS
  <2>6. CASE n \in 34..40
    BY <1>1, <1>4, <1>6, <1>7, <2>6 DEF FIELDOP_DESCRIPTORS
  <2> QED  BY <2>1, <2>2, <2>3, <2>4, <2>5, <2>6
<1>10. FieldOps = 1..40  BY DEF FieldOps, FIELDOP_DESCRIPTORS
<1> QED  BY <1>9, <1>10

\* Both loops with what they go over.
IncrementAll(h, components) == FoldLeft(inc_flagged, h, components)
PushAll(h, components)      == FoldLeft(push, h, components)

\* The loop that increments, and the one that pushes, one turn after another.
LEMMA IncrementTurns ==
  ASSUME NEW base, NEW seq, NEW n \in Nat, DOMAIN seq = 1..n
  PROVE  \E g : IncrementLoop!Turns(g, base, seq, n) /\ IncrementAll(base, seq) = g[n]
<1>1. IncrementAll(base, seq) = IncrementLoop!Loop(base, seq)
  BY DEF IncrementLoop!Loop, IncrementLoop!Iterates, IncrementLoop!Last, IncrementAll, FoldLeft, MapThenFoldSet, Max
<1>2. \E g : IncrementLoop!Turns(g, base, seq, n) /\ IncrementLoop!Loop(base, seq) = g[n]
  BY IncrementLoop!LoopTurns
<1> QED  BY <1>1, <1>2

\* The same for the loop that pushes.
LEMMA PushTurns ==
  ASSUME NEW base, NEW seq, NEW n \in Nat, DOMAIN seq = 1..n
  PROVE  \E g : PushLoop!Turns(g, base, seq, n) /\ PushAll(base, seq) = g[n]
<1>1. PushAll(base, seq) = PushLoop!Loop(base, seq)
  BY DEF PushLoop!Loop, PushLoop!Iterates, PushLoop!Last, PushAll, FoldLeft, MapThenFoldSet, Max
<1>2. \E g : PushLoop!Turns(g, base, seq, n) /\ PushLoop!Loop(base, seq) = g[n]
  BY PushLoop!LoopTurns
<1> QED  BY <1>1, <1>2

\* Any components are incremented, the flagged ones, by what they lack.
LEMMA AnyHolds ==
  ASSUME NEW h, NEW n, NEW p, Holds(h, n, p), NEW q, \A j \in 1..n : p[j] \in Int /\ q[j] \in Int,
         NEW seq, DOMAIN seq = 1..n,
         \A k \in 1..n : \/ seq[k].flag = TRUE /\ seq[k].at = k - 1 /\ seq[k].by = q[k] - p[k]
                         \/ seq[k].flag = FALSE /\ q[k] = p[k]
  PROVE  Holds(IncrementAll(h, seq), n, q)
<1> DEFINE Mixed(k) == [j \in 1..n |-> IF j <= k THEN q[j] ELSE p[j]]
<1>1. n \in 1..7 /\ n \in Nat  BY DEF Holds
<1>2. PICK g : IncrementLoop!Turns(g, h, seq, n) /\ IncrementAll(h, seq) = g[n]
  BY <1>1, IncrementTurns
<1> DEFINE S == {k \in Nat : k <= n => Holds(g[k], n, Mixed(k))}
<1>3. 0 \in S
  <2>1. \A j \in 1..n : Mixed(0)[j] = p[j]  OBVIOUS
  <2> HIDE DEF Mixed
  <2> QED  BY <1>2, <2>1 DEF Holds, IncrementLoop!Turns
<1>4. ASSUME NEW k \in Nat, k \in S PROVE k + 1 \in S
  <2> SUFFICES ASSUME k + 1 <= n PROVE Holds(g[k + 1], n, Mixed(k + 1))  OBVIOUS
  <2> DEFINE m == k + 1
  <2>1. m \in 1..n /\ m - 1 = k /\ k <= n  BY <1>1
  <2>2. Holds(g[k], n, Mixed(k))  BY <1>4, <2>1
  <2>3. g[m] = inc_flagged(g[k], seq[m])  BY <1>2, <2>1 DEF IncrementLoop!Turns
  <2>4. \A j \in 1..n : /\ Mixed(k)[j] \in Int
                        /\ Mixed(m)[j] = IF j = m THEN q[j] ELSE Mixed(k)[j]
    BY <1>1, <2>1
  <2>5. Mixed(k)[m] = p[m]  BY <1>1, <2>1
  <2> HIDE DEF Mixed, m, S
  <2>6. CASE seq[m].flag = TRUE /\ seq[m].at = m - 1 /\ seq[m].by = q[m] - p[m]
    <3>1. g[m] = inc_at(g[k], m - 1, q[m] - p[m])  BY <2>3, <2>6 DEF inc_flagged
    <3>2. q[m] - p[m] \in Int /\ Mixed(k)[m] + (q[m] - p[m]) = q[m]  BY <2>1, <2>5
    <3>3. \A j \in 1..n : /\ Mixed(k)[j] \in Int
                          /\ Mixed(m)[j] = IF j = m THEN Mixed(k)[j] + (q[m] - p[m]) ELSE Mixed(k)[j]
      BY <2>4, <3>2
    <3>4. Holds(inc_at(g[k], m - 1, q[m] - p[m]), n, Mixed(m))
      <4> DEFINE v == q[m] - p[m]
                 a == Mixed(k)
                 b == Mixed(m)
      <4>1. v \in Int /\ \A j \in 1..n : a[j] \in Int /\ b[j] = IF j = m THEN a[j] + v ELSE a[j]
        BY <3>2, <3>3
      <4>2. Holds(g[k], n, a)  BY <2>2
      <4> HIDE DEF v, a, b
      <4>3. Holds(inc_at(g[k], m - 1, v), n, b)  BY <2>1, <4>1, <4>2, IncrementHolds
      <4> QED  BY <4>3 DEF v, b
    <3> QED  BY <3>1, <3>4 DEF m
  <2>7. CASE seq[m].flag = FALSE /\ q[m] = p[m]
    <3>1. g[m] = g[k]  BY <2>3, <2>7 DEF inc_flagged
    <3>2. \A j \in 1..n : Mixed(m)[j] = Mixed(k)[j]  BY <2>4, <2>5, <2>7
    <3>3. Holds(g[m], n, Mixed(m))  BY <2>2, <3>1, <3>2 DEF Holds
    <3> QED  BY <3>3 DEF m
  <2> QED  BY <2>1, <2>6, <2>7
<1> HIDE DEF S
<1>5. n \in S  BY <1>1, <1>3, <1>4, IncrementLoop!NatSetInduction
<1>6. Holds(g[n], n, Mixed(n))  BY <1>1, <1>5 DEF S
<1>7. \A j \in 1..n : Mixed(n)[j] = q[j]  BY <1>1
<1> HIDE DEF Mixed
<1> QED  BY <1>2, <1>6, <1>7 DEF Holds

\* Components are pushed one after another.
LEMMA AllPushed ==
  ASSUME NEW h, NEW n, NEW q, Holds(h, n, q), NEW l \in Nat, n + l <= 7,
         NEW seq, DOMAIN seq = 1..l, \A k \in 1..l : seq[k] \in Int /\ seq[k] = q[n + k]
  PROVE  Holds(PushAll(h, seq), n + l, q)
<1>1. n \in 1..7  BY DEF Holds
<1>2. PICK g : PushLoop!Turns(g, h, seq, l) /\ PushAll(h, seq) = g[l]
  BY PushTurns
<1> DEFINE S == {k \in Nat : k <= l => Holds(g[k], n + k, q)}
<1>3. 0 \in S
  <2>1. n + 0 = n  BY <1>1
  <2> QED  BY <1>2, <2>1 DEF PushLoop!Turns
<1>4. ASSUME NEW k \in Nat, k \in S PROVE k + 1 \in S
  <2> SUFFICES ASSUME k + 1 <= l PROVE Holds(g[k + 1], n + (k + 1), q)  OBVIOUS
  <2> DEFINE m == k + 1
  <2>1. m \in 1..l /\ m - 1 = k /\ k <= l /\ n + m = (n + k) + 1 /\ n + k < 7  BY <1>1
  <2>2. Holds(g[k], n + k, q)  BY <1>4, <2>1
  <2>3. g[m] = push(g[k], seq[m])  BY <1>2, <2>1 DEF PushLoop!Turns
  <2>4. seq[m] \in Int /\ q[(n + k) + 1] = seq[m]  BY <2>1
  <2> HIDE DEF m, S
  <2>5. Holds(push(g[k], seq[m]), (n + k) + 1, q)  BY <2>1, <2>2, <2>4, PushHolds
  <2>6. Holds(g[m], n + m, q)  BY <2>1, <2>3, <2>5
  <2> QED  BY <2>6 DEF m
<1> HIDE DEF S
<1>5. l \in S  BY <1>3, <1>4, PushLoop!NatSetInduction
<1> QED  BY <1>2, <1>5 DEF S

\* What a sender that can use an operation knows of the two paths.
Reaches(op, p, q, kept) ==
  LET changed == {i \in 1..kept : p[i] # q[i]}
  IN \/ op.at = "last" /\ changed \subseteq {kept}
     \/ op.at = "any"
     \/ op.at = "penultimate" /\ changed = {kept - 1} /\ q[kept - 1] - p[kept - 1] = 1

\* What an encoding e says that keeps some components of p and pushes others.
Encoded(n, p, q, e, kept, pushes) ==
  LET op == FIELDOP_DESCRIPTORS[n]
  IN /\ e.op = n /\ kept <= Len(p) /\ kept + pushes = Len(q)
     /\ Reaches(op, p, q, kept)
     /\ op.pops = "none" => kept = Len(p)
     /\ op.pops = "one"  => kept = Len(p) - 1
     /\ op.pops = "all"  => kept = 1
     /\ op.pops = "n"    => e.pop = Len(p) - kept
     /\ e.inc = q[kept] - p[kept] - op.by.add
     /\ e.any = [i \in {c - 1 : c \in {i \in 1..kept : p[i] # q[i]}} |-> q[i + 1] - p[i + 1] - op.by.add]
     /\ e.push = [k \in 1..pushes |-> q[kept + k] - op.push.add]

\* Whatever the sender writes for a step from p to q, it is the arguments of that step.
LEMMA EncodingFacts ==
  ASSUME NEW n \in FieldOps, NEW p \in Seq(Int), NEW q \in Seq(Byte), Len(p) \in 1..7, Len(q) \in 1..7,
         NEW e \in Encodings(n, p, q)
  PROVE  \E kept \in 1..7, pushes \in 0..6 : Encoded(n, p, q, e, kept, pushes)
<1> DEFINE lp      == Len(p)
           lq      == Len(q)
           op      == FIELDOP_DESCRIPTORS[n]
           pops    == CASE op.pops = "none" -> 0
                        [] op.pops = "one"  -> 1
                        [] op.pops = "all"  -> lp - 1
                        [] op.pops = "n"    -> lp - lq
           kept    == lp - pops
           pushes  == IF op.pushes = Many THEN lq - kept ELSE op.pushes
           changed == {i \in 1..kept : p[i] # q[i]}
           reaches == CASE op.at = "last"        -> changed \subseteq {kept} /\ Fits(q[kept] - p[kept], op.by)
                        [] op.at = "any"         -> \A i \in changed : Fits(q[i] - p[i], op.by)
                        [] op.at = "penultimate" -> changed = {kept - 1} /\ q[kept - 1] - p[kept - 1] = 1
                        [] OTHER                 -> FALSE
           fits    == \A i \in kept + 1..lq : Fits(q[i], op.push)
           only    == [op   |-> n, pop |-> pops, inc |-> q[kept] - p[kept] - op.by.add,
                       any  |-> [i \in {c - 1 : c \in changed} |-> q[i + 1] - p[i + 1] - op.by.add],
                       push |-> [k \in 1..pushes |-> q[kept + k] - op.push.add]]
<1>1. Encodings(n, p, q) =
        IF pops >= 0 /\ kept >= 1 /\ pushes >= 0 /\ kept + pushes = lq /\ reaches /\ fits
        THEN {only} ELSE {}
  BY DEF Encodings
<1>2. reaches => Reaches(op, p, q, kept)
  <2> HIDE DEF op, kept
  <2> QED  BY DEF Reaches
<1>3. IsOp(op)  BY AllOps
<1>4. /\ only.op = n /\ only.pop = pops /\ only.inc = q[kept] - p[kept] - op.by.add
      /\ only.any = [i \in {c - 1 : c \in changed} |-> q[i + 1] - p[i + 1] - op.by.add]
      /\ only.push = [k \in 1..pushes |-> q[kept + k] - op.push.add]
  <2> HIDE DEF op, pops, kept, pushes, changed
  <2> QED  OBVIOUS
<1>5. /\ pops \in Int
      /\ op.pops = "none" => pops = 0
      /\ op.pops = "one"  => pops = 1
      /\ op.pops = "all"  => pops = lp - 1
  <2> HIDE DEF op
  <2>1. lp \in Int /\ lq \in Int /\ op.pops \in {"none", "one", "all", "n"}  BY <1>3 DEF IsOp
  <2>2. CASE op.pops = "none"  BY <2>1, <2>2
  <2>3. CASE op.pops = "one"   BY <2>1, <2>3
  <2>4. CASE op.pops = "all"   BY <2>1, <2>4
  <2>5. CASE op.pops = "n"     BY <2>1, <2>5
  <2> QED  BY <2>1, <2>2, <2>3, <2>4, <2>5
<1>14. pops >= 0 /\ kept >= 1 /\ pushes >= 0 /\ kept + pushes = lq /\ reaches /\ e = only
  <2> HIDE DEF pops, kept, pushes, reaches, fits, only
  <2> QED  BY <1>1
<1>6. pops >= 0 /\ kept >= 1 /\ pushes >= 0 /\ kept + pushes = lq /\ lp \in 1..7 /\ lq \in 1..7  BY <1>14
<1>7. kept \in 1..7 /\ kept <= lp /\ pops = lp - kept
  <2>1. kept = lp - pops  OBVIOUS
  <2> HIDE DEF kept, pops, lp, lq, pushes
  <2> QED  BY <1>5, <1>6, <2>1
<1>8. pushes \in 0..6
  <2>1. pushes \in Int
    <3>1. op.pushes \in Int /\ lq - kept \in Int  BY <1>3, <1>7 DEF IsOp
    <3> HIDE DEF op, kept
    <3> QED  BY <3>1
  <2> HIDE DEF pushes, kept, lp, lq
  <2> QED  BY <1>6, <1>7, <2>1
<1>9. /\ op.pops = "none" => kept = lp
      /\ op.pops = "one"  => kept = lp - 1
      /\ op.pops = "all"  => kept = 1
      /\ op.pops = "n"    => e.pop = lp - kept
  <2>1. e.pop = pops  BY <1>4, <1>14
  <2>2. lp \in Int /\ kept \in Int /\ pops \in Int /\ pops = lp - kept
    <3> HIDE DEF kept, op, pops, lp, lq, pushes
    <3> QED  BY <1>5, <1>6, <1>7
  <2> HIDE DEF kept, op, pops, lp, lq
  <2>3. op.pops = "none" => kept = lp      BY <1>5, <2>2
  <2>4. op.pops = "one"  => kept = lp - 1  BY <1>5, <2>2
  <2>5. op.pops = "all"  => kept = 1       BY <1>5, <2>2
  <2> QED  BY <2>1, <2>2, <2>3, <2>4, <2>5
<1>10. /\ e.op = n /\ e.inc = q[kept] - p[kept] - op.by.add
       /\ e.any = [i \in {c - 1 : c \in changed} |-> q[i + 1] - p[i + 1] - op.by.add]
       /\ e.push = [k \in 1..pushes |-> q[kept + k] - op.push.add]
  <2> HIDE DEF op, kept, pushes, changed
  <2> QED  BY <1>4, <1>14
<1>11. Reaches(op, p, q, kept)  BY <1>2, <1>14
<1>12. Encoded(n, p, q, e, kept, pushes)
  <2> HIDE DEF kept, pushes
  <2> QED  BY <1>6, <1>7, <1>9, <1>10, <1>11 DEF op, changed, Encoded
<1> HIDE DEF kept, pushes
<1> QED  BY <1>7, <1>8, <1>12

\* The operation that a sender encodes a path with gives it to the reader.
LEMMA EncodingLeads ==
  ASSUME NEW n \in FieldOps, NEW p \in Seq(Int), NEW q \in Seq(Byte), Len(p) \in 1..7, Len(q) \in 1..7,
         NEW e \in Encodings(n, p, q), NEW h, Holds(h, Len(p), p)
  PROVE  e.op = n /\ Holds(ApplyFieldOp(h, n, e), Len(q), q)
<1> DEFINE op == FIELDOP_DESCRIPTORS[n]
           lp == Len(p)
           lq == Len(q)
<1>1. PICK kept \in 1..7, pushes \in 0..6 : Encoded(n, p, q, e, kept, pushes)  BY EncodingFacts
<1>2. /\ e.op = n /\ kept <= lp /\ kept + pushes = lq /\ lp \in 1..7 /\ lq \in 1..7
      /\ op.pops = "none" => kept = lp
      /\ op.pops = "one"  => kept = lp - 1
      /\ op.pops = "all"  => kept = 1
      /\ op.pops = "n"    => e.pop = lp - kept
  BY <1>1 DEF Encoded
<1>3. /\ e.inc = q[kept] - p[kept] - op.by.add
      /\ e.any = [i \in {c - 1 : c \in {i \in 1..kept : p[i] # q[i]}} |-> q[i + 1] - p[i + 1] - op.by.add]
      /\ e.push = [k \in 1..pushes |-> q[kept + k] - op.push.add]
  BY <1>1 DEF Encoded
<1>4. Reaches(op, p, q, kept)  BY <1>1 DEF Encoded
<1>5. IsOp(op)  BY AllOps
<1>6. /\ \A i \in 1..lp : p[i] \in Int
      /\ \A i \in 1..lq : q[i] \in Int
  <2>1. \A i \in 1..lp : p[i] \in Int  BY ElementOfSeq
  <2>2. \A i \in 1..lq : q[i] \in Int  BY ElementOfSeq, ByteFacts
  <2> QED  BY <2>1, <2>2
<1> DEFINE popped == Popped(op, h, e)
           incremented == Incremented(op, popped, e)
<1>7. ApplyFieldOp(h, n, e) = Pushed(op, incremented, e)  BY DEF ApplyFieldOp
<1>8. Holds(h, lp, p)  OBVIOUS
<1> HIDE DEF op, lp, lq
<1>9. Holds(popped, kept, p)
  <2>1. h.last = lp - 1  BY <1>8 DEF Holds
  <2>2. popped = pop(h, lp - kept)
    <3>1. op.pops \in {"none", "one", "all", "n"}  BY <1>5 DEF IsOp
    <3>2. CASE op.pops = "none"
      <4>1. lp - kept = 0  BY <1>2, <3>2
      <4> QED  BY <3>2, <4>1 DEF Popped
    <3>3. CASE op.pops = "one"
      <4>1. lp - kept = 1  BY <1>2, <3>3
      <4> QED  BY <3>3, <4>1 DEF Popped
    <3>4. CASE op.pops = "all"
      <4>1. lp - kept = h.last  BY <1>2, <2>1, <3>4
      <4> QED  BY <3>4, <4>1 DEF Popped
    <3>5. CASE op.pops = "n"
      <4>1. lp - kept = e.pop  BY <1>2, <3>5
      <4> QED  BY <3>5, <4>1 DEF Popped
    <3> QED  BY <3>1, <3>2, <3>3, <3>4, <3>5
  <2>3. lp - kept \in Nat /\ lp - kept < lp /\ lp - (lp - kept) = kept  BY <1>2
  <2>4. Holds(pop(h, lp - kept), lp - (lp - kept), p)  BY <1>8, <2>3, PopHolds
  <2> QED  BY <2>2, <2>3, <2>4
<1> HIDE DEF popped
<1>10. popped.last = kept - 1  BY <1>9 DEF Holds
<1>11. /\ \A j \in 1..kept : p[j] \in Int /\ q[j] \in Int
       /\ op.by.add \in Int /\ op.push.add \in Int
  <2>1. 1..kept \subseteq 1..lp /\ 1..kept \subseteq 1..lq  BY <1>2
  <2> QED  BY <1>5, <1>6, <2>1 DEF IsOp
<1>12. Holds(incremented, kept, q)
  <2>1. CASE op.at = "last" /\ {i \in 1..kept : p[i] # q[i]} \subseteq {kept}
    <3> DEFINE v == q[kept] - p[kept]
    <3>1. p[kept] \in Int /\ q[kept] \in Int /\ kept \in 1..kept  BY <1>11
    <3>2. e.inc + op.by.add = v /\ v \in Int
      <4>1. e.inc = v - op.by.add  BY <1>3
      <4>2. v \in Int  BY <3>1
      <4> HIDE DEF v
      <4> QED  BY <1>11, <4>1, <4>2
    <3>3. incremented = inc_at(popped, kept - 1, v)
      BY <1>10, <2>1, <3>2 DEF Incremented, inc_last
    <3>4. \A j \in 1..kept : p[j] \in Int /\ q[j] = IF j = kept THEN p[j] + v ELSE p[j]
      <4> SUFFICES ASSUME NEW j \in 1..kept
                   PROVE  p[j] \in Int /\ q[j] = IF j = kept THEN p[j] + v ELSE p[j]
        OBVIOUS
      <4>1. j # kept => p[j] = q[j]  BY <2>1
      <4>2. p[kept] + v = q[kept]  BY <3>1
      <4> HIDE DEF v
      <4> QED  BY <1>11, <4>1, <4>2
    <3> HIDE DEF v, incremented
    <3>5. Holds(inc_at(popped, kept - 1, v), kept, q)  BY <1>9, <3>1, <3>2, <3>4, IncrementHolds
    <3> QED  BY <3>3, <3>5
  <2>2. CASE op.at = "penultimate" /\ {i \in 1..kept : p[i] # q[i]} = {kept - 1} /\ q[kept - 1] - p[kept - 1] = 1
    <3> DEFINE m == kept - 1
               v == 1
    <3>1. m \in 1..kept  BY <2>2
    <3>2. p[m] \in Int /\ q[m] \in Int /\ q[m] = p[m] + v  BY <1>11, <2>2, <3>1
    <3>3. incremented = inc_at(popped, m - 1, v)  BY <1>10, <2>2 DEF Incremented
    <3>4. \A j \in 1..kept : p[j] \in Int /\ q[j] = IF j = m THEN p[j] + v ELSE p[j]
      BY <1>11, <2>2, <3>2
    <3>6. v \in Int  OBVIOUS
    <3> HIDE DEF m, v, incremented
    <3>5. Holds(inc_at(popped, m - 1, v), kept, q)  BY <1>9, <3>1, <3>4, <3>6, IncrementHolds
    <3> QED  BY <3>3, <3>5
  <2>3. CASE op.at = "any"
    <3> DEFINE seq == [k \in 1..popped.last + 1 |->
                         LET i == k - 1
                         IN IF i \in DOMAIN e.any
                            THEN [flag |-> TRUE, at |-> i, by |-> e.any[i] + op.by.add]
                            ELSE [flag |-> FALSE]]
    <3>1. incremented = IncrementAll(popped, seq)  BY <2>3 DEF Incremented, IncrementAll
    <3>2. popped.last + 1 = kept  BY <1>10
    <3>3. DOMAIN seq = 1..kept  BY <3>2
    <3>4. ASSUME NEW k \in 1..kept
          PROVE  \/ seq[k].flag = TRUE /\ seq[k].at = k - 1 /\ seq[k].by = q[k] - p[k]
                 \/ seq[k].flag = FALSE /\ q[k] = p[k]
      <4>1. p[k] \in Int /\ q[k] \in Int /\ op.by.add \in Int  BY <1>11
      <4>2. CASE p[k] # q[k]
        <5>1. k - 1 \in {c - 1 : c \in {i \in 1..kept : p[i] # q[i]}} /\ k - 1 + 1 = k  BY <4>2
        <5>2. k - 1 \in DOMAIN e.any /\ e.any[k - 1] = q[k] - p[k] - op.by.add  BY <1>3, <5>1
        <5>3. seq[k] = [flag |-> TRUE, at |-> k - 1, by |-> e.any[k - 1] + op.by.add]  BY <3>2, <5>2
        <5>4. e.any[k - 1] + op.by.add = q[k] - p[k]  BY <4>1, <5>2
        <5> HIDE DEF seq
        <5> QED  BY <5>3, <5>4
      <4>3. CASE p[k] = q[k]
        <5>1. k - 1 \notin {c - 1 : c \in {i \in 1..kept : p[i] # q[i]}}
          <6> SUFFICES ASSUME NEW c \in {i \in 1..kept : p[i] # q[i]}, c - 1 = k - 1 PROVE FALSE  OBVIOUS
          <6>1. c = k  OBVIOUS
          <6> QED  BY <4>3, <6>1
        <5>2. k - 1 \notin DOMAIN e.any  BY <1>3, <5>1
        <5>3. seq[k] = [flag |-> FALSE]  BY <3>2, <5>2
        <5> HIDE DEF seq
        <5> QED  BY <4>3, <5>3
      <4> QED  BY <4>2, <4>3
    <3> HIDE DEF seq, incremented
    <3>5. Holds(IncrementAll(popped, seq), kept, q)  BY <1>9, <1>11, <3>3, <3>4, AnyHolds
    <3> QED  BY <3>1, <3>5
  <2> QED  BY <1>4, <2>1, <2>2, <2>3 DEF Reaches
<1> HIDE DEF incremented
<1>13. Holds(Pushed(op, incremented, e), lq, q)
  <2> DEFINE seq == [k \in DOMAIN e.push |-> e.push[k] + op.push.add]
  <2>1. Pushed(op, incremented, e) = PushAll(incremented, seq)  BY DEF Pushed, PushAll
  <2>2. DOMAIN seq = 1..pushes  BY <1>3
  <2>3. ASSUME NEW k \in 1..pushes PROVE seq[k] \in Int /\ seq[k] = q[kept + k]
    <3>1. kept + k \in 1..lq  BY <1>2
    <3>2. q[kept + k] \in Int  BY <1>6, <3>1
    <3>3. seq[k] = (q[kept + k] - op.push.add) + op.push.add  BY <1>3, <2>2
    <3> HIDE DEF seq
    <3> QED  BY <1>11, <3>2, <3>3
  <2> HIDE DEF seq
  <2>4. pushes \in Nat /\ kept + pushes <= 7  BY <1>2
  <2>5. Holds(PushAll(incremented, seq), kept + pushes, q)  BY <1>12, <2>2, <2>3, <2>4, AllPushed
  <2> QED  BY <1>2, <2>1, <2>5
<1> QED  BY <1>2, <1>7, <1>13 DEF op, lq

------------------------------------------------------------------------------
(* Fields.                                                                 *)

\* The loops of Entity::parse and skip_entity_fields, down a path and over the fields.
BelowLoop        == INSTANCE LoopFacts WITH Body <- Below
SkippedBelowLoop == INSTANCE LoopFacts WITH Body <- SkippedBelow
DecodeLoop       == INSTANCE LoopFacts WITH Body <- DecodeField
SkipLoop         == INSTANCE LoopFacts WITH Body <- SkipField

\* Each loop with what it goes over.
BelowAll(s, indexes)            == FoldLeft(Below, s, indexes)
SkippedBelowAll(field, indexes) == FoldLeft(SkippedBelow, field, indexes)
DecodeAll(s, found)             == FoldLeft(DecodeField, s, found)
SkipAll(s, found)               == FoldLeft(SkipField, s, found)

\* Each of them one turn after another.
LEMMA BelowTurns ==
  ASSUME NEW base, NEW seq, NEW n \in Nat, DOMAIN seq = 1..n
  PROVE  \E g : BelowLoop!Turns(g, base, seq, n) /\ BelowAll(base, seq) = g[n]
<1>1. BelowAll(base, seq) = BelowLoop!Loop(base, seq)
  BY DEF BelowLoop!Loop, BelowLoop!Iterates, BelowLoop!Last, BelowAll, FoldLeft, MapThenFoldSet, Max
<1>2. \E g : BelowLoop!Turns(g, base, seq, n) /\ BelowLoop!Loop(base, seq) = g[n]
  BY BelowLoop!LoopTurns
<1> QED  BY <1>1, <1>2

\* The way down a path in skip_entity_fields.
LEMMA SkippedBelowTurns ==
  ASSUME NEW base, NEW seq, NEW n \in Nat, DOMAIN seq = 1..n
  PROVE  \E g : SkippedBelowLoop!Turns(g, base, seq, n) /\ SkippedBelowAll(base, seq) = g[n]
<1>1. SkippedBelowAll(base, seq) = SkippedBelowLoop!Loop(base, seq)
  BY DEF SkippedBelowLoop!Loop, SkippedBelowLoop!Iterates, SkippedBelowLoop!Last, SkippedBelowAll,
         FoldLeft, MapThenFoldSet, Max
<1>2. \E g : SkippedBelowLoop!Turns(g, base, seq, n) /\ SkippedBelowLoop!Loop(base, seq) = g[n]
  BY SkippedBelowLoop!LoopTurns
<1> QED  BY <1>1, <1>2

\* The fields of Entity::parse.
LEMMA DecodeTurns ==
  ASSUME NEW base, NEW seq, NEW n \in Nat, DOMAIN seq = 1..n
  PROVE  \E g : DecodeLoop!Turns(g, base, seq, n) /\ DecodeAll(base, seq) = g[n]
<1>1. DecodeAll(base, seq) = DecodeLoop!Loop(base, seq)
  BY DEF DecodeLoop!Loop, DecodeLoop!Iterates, DecodeLoop!Last, DecodeAll, FoldLeft, MapThenFoldSet, Max
<1>2. \E g : DecodeLoop!Turns(g, base, seq, n) /\ DecodeLoop!Loop(base, seq) = g[n]
  BY DecodeLoop!LoopTurns
<1> QED  BY <1>1, <1>2

\* The fields of skip_entity_fields.
LEMMA SkipTurns ==
  ASSUME NEW base, NEW seq, NEW n \in Nat, DOMAIN seq = 1..n
  PROVE  \E g : SkipLoop!Turns(g, base, seq, n) /\ SkipAll(base, seq) = g[n]
<1>1. SkipAll(base, seq) = SkipLoop!Loop(base, seq)
  BY DEF SkipLoop!Loop, SkipLoop!Iterates, SkipLoop!Last, SkipAll, FoldLeft, MapThenFoldSet, Max
<1>2. \E g : SkipLoop!Turns(g, base, seq, n) /\ SkipLoop!Loop(base, seq) = g[n]
  BY SkipLoop!LoopTurns
<1> QED  BY <1>1, <1>2

\* Both parsers find the same field, for any path and any serializer, arrays in arrays
\* included.
THEOREM SameField ==
  ASSUME NEW serializer, NEW p, NEW n \in Nat, DOMAIN Tail(p) = 1..n
  PROVE  FieldAt(serializer, p).field = SkippedFieldAt(serializer, p)
<1> DEFINE first == get_child(serializer, p[1])
           base  == [field |-> first, key |-> first.key]
<1>1. FieldAt(serializer, p) = BelowAll(base, Tail(p))
      /\ SkippedFieldAt(serializer, p) = SkippedBelowAll(first, Tail(p))
  BY DEF FieldAt, SkippedFieldAt, BelowAll, SkippedBelowAll
<1>2. base.field = first  OBVIOUS
<1> HIDE DEF base, first
<1>3. PICK f : BelowLoop!Turns(f, base, Tail(p), n) /\ BelowAll(base, Tail(p)) = f[n]
  BY BelowTurns
<1>4. PICK g : SkippedBelowLoop!Turns(g, first, Tail(p), n) /\ SkippedBelowAll(first, Tail(p)) = g[n]
  BY SkippedBelowTurns
<1> DEFINE S == {k \in Nat : k <= n => f[k].field = g[k]}
<1>5. 0 \in S  BY <1>2, <1>3, <1>4 DEF BelowLoop!Turns, SkippedBelowLoop!Turns
<1>6. ASSUME NEW k \in Nat, k \in S PROVE k + 1 \in S
  <2> SUFFICES ASSUME k + 1 <= n PROVE f[k + 1].field = g[k + 1]  OBVIOUS
  <2>1. k + 1 \in 1..n /\ (k + 1) - 1 = k /\ f[k].field = g[k]  BY <1>6
  <2>2. f[k + 1] = Below(f[k], Tail(p)[k + 1])  BY <1>3, <2>1 DEF BelowLoop!Turns
  <2>3. g[k + 1] = SkippedBelow(g[k], Tail(p)[k + 1])  BY <1>4, <2>1 DEF SkippedBelowLoop!Turns
  <2> QED  BY <2>1, <2>2, <2>3 DEF Below, SkippedBelow
<1> HIDE DEF S
<1>7. n \in S  BY <1>5, <1>6, BelowLoop!NatSetInduction
<1> QED  BY <1>1, <1>3, <1>4, <1>7 DEF S

\* Where the loop that decodes begins.
DecodeFrom(r, f, value) == [r |-> r, fields |-> f, value |-> value, failed |-> FALSE]
\* Where the loop that skips begins.
SkipFrom(r)             == [r |-> r, failed |-> FALSE]

\* A field that there is.
Found(s) == s.field.metadata.decoder \in Decoders

\* The same fields for both parsers, and their keys.
AllFound(found, skips, keys, n) ==
  /\ DOMAIN found = 1..n /\ DOMAIN skips = 1..n
  /\ \A k \in 1..n : Found(found[k]) /\ skips[k] = found[k].field
  /\ keys = {found[k].key : k \in 1..n}

\* Values are decoded with no error, a parser that passes over them comes to the same
\* bit, and the entity has the value under the keys of their fields.
AllRead(parsed, passed, f, value, keys) ==
  /\ parsed.failed = FALSE /\ passed.failed = FALSE
  /\ parsed.r \in Readers /\ passed.r = parsed.r
  /\ DOMAIN parsed.fields = DOMAIN f \cup keys
  /\ \A key \in DOMAIN parsed.fields : parsed.fields[key] = IF key \in keys THEN value ELSE f[key]

\* The state of the loop with the reader and the entity replaced.
LEMMA DecodedExcept ==
  ASSUME NEW r, NEW f, NEW value, NEW failed, NEW q, NEW g,
         NEW s, s = [r |-> r, fields |-> f, value |-> value, failed |-> failed]
  PROVE  [s EXCEPT !.r = q, !.fields = g] = [r |-> q, fields |-> g, value |-> value, failed |-> failed]
<1>1. [s EXCEPT !.r = q] = [r |-> q, fields |-> f, value |-> value, failed |-> failed]  OBVIOUS
<1> DEFINE t == [s EXCEPT !.r = q]
<1>2. t = [r |-> q, fields |-> f, value |-> value, failed |-> failed]  BY <1>1
<1> HIDE DEF t
<1>3. [t EXCEPT !.fields = g] = [r |-> q, fields |-> g, value |-> value, failed |-> failed]  BY <1>2
<1> QED  BY <1>3 DEF t

\* The values of fields that there are, one after another.
LEMMA ValuesAreRead ==
  ASSUME NEW r \in Readers, NEW f, NEW value, NEW n \in Nat,
         NEW found, NEW skips, NEW keys, AllFound(found, skips, keys, n),
         NEW parsed, parsed = DecodeAll(DecodeFrom(r, f, value), found),
         NEW passed, passed = SkipAll(SkipFrom(r), skips)
  PROVE  AllRead(parsed, passed, f, value, keys)
<1> DEFINE base == DecodeFrom(r, f, value)
           start == SkipFrom(r)
           Keys(i) == {found[k].key : k \in 1..i}
           Good(s, t, i) ==
             /\ s.failed = FALSE /\ t.failed = FALSE /\ s.value = value
             /\ s.r \in Readers /\ t.r = s.r
             /\ s = [r |-> s.r, fields |-> s.fields, value |-> s.value, failed |-> s.failed]
             /\ t = [r |-> t.r, failed |-> t.failed]
             /\ DOMAIN s.fields = DOMAIN f \cup Keys(i)
             /\ \A key \in DOMAIN s.fields : s.fields[key] = IF key \in Keys(i) THEN value ELSE f[key]
<1>1. Keys(0) = {}  OBVIOUS
<1>2. ASSUME NEW i \in Nat PROVE Keys(i + 1) = Keys(i) \cup {found[i + 1].key}
  <2>1. 1..i + 1 = (1..i) \cup {i + 1}  OBVIOUS
  <2> QED  BY <2>1
<1> HIDE DEF Keys
<1>3. Good(base, start, 0)  BY <1>1 DEF DecodeFrom, SkipFrom
<1>4. PICK g : DecodeLoop!Turns(g, base, found, n) /\ DecodeAll(base, found) = g[n]
  <2>1. DOMAIN found = 1..n  BY DEF AllFound
  <2> HIDE DEF base
  <2> QED  BY <2>1, DecodeTurns
<1>5. PICK h : SkipLoop!Turns(h, start, skips, n) /\ SkipAll(start, skips) = h[n]
  <2>1. DOMAIN skips = 1..n  BY DEF AllFound
  <2> HIDE DEF start
  <2> QED  BY <2>1, SkipTurns
<1>6. ASSUME NEW s, NEW t, NEW i \in Nat, Good(s, t, i), i + 1 <= n
      PROVE  Good(DecodeField(s, found[i + 1]), SkipField(t, skips[i + 1]), i + 1)
  <2> DEFINE at == found[i + 1]
             d == at.field.metadata.decoder
             q == decode(d, s.r)
             F == Put(s.fields, {at.key}, s.value)
  <2>1. i + 1 \in 1..n  BY <1>6
  <2>2. d \in Decoders /\ skips[i + 1] = at.field  BY <2>1 DEF AllFound, Found
  <2>3. SkipsTo(SkipDecoder(d, s.r), s.r, q)  BY <1>6, <2>2, SkippingIsDecoding
  <2>4. q \in Readers /\ SkipDecoder(d, s.r).r = q  BY <2>3 DEF SkipsTo, Measured
  <2>5. d # InvalidDecoder
    <3>1. d.kind # "Invalid"  BY <2>2 DEF Decoders, F32Decoders, Decoder
    <3> QED  BY <3>1 DEF InvalidDecoder, Decoder
  <2> HIDE DEF q
  <2>6. DecodeField(s, at) = [r |-> q, fields |-> F, value |-> value, failed |-> FALSE]
    <3>1. DecodeField(s, at) = [s EXCEPT !.r = q, !.fields = F]
      BY <1>6, <2>5 DEF DecodeField, q
    <3> DEFINE a == s.r
               b == s.fields
    <3>2. s = [r |-> a, fields |-> b, value |-> value, failed |-> FALSE]  BY <1>6
    <3> HIDE DEF F, a, b, at
    <3> QED  BY <3>1, <3>2, DecodedExcept
  <2>7. SkipField(t, at.field) = [r |-> q, failed |-> FALSE]
    <3>1. SkipField(t, at.field) = [t EXCEPT !.r = SkipDecoder(d, t.r).r]
      BY <1>6, <2>5 DEF SkipField
    <3>2. t = [r |-> s.r, failed |-> FALSE]  BY <1>6
    <3> HIDE DEF d
    <3> QED  BY <2>4, <3>1, <3>2
  <2>8. DOMAIN F = DOMAIN f \cup Keys(i + 1)  BY <1>2, <1>6 DEF Put
  <2>9. ASSUME NEW key \in DOMAIN F PROVE F[key] = IF key \in Keys(i + 1) THEN value ELSE f[key]
    <3>1. F[key] = IF key \in {at.key} THEN value ELSE s.fields[key]  BY <1>6 DEF Put
    <3>2. key \in Keys(i + 1) <=> key \in Keys(i) \/ key = at.key  BY <1>2
    <3>3. key # at.key => key \in DOMAIN s.fields  BY DEF Put
    <3> HIDE DEF F, at
    <3> QED  BY <1>6, <3>1, <3>2, <3>3
  <2> HIDE DEF F, at, d
  <2> QED  BY <2>2, <2>4, <2>6, <2>7, <2>8, <2>9 DEF at
<1> HIDE DEF Good
<1> DEFINE S == {i \in Nat : i <= n => Good(g[i], h[i], i)}
<1>7. 0 \in S
  <2> HIDE DEF base, start
  <2> QED  BY <1>3, <1>4, <1>5 DEF DecodeLoop!Turns, SkipLoop!Turns
<1>8. ASSUME NEW i \in Nat, i \in S PROVE i + 1 \in S
  <2> SUFFICES ASSUME i + 1 <= n PROVE Good(g[i + 1], h[i + 1], i + 1)  OBVIOUS
  <2>1. i + 1 \in 1..n /\ (i + 1) - 1 = i /\ Good(g[i], h[i], i)  BY <1>8
  <2> HIDE DEF base, start, S
  <2>2. g[i + 1] = DecodeField(g[i], found[i + 1])  BY <1>4, <2>1 DEF DecodeLoop!Turns
  <2>3. h[i + 1] = SkipField(h[i], skips[i + 1])  BY <1>5, <2>1 DEF SkipLoop!Turns
  <2>4. Good(DecodeField(g[i], found[i + 1]), SkipField(h[i], skips[i + 1]), i + 1)  BY <1>6, <2>1
  <2> QED  BY <2>2, <2>3, <2>4
<1> HIDE DEF S
<1>9. n \in S  BY <1>7, <1>8, DecodeLoop!NatSetInduction
<1>10. Good(parsed, passed, n)  BY <1>4, <1>5, <1>9 DEF S
<1> QED  BY <1>10 DEF Good, Keys, AllRead, AllFound

------------------------------------------------------------------------------
(* The deltas.                                                             *)

\* The path of the reader is the last one that the sender named, and so were those
\* it has stored.
PathsInv ==
  /\ path \in Paths \cup {FirstPath} /\ Holds(fp, Len(path), path)
  /\ sent \in Seq(Paths) /\ fps \in Seq(FieldPathRecord) /\ Len(fps) = Len(sent)
  /\ \A k \in 1..Len(sent) : Holds(fps[k], Len(sent[k]), sent[k])

\* After a delta both readers are at the same bit, with no error.
ReadersInv ==
  /\ decoded.pos \in Nat /\ decoded.failed = FALSE
  /\ skipped.pos = decoded.pos /\ skipped.failed = FALSE

\* The values are those of the fields that the game has sent.
SlotsInv ==
  /\ DOMAIN latest \subseteq Paths
  /\ DOMAIN fields = {KeyOf(p) : p \in DOMAIN latest}
  /\ \A p \in DOMAIN latest : fields[KeyOf(p)] = latest[p]

\* Paths are sequences of numbers, also the one that the first is counted from.
LEMMA SentPaths ==
  /\ \A p \in Paths : p \in Seq(Byte) /\ p \in Seq(Int) /\ Len(p) \in 1..7
  /\ FirstPath \in Seq(Int) /\ Len(FirstPath) = 1 /\ FirstPath[1] = -1
<1>1. ASSUME NEW p \in Paths PROVE p \in Seq(Byte) /\ p \in Seq(Int) /\ Len(p) \in 1..7
  <2>1. p \in Seq(Byte) /\ Len(p) \in 1..7  BY FieldsAssumption DEF Byte
  <2>2. \A i \in 1..Len(p) : p[i] \in Int  BY <2>1, ElementOfSeq, ByteFacts
  <2>3. p = [i \in 1..Len(p) |-> p[i]] /\ Len(p) \in Nat  BY <2>1
  <2>4. p \in Seq(Int)  BY <2>2, <2>3
  <2> QED  BY <2>1, <2>4
<1>2. FirstPath \in Seq(Int) /\ Len(FirstPath) = 1 /\ FirstPath[1] = -1  BY DEF FirstPath
<1> QED  BY <1>1, <1>2

\* The first path is counted from a component of -1, a byte of 255.
LEMMA FirstHolds == Holds(NewFieldPath, Len(FirstPath), FirstPath)
<1> DEFINE d == [i \in 0..6 |-> IF i = 0 THEN 255 ELSE 0]
<1>1. NewFieldPath = [data |-> d, last |-> 0, finished |-> FALSE]  BY DEF NewFieldPath
<1>2. d \in [0..6 -> Byte]  BY DEF Byte
<1>3. d[0] = 255 /\ 1 - 1 = 0  OBVIOUS
<1>6. \A a \in Int : a % 256 = (a + 256) % 256  BY SMT
<1>7. FirstPath[1] % 256 = 255
  <2> DEFINE a == FirstPath[1]
  <2>1. a \in Int /\ a + 256 = 255  BY SentPaths
  <2>2. 255 % 256 = 255
    <3>1. 255 \in Byte  BY DEF Byte
    <3> QED  BY <3>1, ByteFacts
  <2> HIDE DEF a
  <2>3. a % 256 = 255  BY <1>6, <2>1, <2>2
  <2> QED  BY <2>3 DEF a
<1> HIDE DEF d
<1>4. NewFieldPath \in FieldPathRecord  BY <1>1, <1>2 DEF FieldPathRecord
<1>5. \A i \in 1..1 : i = 1  OBVIOUS
<1> QED  BY <1>1, <1>3, <1>4, <1>5, <1>7, SentPaths DEF Holds

\* What the reader makes of the next path.
LEMMA NextPathHolds ==
  ASSUME CodesAreRead, NEW p \in Paths \cup {FirstPath}, NEW q \in Paths, NEW e \in AllEncodings[<<p, q>>],
         NEW h, Holds(h, Len(p), p)
  PROVE  Holds(ApplyFieldOp(h, ReadFieldOp(Codes[e.op]).at, e), Len(q), q)
<1>1. AllEncodings[<<p, q>>] = UNION {Encodings(n, p, q) : n \in FieldOps}  BY DEF AllEncodings
<1>2. PICK n \in FieldOps : e \in Encodings(n, p, q)  BY <1>1
<1>3. p \in Seq(Int) /\ Len(p) \in 1..7 /\ q \in Seq(Byte) /\ Len(q) \in 1..7  BY SentPaths
<1>4. e.op = n /\ Holds(ApplyFieldOp(h, n, e), Len(q), q)  BY <1>2, <1>3, EncodingLeads
<1>5. ReadFieldOp(Codes[n]) = [leaf |-> TRUE, at |-> n]  BY Zenon DEF CodesAreRead
<1>6. ReadFieldOp(Codes[n]).at = n  BY <1>5
<1> QED  BY <1>4, <1>6

\* The paths that a delta leads to are the sender's.
THEOREM PathsInvariant ==
  ASSUME CodesAreRead
  PROVE  FieldsSpec => []PathsInv
<1>1. FieldsInit => PathsInv
  <2> SUFFICES ASSUME FieldsInit PROVE PathsInv  OBVIOUS
  <2>1. path = FirstPath /\ fp = NewFieldPath /\ sent = <<>> /\ fps = <<>>  BY DEF FieldsInit
  <2> QED  BY <2>1, FirstHolds DEF PathsInv
<1>2. PathsInv /\ [FieldsNext]_fieldsVars => PathsInv'
  <2> SUFFICES ASSUME PathsInv, [FieldsNext]_fieldsVars PROVE PathsInv'  OBVIOUS
  <2>1. ASSUME NEW q \in Paths, NameField(q) PROVE PathsInv'
    <3>1. PICK e \in AllEncodings[<<path, q>>] :
            LET next == ApplyFieldOp(fp, ReadFieldOp(Codes[e.op]).at, e)
            IN fp' = next /\ fps' = Append(fps, next)
      BY <2>1 DEF NameField
    <3>2. path' = q /\ sent' = Append(sent, q) /\ fps' = Append(fps, fp')  BY <2>1, <3>1 DEF NameField
    <3>3. Holds(fp', Len(q), q)
      <4>1. fp' = ApplyFieldOp(fp, ReadFieldOp(Codes[e.op]).at, e)  BY <3>1
      <4>2. path \in Paths \cup {FirstPath} /\ Holds(fp, Len(path), path)  BY DEF PathsInv
      <4> QED  BY <4>1, <4>2, NextPathHolds
    <3>4. fp' \in FieldPathRecord  BY <3>3 DEF Holds
    <3>5. sent \in Seq(Paths) /\ fps \in Seq(FieldPathRecord) /\ Len(fps) = Len(sent)  BY DEF PathsInv
    <3>6. /\ sent' \in Seq(Paths) /\ Len(sent') = Len(sent) + 1
          /\ fps' \in Seq(FieldPathRecord) /\ Len(fps') = Len(sent) + 1
      BY <3>2, <3>4, <3>5
    <3>7. ASSUME NEW k \in 1..Len(sent') PROVE Holds(fps'[k], Len(sent'[k]), sent'[k])
      <4>1. Len(sent) \in Nat  BY <3>5
      <4>2. CASE k = Len(sent) + 1
        <5>1. fps'[k] = fp' /\ sent'[k] = q  BY <3>2, <3>5, <4>2
        <5> QED  BY <3>3, <5>1
      <4>3. CASE k # Len(sent) + 1
        <5>1. k \in 1..Len(sent)  BY <3>6, <4>1, <4>3
        <5>2. fps'[k] = fps[k] /\ sent'[k] = sent[k]  BY <3>2, <3>5, <5>1
        <5>3. Holds(fps[k], Len(sent[k]), sent[k])  BY <5>1 DEF PathsInv
        <5> QED  BY <5>2, <5>3
      <4> QED  BY <4>2, <4>3
    <3> QED  BY <3>2, <3>3, <3>6, <3>7 DEF PathsInv
  <2>2. ASSUME NEW bits \in Streams, ReadValues(bits) PROVE PathsInv'
    <3>1. path' = FirstPath /\ sent' = <<>> /\ fp' = NewFieldPath /\ fps' = <<>>  BY <2>2 DEF ReadValues
    <3> QED  BY <3>1, FirstHolds DEF PathsInv
  <2>3. CASE UNCHANGED fieldsVars
    BY <2>3 DEF PathsInv, fieldsVars, senderVars
  <2> QED  BY <2>1, <2>2, <2>3 DEF FieldsNext
<1> QED  BY <1>1, <1>2, PTL DEF FieldsSpec

\* PathsAreSent: read_field_paths stores the paths that the sender named, for every set
\* of paths of up to seven components and every choice of operations, if the tree
\* leads from each code to its operation.
THEOREM PathsCorrect ==
  ASSUME CodesAreRead
  PROVE  FieldsSpec => []PathsAreSent
<1>1. PathsInv => PathsAreSent
  <2> SUFFICES ASSUME PathsInv PROVE PathsAreSent  OBVIOUS
  <2>1. sent \in Seq(Paths) /\ Len(fps) = Len(sent)  BY DEF PathsInv
  <2>2. ASSUME NEW k \in DOMAIN sent PROVE Components(fps[k]) = sent[k]
    <3>1. k \in 1..Len(sent) /\ sent[k] \in Paths  BY <2>1, ElementOfSeq
    <3>2. Holds(fps[k], Len(sent[k]), sent[k])  BY <3>1 DEF PathsInv
    <3>3. sent[k] \in Seq(Byte)  BY <3>1, SentPaths
    <3> QED  BY <3>2, <3>3, HeldPath
  <2> QED  BY <2>1, <2>2 DEF PathsAreSent
<1>2. FieldsSpec => []PathsInv  BY PathsInvariant
<1> QED  BY <1>1, <1>2, PTL

\* The indexes that are left for the loop after the first one.
LEMMA TailIndexes ==
  ASSUME NEW p \in Seq(Byte), Len(p) \in 1..7
  PROVE  DOMAIN Tail(p) = 1..Len(p) - 1 /\ Len(p) - 1 \in Nat
<1>1. p # <<>>  OBVIOUS
<1>2. Tail(p) \in Seq(Byte) /\ Len(Tail(p)) = Len(p) - 1  BY <1>1, HeadTailProperties
<1> QED  BY <1>2

\* AllRead for the fields of the delta that was sent.
DeltaRead(parsed, passed) ==
  AllRead(parsed, passed, fields, deltas, {KeyOf(sent[k]) : k \in DOMAIN sent})

\* The values of a delta are decoded to the end, a parser that passes over them comes
\* to the same bit, and each one is stored.
LEMMA DeltaIsRead ==
  ASSUME FieldsAreFound, PathsInv, NEW bits \in Streams
  PROVE  DeltaRead(parse(Serializer, fps, bits, deltas), skip_entity_fields(Serializer, fps, bits))
<1> DEFINE n == Len(sent)
           found == [k \in DOMAIN fps |-> FieldAt(Serializer, Components(fps[k]))]
           skips == [k \in DOMAIN fps |-> SkippedFieldAt(Serializer, Components(fps[k]))]
           r == NewReader(bits)
           parsed == parse(Serializer, fps, bits, deltas)
           passed == skip_entity_fields(Serializer, fps, bits)
<1>1. sent \in Seq(Paths) /\ fps \in Seq(FieldPathRecord) /\ Len(fps) = n /\ n \in Nat  BY DEF PathsInv
<1>2. DOMAIN fps = 1..n /\ DOMAIN sent = 1..n  BY <1>1
<1>3. ASSUME NEW k \in 1..n PROVE Components(fps[k]) = sent[k] /\ sent[k] \in Paths
  <2>1. sent[k] \in Paths  BY <1>1, ElementOfSeq
  <2>2. Holds(fps[k], Len(sent[k]), sent[k])  BY DEF PathsInv
  <2>3. sent[k] \in Seq(Byte)  BY <2>1, SentPaths
  <2> QED  BY <2>1, <2>2, <2>3, HeldPath
<1>4. DOMAIN found = 1..n /\ DOMAIN skips = 1..n  BY <1>2
<1>5. ASSUME NEW k \in 1..n
      PROVE  found[k] = FieldAt(Serializer, sent[k]) /\ skips[k] = SkippedFieldAt(Serializer, sent[k])
  BY <1>2, <1>3
<1>6. ASSUME NEW k \in 1..n PROVE Found(found[k]) /\ skips[k] = found[k].field /\ found[k].key = KeyOf(sent[k])
  <2> DEFINE p == sent[k]
  <2>1. p \in Paths  BY <1>3
  <2>2. p \in Seq(Byte) /\ Len(p) \in 1..7  BY <2>1, SentPaths
  <2>3. DOMAIN Tail(p) = 1..Len(p) - 1 /\ Len(p) - 1 \in Nat
    <3> HIDE DEF p
    <3> QED  BY <2>2, TailIndexes
  <2>4. FieldAt(Serializer, p).field = SkippedFieldAt(Serializer, p)  BY <2>3, SameField
  <2>5. FieldAt(Serializer, p).field.metadata.decoder \in Decoders  BY <2>1 DEF FieldsAreFound
  <2>6. found[k] = FieldAt(Serializer, p) /\ skips[k] = SkippedFieldAt(Serializer, p)  BY <1>5
  <2> HIDE DEF found, skips, p
  <2>7. Found(found[k])  BY <2>5, <2>6 DEF Found
  <2>8. found[k].key = KeyOf(sent[k])  BY <2>6 DEF KeyOf, p
  <2> QED  BY <2>4, <2>6, <2>7, <2>8
<1>7. r \in Readers
  <2>1. bits \in Seq(BOOLEAN) /\ Len(bits) # 0 /\ 0 \in Nat  BY FieldsAssumption
  <2> QED  BY <2>1 DEF NewReader, Readers
<1> DEFINE keys == {found[k].key : k \in 1..n}
<1>8. parsed = DecodeAll(DecodeFrom(r, fields, deltas), found)
  BY DEF parse, DecodeAll, DecodeFrom
<1>9. passed = SkipAll(SkipFrom(r), skips)  BY DEF skip_entity_fields, SkipAll, SkipFrom
<1>13. keys = {found[k].key : k \in 1..n}  OBVIOUS
<1> HIDE DEF found, skips, r, parsed, passed, n, keys
<1>10. AllRead(parsed, passed, fields, deltas, keys)
  <2>1. AllFound(found, skips, keys, n)  BY <1>4, <1>6, <1>13 DEF AllFound
  <2> QED  BY <1>1, <1>7, <1>8, <1>9, <2>1, ValuesAreRead
<1>11. keys = {KeyOf(sent[k]) : k \in DOMAIN sent}
  <2>1. \A k \in 1..n : found[k].key = KeyOf(sent[k])  BY <1>6
  <2> QED  BY <1>2, <1>13, <2>1
<1>12. DeltaRead(parsed, passed)  BY <1>10, <1>11 DEF DeltaRead
<1> QED  BY <1>12 DEF parsed, passed

\* Reading values changes the readers and the entity, nothing else does.
LEMMA ReadersKept ==
  ASSUME NEW q \in Paths, NameField(q)
  PROVE  UNCHANGED <<latest, fields, decoded, skipped>>
BY DEF NameField

\* Both readers come through every delta.
THEOREM ReadersInvariant ==
  ASSUME CodesAreRead, FieldsAreFound
  PROVE  FieldsSpec => []ReadersInv
<1>1. FieldsInit => ReadersInv
  <2> SUFFICES ASSUME FieldsInit PROVE ReadersInv  OBVIOUS
  <2>1. decoded = [pos |-> 0, failed |-> FALSE] /\ skipped = decoded  BY DEF FieldsInit
  <2> QED  BY <2>1 DEF ReadersInv
<1>2. PathsInv /\ ReadersInv /\ [FieldsNext]_fieldsVars => ReadersInv'
  <2> SUFFICES ASSUME PathsInv, ReadersInv, [FieldsNext]_fieldsVars PROVE ReadersInv'  OBVIOUS
  <2>1. ASSUME NEW q \in Paths, NameField(q) PROVE ReadersInv'
    BY <2>1, ReadersKept DEF ReadersInv
  <2>2. ASSUME NEW bits \in Streams, ReadValues(bits) PROVE ReadersInv'
    <3> DEFINE parsed == parse(Serializer, fps, bits, deltas)
               passed == skip_entity_fields(Serializer, fps, bits)
    <3>1. /\ decoded' = [pos |-> parsed.r.pos, failed |-> parsed.failed]
          /\ skipped' = [pos |-> passed.r.pos, failed |-> passed.failed]
      BY <2>2 DEF ReadValues
    <3>2. DeltaRead(parsed, passed)  BY DeltaIsRead
    <3> HIDE DEF parsed, passed
    <3>3. parsed.failed = FALSE /\ passed.failed = FALSE /\ parsed.r \in Readers /\ passed.r = parsed.r
      BY <3>2 DEF DeltaRead, AllRead
    <3>4. parsed.r.pos \in Nat  BY <3>3 DEF Readers
    <3> QED  BY <3>1, <3>3, <3>4 DEF ReadersInv
  <2>3. CASE UNCHANGED fieldsVars
    BY <2>3 DEF ReadersInv, fieldsVars
  <2> QED  BY <2>1, <2>2, <2>3 DEF FieldsNext
<1>3. FieldsSpec => []PathsInv  BY PathsInvariant
<1> QED  BY <1>1, <1>2, <1>3, PTL DEF FieldsSpec

\* FieldsTypeOK: the path of the reader and all those it stores stay seven bytes with
\* the last component in use among them, and both readers count from zero.
THEOREM FieldsTypeCorrect ==
  ASSUME CodesAreRead, FieldsAreFound
  PROVE  FieldsSpec => []FieldsTypeOK
<1>1. PathsInv /\ ReadersInv => FieldsTypeOK
  <2> SUFFICES ASSUME PathsInv, ReadersInv PROVE FieldsTypeOK  OBVIOUS
  <2>1. fp \in FieldPathRecord /\ fps \in Seq(FieldPathRecord)  BY DEF PathsInv, Holds
  <2>2. \A k \in DOMAIN fps : fps[k] \in FieldPathRecord  BY <2>1, ElementOfSeq
  <2> QED  BY <2>1, <2>2 DEF FieldsTypeOK, ReadersInv
<1>2. FieldsSpec => []PathsInv  BY PathsInvariant
<1>3. FieldsSpec => []ReadersInv  BY ReadersInvariant
<1> QED  BY <1>1, <1>2, <1>3, PTL

\* SkipKeepsUp: a parser that passes over the deltas of an entity finds every field and
\* ends each delta at the bit where one that decodes it does, whatever the serializer
\* and the bits, if the serializer has the fields that are sent.
THEOREM SkipCorrect ==
  ASSUME CodesAreRead, FieldsAreFound
  PROVE  FieldsSpec => []SkipKeepsUp
<1>1. ReadersInv => SkipKeepsUp  BY DEF ReadersInv, SkipKeepsUp
<1>2. FieldsSpec => []ReadersInv  BY ReadersInvariant
<1> QED  BY <1>1, <1>2, PTL

------------------------------------------------------------------------------
(* The slots.  Where two paths part, so do the parts of their keys there:  *)
(* the keys have one length and agree up to the place, and the fields the  *)
(* paths go on to have different parts.                                    *)

\* The way down a path: what is found after each of its components.
Descent(g, p) ==
  /\ g[0] = [field |-> get_child(Serializer, p[1]), key |-> get_child(Serializer, p[1]).key]
  /\ \A i \in 1..Len(p) - 1 : g[i] = Below(g[i - 1], p[i + 1])
  /\ FieldAt(Serializer, p) = g[Len(p) - 1]

\* Every path leads down.
LEMMA Descends ==
  ASSUME NEW p \in Seq(Byte), Len(p) \in 1..7
  PROVE  \E g : Descent(g, p)
<1> DEFINE base == [field |-> get_child(Serializer, p[1]), key |-> get_child(Serializer, p[1]).key]
           n    == Len(p) - 1
<1>1. DOMAIN Tail(p) = 1..n /\ n \in Nat  BY TailIndexes
<1>2. FieldAt(Serializer, p) = BelowAll(base, Tail(p))  BY DEF FieldAt, BelowAll
<1>3. \A i \in 1..n : Tail(p)[i] = p[i + 1]
  <2>1. p # <<>>  OBVIOUS
  <2> QED  BY <2>1, HeadTailProperties
<1>4. n = Len(p) - 1  OBVIOUS
<1> HIDE DEF base, n
<1>5. PICK g : BelowLoop!Turns(g, base, Tail(p), n) /\ BelowAll(base, Tail(p)) = g[n]
  BY <1>1, BelowTurns
<1>6. Descent(g, p)
  BY <1>2, <1>3, <1>4, <1>5 DEF Descent, BelowLoop!Turns, base
<1> QED  BY <1>6

\* Paths that begin alike lead the same way.
LEMMA SameDescent ==
  ASSUME NEW p \in Seq(Byte), NEW q \in Seq(Byte), NEW g, NEW h, Descent(g, p), Descent(h, q),
         NEW m \in Nat, m <= Len(p), m <= Len(q), \A i \in 1..m : p[i] = q[i]
  PROVE  \A i \in Nat : i < m => g[i] = h[i]
<1> DEFINE S == {i \in Nat : i < m => g[i] = h[i]}
<1>1. 0 \in S
  <2> SUFFICES ASSUME 0 < m PROVE g[0] = h[0]  OBVIOUS
  <2>1. p[1] = q[1]  OBVIOUS
  <2> QED  BY <2>1 DEF Descent
<1>2. ASSUME NEW i \in Nat, i \in S PROVE i + 1 \in S
  <2> SUFFICES ASSUME i + 1 < m PROVE g[i + 1] = h[i + 1]  OBVIOUS
  <2>1. /\ i + 1 \in 1..Len(p) - 1 /\ i + 1 \in 1..Len(q) - 1
        /\ (i + 1) - 1 = i /\ g[i] = h[i] /\ (i + 1) + 1 \in 1..m
    BY <1>2
  <2>2. p[(i + 1) + 1] = q[(i + 1) + 1]  BY <2>1
  <2>3. g[i + 1] = Below(g[i], p[(i + 1) + 1])  BY <2>1 DEF Descent
  <2>4. h[i + 1] = Below(h[i], q[(i + 1) + 1])  BY <2>1 DEF Descent
  <2> QED  BY <2>1, <2>2, <2>3, <2>4
<1> HIDE DEF S
<1>3. \A i \in Nat : i \in S  BY <1>1, <1>2, BelowLoop!NatSetInduction
<1> QED  BY <1>3 DEF S

\* What the key goes on with at a step down.
Turning(g, p, i) == ElementPart(g[i - 1].field, g[i].field, p[i + 1])

\* A key is that of the first field and one part for each step from there.
KeyAlong(key, base, g, p, n) ==
  /\ Len(key) = Len(base) + n
  /\ \A j \in 1..Len(base) : key[j] = base[j]
  /\ \A i \in 1..n : key[Len(base) + i] = Turning(g, p, i)

\* A key with one more part.
LEMMA LongerKey ==
  ASSUME NEW U, NEW k \in Seq(U), NEW e \in U, NEW b \in Nat, NEW i \in Nat, Len(k) = b + i
  PROVE  /\ Append(k, e) \in Seq(U) /\ Len(Append(k, e)) = b + (i + 1)
         /\ \A j \in 1..b + i : Append(k, e)[j] = k[j]
         /\ Append(k, e)[b + (i + 1)] = e
<1>1. /\ Append(k, e) \in Seq(U) /\ Len(Append(k, e)) = Len(k) + 1
      /\ \A j \in 1..Len(k) : Append(k, e)[j] = k[j]
      /\ Append(k, e)[Len(k) + 1] = e
  BY AppendProperties
<1>2. Len(k) + 1 = b + (i + 1)  OBVIOUS
<1> QED  BY <1>1, <1>2

\* One step further down.
LEMMA StepAlong ==
  ASSUME NEW U, NEW k \in Seq(U), NEW base, NEW g, NEW p, NEW i \in Nat, Len(base) \in Nat,
         KeyAlong(k, base, g, p, i), Turning(g, p, i + 1) \in U
  PROVE  LET longer == Append(k, Turning(g, p, i + 1))
         IN longer \in Seq(U) /\ KeyAlong(longer, base, g, p, i + 1)
<1> DEFINE b    == Len(base)
           next == Turning(g, p, i + 1)
           longer == Append(k, next)
<1>1. Len(k) = b + i /\ b \in Nat  BY DEF KeyAlong
<1>2. next \in U  OBVIOUS
<1> HIDE DEF next, b
<1>3. /\ longer \in Seq(U) /\ Len(longer) = b + (i + 1)
      /\ \A j \in 1..b + i : longer[j] = k[j]
      /\ longer[b + (i + 1)] = next
  BY <1>1, <1>2, LongerKey
<1> HIDE DEF longer
<1>4. ASSUME NEW j \in 1..b PROVE longer[j] = base[j]
  <2>1. k[j] = base[j]  BY DEF KeyAlong, b
  <2>2. j \in 1..b + i  BY <1>1
  <2> QED  BY <1>3, <2>1, <2>2
<1>5. ASSUME NEW n \in 1..i + 1 PROVE longer[b + n] = Turning(g, p, n)
  <2>1. CASE n = i + 1
    BY <1>3, <2>1 DEF next
  <2>2. CASE n # i + 1
    <3>1. n \in 1..i /\ b + n \in 1..b + i  BY <1>1, <2>2
    <3>2. k[b + n] = Turning(g, p, n)  BY <3>1 DEF KeyAlong, b
    <3> QED  BY <1>3, <3>1, <3>2
  <2> QED  BY <2>1, <2>2
<1>6. KeyAlong(longer, base, g, p, i + 1)  BY <1>3, <1>4, <1>5 DEF KeyAlong, b
<1> QED  BY <1>3, <1>6 DEF longer, next

LEMMA KeyIsAlong ==
  ASSUME NEW p \in Seq(Byte), Len(p) \in 1..7, NEW g, Descent(g, p),
         NEW base, base = get_child(Serializer, p[1]).key, base \in Seq(Parts)
  PROVE  KeyAlong(KeyOf(p), base, g, p, Len(p) - 1)
<1> DEFINE n == Len(p) - 1
           U == Parts \cup {Turning(g, p, i) : i \in 1..n}
           S == {i \in Nat : i <= n => g[i].key \in Seq(U) /\ KeyAlong(g[i].key, base, g, p, i)}
<1>1. n \in Nat /\ g[n] = FieldAt(Serializer, p) /\ base \in Seq(U) /\ Len(base) \in Nat
  <2>1. Len(p) \in Nat  OBVIOUS
  <2>2. Parts \subseteq U  OBVIOUS
  <2>3. base \in Seq(U)
    <3>1. \A j \in 1..Len(base) : base[j] \in Parts  BY ElementOfSeq
    <3>2. base = [j \in 1..Len(base) |-> base[j]] /\ Len(base) \in Nat  OBVIOUS
    <3> HIDE DEF U
    <3> QED  BY <2>2, <3>1, <3>2
  <2> QED  BY <2>1, <2>3 DEF Descent
<1>2. \A i \in 1..n : Turning(g, p, i) \in U  OBVIOUS
<1>3. \A i \in 1..n : g[i].key = Append(g[i - 1].key, Turning(g, p, i))
  <2>1. ASSUME NEW i \in 1..n PROVE g[i].key = Append(g[i - 1].key, Turning(g, p, i))
    <3>1. g[i] = Below(g[i - 1], p[i + 1])  BY DEF Descent
    <3> QED  BY <3>1 DEF Below, Turning
  <2> QED  BY <2>1
<1> HIDE DEF U
<1>4. 0 \in S
  <2>1. g[0].key = base  BY DEF Descent
  <2> QED  BY <1>1, <2>1 DEF KeyAlong
<1>5. ASSUME NEW i \in Nat, i \in S PROVE i + 1 \in S
  <2> SUFFICES ASSUME i + 1 <= n
               PROVE  g[i + 1].key \in Seq(U) /\ KeyAlong(g[i + 1].key, base, g, p, i + 1)
    OBVIOUS
  <2>1. /\ i + 1 \in 1..n /\ (i + 1) - 1 = i
        /\ g[i].key \in Seq(U) /\ KeyAlong(g[i].key, base, g, p, i)
    BY <1>1, <1>5
  <2>2. /\ g[i + 1].key = Append(g[i].key, Turning(g, p, i + 1))
        /\ Turning(g, p, i + 1) \in U
    BY <1>2, <1>3, <2>1
  <2> QED  BY <1>1, <2>1, <2>2, StepAlong
<1> HIDE DEF S
<1>6. n \in S  BY <1>1, <1>4, <1>5, BelowLoop!NatSetInduction
<1>7. KeyAlong(g[n].key, base, g, p, n)  BY <1>1, <1>6 DEF S
<1> QED  BY <1>1, <1>7 DEF KeyOf


\* The part of a key where two paths part tells them apart.
LEMMA StepsApart ==
  ASSUME NamesTellApart, NEW p \in Paths, NEW q \in Paths, NEW g, NEW h, Descent(g, p), Descent(h, q),
         NEW m \in Nat \ {0}, m < Len(p), m < Len(q), \A i \in 1..m : p[i] = q[i],
         Turning(g, p, m) = Turning(h, q, m)
  PROVE  p[m + 1] = q[m + 1]
<1> SUFFICES ASSUME p[m + 1] # q[m + 1] PROVE FALSE  OBVIOUS
<1>1. p \in Seq(Byte) /\ q \in Seq(Byte) /\ Len(p) \in 1..7 /\ Len(q) \in 1..7  BY SentPaths
<1> DEFINE o     == SubSeq(p, 1, m)
           field == g[m - 1].field
           i     == p[m + 1]
           j     == q[m + 1]
<1>2. /\ o \in Seq(Byte) /\ Len(o) = m /\ Len(o) \in 1..7
      /\ \A k \in 1..m : o[k] = p[k] /\ o[k] = q[k]
  <2>1. o \in Seq(Byte) /\ Len(o) = m  BY <1>1
  <2>2. \A k \in 1..m : o[k] = p[k]  BY <1>1
  <2>3. m \in 1..7  BY <1>1
  <2> HIDE DEF o
  <2> QED  BY <2>1, <2>2, <2>3
<1>3. SubSeq(p, 1, m) = SubSeq(q, 1, m)
  <2>1. /\ SubSeq(q, 1, m) \in Seq(Byte) /\ Len(SubSeq(q, 1, m)) = m
        /\ \A k \in 1..m : SubSeq(q, 1, m)[k] = q[k]
    BY <1>1
  <2> DEFINE r == SubSeq(q, 1, m)
  <2> HIDE DEF o, r
  <2>2. o = [k \in 1..m |-> o[k]] /\ r = [k \in 1..m |-> r[k]]  BY <1>2, <2>1 DEF r
  <2>3. \A k \in 1..m : o[k] = r[k]  BY <1>2, <2>1 DEF r
  <2> QED  BY <2>2, <2>3 DEF o, r
<1> HIDE DEF o
<1>4. PICK f : Descent(f, o)  BY <1>2, Descends
<1>5. f[m - 1] = g[m - 1] /\ g[m - 1] = h[m - 1]
  <2>1. m - 1 \in Nat /\ m - 1 < m /\ m \in Nat  OBVIOUS
  <2>2. \A k \in Nat : k < m => f[k] = g[k]
    <3>1. m <= Len(o) /\ m <= Len(p)  BY <1>1, <1>2
    <3> QED  BY <1>1, <1>2, <1>4, <2>1, <3>1, SameDescent
  <2>3. \A k \in Nat : k < m => g[k] = h[k]
    <3>1. m <= Len(p) /\ m <= Len(q)  BY <1>1
    <3> QED  BY <1>1, <2>1, <3>1, SameDescent
  <2> QED  BY <2>1, <2>2, <2>3
<1>6. FieldAt(Serializer, SubSeq(p, 1, m)).field = field
  <2>1. FieldAt(Serializer, o) = f[m - 1]  BY <1>2, <1>4 DEF Descent
  <2> QED  BY <1>5, <2>1 DEF o
<1>7. g[m] = Below(g[m - 1], i) /\ h[m] = Below(g[m - 1], j)
  <2>1. m \in 1..Len(p) - 1 /\ m \in 1..Len(q) - 1  BY <1>1
  <2> QED  BY <1>5, <2>1 DEF Descent
<1>8. /\ Turning(g, p, m) = ElementPart(field, g[m].field, i)
      /\ Turning(h, q, m) = ElementPart(field, h[m].field, j)
  BY <1>5 DEF Turning
<1>9. m \in 1..6  BY <1>1
<1> HIDE DEF field, i, j
<1>10. CASE is_dynamic_array(field) \/ is_fixed_array(field)
  <2>1. IndexPart(i) = IndexPart(j)  BY <1>8, <1>10 DEF ElementPart
  <2>2. <<i>> = <<j>>  BY <2>1 DEF IndexPart, BytesPart
  <2>3. i = j  BY <2>2
  <2> QED  BY <2>3 DEF i, j
<1>11. CASE ~is_dynamic_array(field) /\ ~is_fixed_array(field)
  <2> DEFINE c == get_child(field.field_serializer, i)
             d == get_child(field.field_serializer, j)
  <2>1. g[m].field = c /\ h[m].field = d  BY <1>7, <1>11 DEF Below, field
  <2>2. NamePart(c.var_name) = NamePart(d.var_name)
    <3> HIDE DEF c, d
    <3> QED  BY <1>8, <1>11, <2>1 DEF ElementPart
  <2>3. c.var_name = d.var_name
    <3> HIDE DEF c, d
    <3> QED  BY <2>2 DEF NamePart
  <2>4. c.var_name # d.var_name
    BY <1>3, <1>6, <1>9, <1>11 DEF NamesTellApart, i, j
  <2> QED  BY <2>3, <2>4
<1> QED  BY <1>10, <1>11

\* No two fields share a slot.
LEMMA KeysApart ==
  ASSUME NamesTellApart, NEW p \in Paths, NEW q \in Paths, KeyOf(p) = KeyOf(q)
  PROVE  p = q
<1>1. p \in Seq(Byte) /\ q \in Seq(Byte) /\ Len(p) \in 1..7 /\ Len(q) \in 1..7  BY SentPaths
<1>2. PICK g : Descent(g, p)  BY <1>1, Descends
<1>3. PICK h : Descent(h, q)  BY <1>1, Descends
<1> DEFINE b == get_child(Serializer, p[1]).key
           c == get_child(Serializer, q[1]).key
           n == Len(p)
<1>4. b \in Seq(Parts) /\ c \in Seq(Parts)  BY DEF NamesTellApart
<1>5. KeyAlong(KeyOf(p), b, g, p, Len(p) - 1) /\ KeyAlong(KeyOf(p), c, h, q, Len(q) - 1)
  <2>1. KeyAlong(KeyOf(p), b, g, p, Len(p) - 1)  BY <1>1, <1>2, <1>4, KeyIsAlong
  <2>2. KeyAlong(KeyOf(q), c, h, q, Len(q) - 1)  BY <1>1, <1>3, <1>4, KeyIsAlong
  <2> QED  BY <2>1, <2>2
<1>6. p[1] = q[1]
  <2> SUFFICES ASSUME p[1] # q[1] PROVE FALSE  OBVIOUS
  <2>1. \E j \in DOMAIN b \cap DOMAIN c : b[j] # c[j]  BY DEF NamesTellApart
  <2> HIDE DEF b, c
  <2>2. PICK j \in DOMAIN b \cap DOMAIN c : b[j] # c[j]  BY <2>1
  <2>3. j \in 1..Len(b) /\ j \in 1..Len(c)  BY <1>4
  <2>4. KeyOf(p)[j] = b[j] /\ KeyOf(p)[j] = c[j]  BY <1>5, <2>3 DEF KeyAlong
  <2> QED  BY <2>2, <2>4
<1>7. b = c  BY <1>6
<1>8. Len(b) \in Nat  BY <1>4
<1> HIDE DEF b, c
<1>9. Len(q) = n /\ n \in 1..7
  <2>1. Len(b) + (Len(p) - 1) = Len(b) + (Len(q) - 1)  BY <1>5, <1>7 DEF KeyAlong
  <2> QED  BY <1>1, <1>8, <2>1
<1>10. ASSUME NEW i \in 1..n - 1 PROVE Turning(g, p, i) = Turning(h, q, i)
  <2>1. i \in 1..Len(p) - 1 /\ i \in 1..Len(q) - 1  BY <1>9
  <2>2. KeyOf(p)[Len(b) + i] = Turning(g, p, i) /\ KeyOf(p)[Len(b) + i] = Turning(h, q, i)
    BY <1>5, <1>7, <2>1 DEF KeyAlong
  <2> QED  BY <2>2
<1> DEFINE S == {m \in Nat : m < n => \A i \in 1..m + 1 : p[i] = q[i]}
<1>11. 0 \in S
  <2>1. \A i \in 1..0 + 1 : i = 1  OBVIOUS
  <2> QED  BY <1>6, <2>1
<1>12. ASSUME NEW m \in Nat, m \in S PROVE m + 1 \in S
  <2> SUFFICES ASSUME m + 1 < n PROVE \A i \in 1..(m + 1) + 1 : p[i] = q[i]  OBVIOUS
  <2>1. /\ m + 1 \in Nat \ {0} /\ m + 1 < Len(p) /\ m + 1 < Len(q) /\ m + 1 \in 1..n - 1
        /\ \A i \in 1..m + 1 : p[i] = q[i]
    BY <1>9, <1>12
  <2>2. Turning(g, p, m + 1) = Turning(h, q, m + 1)  BY <1>10, <2>1
  <2>3. p[(m + 1) + 1] = q[(m + 1) + 1]  BY <1>2, <1>3, <2>1, <2>2, StepsApart
  <2>4. \A i \in 1..(m + 1) + 1 : i = (m + 1) + 1 \/ i \in 1..m + 1  OBVIOUS
  <2> QED  BY <2>1, <2>3, <2>4
<1> HIDE DEF S
<1>13. n - 1 \in S /\ n - 1 < n /\ (n - 1) + 1 = n
  <2>1. n - 1 \in Nat /\ n - 1 < n /\ (n - 1) + 1 = n  BY <1>9
  <2> QED  BY <1>11, <1>12, <2>1, BelowLoop!NatSetInduction
<1>14. \A i \in 1..n : p[i] = q[i]
  <2>1. \A i \in 1..(n - 1) + 1 : p[i] = q[i]  BY <1>13 DEF S
  <2> QED  BY <1>13, <2>1
<1>15. p = [i \in 1..n |-> p[i]] /\ q = [i \in 1..n |-> q[i]]
  <2>1. p = [i \in 1..Len(p) |-> p[i]] /\ q = [i \in 1..Len(q) |-> q[i]]  BY <1>1
  <2> QED  BY <1>9, <2>1
<1> HIDE DEF n
<1> QED  BY <1>14, <1>15

\* The entity has what the game has sent, each field in its slot.
THEOREM SlotsInvariant ==
  ASSUME CodesAreRead, FieldsAreFound, NamesTellApart
  PROVE  FieldsSpec => []SlotsInv
<1>1. FieldsInit => SlotsInv
  <2> SUFFICES ASSUME FieldsInit PROVE SlotsInv  OBVIOUS
  <2>1. latest = [p \in {} |-> 0] /\ fields = [key \in {} |-> 0]  BY DEF FieldsInit
  <2>2. DOMAIN latest = {} /\ DOMAIN fields = {}  BY <2>1
  <2>3. {KeyOf(p) : p \in DOMAIN latest} = {}  BY <2>2
  <2> QED  BY <2>2, <2>3 DEF SlotsInv
<1>2. PathsInv /\ SlotsInv /\ [FieldsNext]_fieldsVars => SlotsInv'
  <2> SUFFICES ASSUME PathsInv, SlotsInv, [FieldsNext]_fieldsVars PROVE SlotsInv'  OBVIOUS
  <2>1. ASSUME NEW q \in Paths, NameField(q) PROVE SlotsInv'
    BY <2>1, ReadersKept DEF SlotsInv
  <2>2. ASSUME NEW bits \in Streams, ReadValues(bits) PROVE SlotsInv'
    <3> DEFINE parsed == parse(Serializer, fps, bits, deltas)
               passed == skip_entity_fields(Serializer, fps, bits)
               now    == {sent[k] : k \in DOMAIN sent}
               keys   == {KeyOf(sent[k]) : k \in DOMAIN sent}
    <3>1. fields' = parsed.fields /\ latest' = Put(latest, now, deltas)  BY <2>2 DEF ReadValues
    <3>2. AllRead(parsed, passed, fields, deltas, keys)  BY DeltaIsRead DEF DeltaRead
    <3>3. now \subseteq Paths
      <4>1. sent \in Seq(Paths)  BY DEF PathsInv
      <4> QED  BY <4>1, ElementOfSeq
    <3>4. keys = {KeyOf(p) : p \in now}  OBVIOUS
    <3> HIDE DEF parsed, passed, now, keys
    <3>5. \A p, q \in Paths : KeyOf(p) = KeyOf(q) => p = q  BY KeysApart
    <3>6. DOMAIN latest' = DOMAIN latest \cup now  BY <3>1 DEF Put
    <3>7. \A p \in DOMAIN latest' : latest'[p] = IF p \in now THEN deltas ELSE latest[p]  BY <3>1 DEF Put
    <3>8. /\ DOMAIN latest \subseteq Paths
          /\ DOMAIN fields = {KeyOf(p) : p \in DOMAIN latest}
          /\ \A p \in DOMAIN latest : fields[KeyOf(p)] = latest[p]
      BY DEF SlotsInv
    <3>9. /\ DOMAIN fields' = DOMAIN fields \cup keys
          /\ \A key \in DOMAIN fields' : fields'[key] = IF key \in keys THEN deltas ELSE fields[key]
      BY <3>1, <3>2 DEF AllRead
    <3>10. DOMAIN latest' \subseteq Paths  BY <3>3, <3>6, <3>8
    <3>11. DOMAIN fields' = {KeyOf(p) : p \in DOMAIN latest'}  BY <3>4, <3>6, <3>8, <3>9
    <3>12. ASSUME NEW p \in DOMAIN latest' PROVE fields'[KeyOf(p)] = latest'[p]
      <4>1. KeyOf(p) \in DOMAIN fields' /\ p \in Paths  BY <3>10, <3>11
      <4>2. CASE p \in now
        <5>1. KeyOf(p) \in keys  BY <3>4, <4>2
        <5> QED  BY <3>7, <3>9, <4>1, <4>2, <5>1
      <4>3. CASE p \notin now
        <5>1. p \in DOMAIN latest  BY <3>6, <4>3
        <5>2. KeyOf(p) \notin keys  BY <3>3, <3>4, <3>5, <4>1, <4>3
        <5>3. fields'[KeyOf(p)] = fields[KeyOf(p)]  BY <3>9, <4>1, <5>2
        <5>4. latest'[p] = latest[p]  BY <3>7, <4>3
        <5> QED  BY <3>8, <5>1, <5>3, <5>4
      <4> QED  BY <4>2, <4>3
    <3> QED  BY <3>10, <3>11, <3>12 DEF SlotsInv
  <2>3. CASE UNCHANGED fieldsVars
    BY <2>3 DEF SlotsInv, fieldsVars, senderVars
  <2> QED  BY <2>1, <2>2, <2>3 DEF FieldsNext
<1>3. FieldsSpec => []PathsInv  BY PathsInvariant
<1> QED  BY <1>1, <1>2, <1>3, PTL DEF FieldsSpec

\* SlotsAreKept: whatever deltas were sent, the entity has the last value of each field
\* in them, in a slot of its own, however deep the serializer and however long its
\* arrays: Entity::parse (entities.rs:241) gives no two paths one key if the fields
\* beside each other in a struct have different names.
THEOREM SlotsCorrect ==
  ASSUME CodesAreRead, FieldsAreFound, NamesTellApart
  PROVE  FieldsSpec => []SlotsAreKept
<1>1. SlotsInv => SlotsAreKept
  <2> SUFFICES ASSUME SlotsInv PROVE SlotsAreKept  OBVIOUS
  <2>1. \A p, q \in Paths : KeyOf(p) = KeyOf(q) => p = q  BY KeysApart
  <2> QED  BY <2>1 DEF SlotsInv, SlotsAreKept
<1>2. FieldsSpec => []SlotsInv  BY SlotsInvariant
<1> QED  BY <1>1, <1>2, PTL
==============================================================================
