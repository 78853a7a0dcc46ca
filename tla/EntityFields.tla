----------------------------- MODULE EntityFields -----------------------------
(***************************************************************************)
(* The entity deltas of one entity, from read_field_paths over the         *)
(* serializers to the decoders, twice: by Entity::parse in a parser that   *)
(* tracks its class and by skip_entity_fields in one that does not.        *)
(*                                                                         *)
(* The sender is not part of the repository.  It names the fields of a     *)
(* delta one after the other, each by some operation that leads from the   *)
(* path before it to this one, and then sends their values in that order.  *)
(***************************************************************************)
EXTENDS FieldPath, SerializerFields, FiniteSets

CONSTANTS
  Serializer,       \* the serializer of the entity's class, its fields
  GameName(_),      \* what the game calls the field of a path, a sequence of texts
  Paths,            \* paths of fields that it has
  Streams,          \* what bits may follow the paths of a delta
  MaxDeltas,
  MaxFields         \* fields named in all deltas together

ASSUME FieldsAssumption ==
  /\ \A p \in Paths : p \in Seq(0..255) /\ Len(p) \in 1..7
  /\ \A bits \in Streams : bits \in Seq(BOOLEAN) /\ Len(bits) # 0
  /\ MaxDeltas \in Nat /\ MaxFields \in Nat

VARIABLES
  latest,    \* for each field the sender has sent, the delta that did it last
  path,      \* the sender's last path
  sent,      \* the paths of the delta so far
  fp, fps,   \* read_field_paths: the path, and those it has stored
  fields,    \* Entity.fields
  decoded,   \* the reader of the tracking parser after the last delta
  skipped,   \* the reader of the other one
  deltas     \* deltas that have been read

senderVars == <<latest, path, sent, deltas>>
fieldsVars == <<senderVars, fp, fps, fields, decoded, skipped>>

------------------------------------------------------------------------------
(* The sender (external).                                                  *)

FirstPath == <<-1>>

Fits(n, source) == n - source.add \in source.min..source.max

\* The numbers with which an operation leads from p to q, if it can.
Encodings(n, p, q) ==
  LET op      == FIELDOP_DESCRIPTORS[n]
      pops    == CASE op.pops = "none" -> 0
                   [] op.pops = "one"  -> 1
                   [] op.pops = "all"  -> Len(p) - 1
                   [] op.pops = "n"    -> Len(p) - Len(q)
      kept    == Len(p) - pops
      pushes  == IF op.pushes = Many THEN Len(q) - kept ELSE op.pushes
      changed == {i \in 1..kept : p[i] # q[i]}
      reaches == CASE op.at = "last"        -> changed \subseteq {kept} /\ Fits(q[kept] - p[kept], op.by)
                   [] op.at = "any"         -> \A i \in changed : Fits(q[i] - p[i], op.by)
                   [] op.at = "penultimate" -> changed = {kept - 1} /\ q[kept - 1] - p[kept - 1] = 1
                   [] OTHER                 -> FALSE
  IN IF /\ pops >= 0 /\ kept >= 1 /\ pushes >= 0 /\ kept + pushes = Len(q)
        /\ reaches
        /\ \A i \in kept + 1..Len(q) : Fits(q[i], op.push)
     THEN {[op   |-> n, pop |-> pops, inc |-> q[kept] - p[kept] - op.by.add,
            any  |-> [i \in {c - 1 : c \in changed} |-> q[i + 1] - p[i + 1] - op.by.add],
            push |-> [k \in 1..pushes |-> q[kept + k] - op.push.add]]}
     ELSE {}

AllEncodings ==
  [pq \in (Paths \cup {FirstPath}) \X Paths |->
     UNION {Encodings(n, pq[1], pq[2]) : n \in FieldOps}]

\* The code of an operation: the way down to it in the hierarchy.
CodesIn(h) ==
  LET parent[n \in 1..h.leaves + Len(h.children) - 1] ==
        CHOOSE m \in h.leaves + 1..h.leaves + Len(h.children) :
          n \in {Children(h, m).left, Children(h, m).right}
      code[n \in 1..h.leaves + Len(h.children)] ==
        IF n = h.root THEN <<>>
        ELSE Append(code[parent[n]], n = Children(h, parent[n]).right)
  IN [n \in FieldOps |-> code[n]]

Codes == CodesIn(build_fieldop_hierarchy)

------------------------------------------------------------------------------
(* The two readers.                                                        *)

\* Mutant of ElementPart: every element of a fixed array has the name of the array.
ElementPartByName(field, child, i) ==
  IF is_dynamic_array(field) THEN IndexPart(i) ELSE NamePart(child.var_name)

\* Mutant of ElementPart: what is below a field is told by its position.
ElementPartByPosition(field, child, i) == IndexPart(i)

\* What the key of a field goes on with for what is below it.
ElementPart(field, child, i) ==
  IF is_dynamic_array(field) \/ is_fixed_array(field) THEN IndexPart(i) ELSE NamePart(child.var_name)

\* A step down a path in Entity::parse: all elements of a dynamic array are its
\* first child.
Below(s, i) ==
  LET child == get_child(s.field.field_serializer, IF is_dynamic_array(s.field) THEN 0 ELSE i)
  IN [field |-> child, key |-> Append(s.key, ElementPart(s.field, child, i))]

FieldAt(serializer, p) ==
  LET first == get_child(serializer, p[1])
  IN FoldLeft(Below, [field |-> first, key |-> first.key], Tail(p))

\* f with the value at some keys.
Put(f, keys, value) == [k \in DOMAIN f \cup keys |-> IF k \in keys THEN value ELSE f[k]]

\* One turn of Entity::parse: the field of a path is decoded and stored.
DecodeField(s, at) ==
  IF s.failed \/ at.field.metadata.decoder = InvalidDecoder THEN [s EXCEPT !.failed = TRUE]
  ELSE [s EXCEPT !.r = decode(at.field.metadata.decoder, @), !.fields = Put(@, {at.key}, s.value)]

parse(serializer, paths, bits, value) ==
  FoldLeft(DecodeField, [r |-> NewReader(bits), fields |-> fields, value |-> value, failed |-> FALSE],
           [k \in DOMAIN paths |-> FieldAt(serializer, Components(paths[k]))])

\* Mutant of SkippedBelow: elements are looked up by their index.
SkippedByIndex(field, i) == get_child(field.field_serializer, i)

\* The same in skip_entity_fields, with a loop of its own.
SkippedBelow(field, i) ==
  get_child(field.field_serializer, IF is_dynamic_array(field) THEN 0 ELSE i)

SkippedFieldAt(serializer, p) == FoldLeft(SkippedBelow, get_child(serializer, p[1]), Tail(p))

SkipField(s, field) ==
  IF s.failed \/ field.metadata.decoder = InvalidDecoder THEN [s EXCEPT !.failed = TRUE]
  ELSE [s EXCEPT !.r = SkipDecoder(field.metadata.decoder, @).r]

skip_entity_fields(serializer, paths, bits) ==
  FoldLeft(SkipField, [r |-> NewReader(bits), failed |-> FALSE],
           [k \in DOMAIN paths |-> SkippedFieldAt(serializer, Components(paths[k]))])

------------------------------------------------------------------------------
FieldsInit ==
  /\ latest = [p \in {} |-> 0] /\ path = FirstPath /\ sent = <<>> /\ deltas = 0
  /\ fp = NewFieldPath /\ fps = <<>>
  /\ fields = [key \in {} |-> 0]
  /\ decoded = [pos |-> 0, failed |-> FALSE] /\ skipped = decoded

\* One turn of read_field_paths that stores a path.
NameField(q) ==
  /\ deltas < MaxDeltas /\ Cardinality(DOMAIN latest) + Len(sent) < MaxFields
  /\ \A k \in DOMAIN sent : sent[k] # q
  /\ \E e \in AllEncodings[<<path, q>>] :
       LET next == ApplyFieldOp(fp, ReadFieldOp(Codes[e.op]).at, e)
       IN fp' = next /\ fps' = Append(fps, next)
  /\ path' = q /\ sent' = Append(sent, q)
  /\ UNCHANGED <<latest, deltas, fields, decoded, skipped>>

\* The turn that reads field_path_encode_finish, and the values.
ReadValues(bits) ==
  /\ sent # <<>>
  /\ ApplyFieldOp(fp, ReadFieldOp(Codes[field_path_encode_finish]).at,
                  [pop |-> 0, inc |-> 0, any |-> <<>>, push |-> <<>>]).finished
  /\ LET parsed == parse(Serializer, fps, bits, deltas)
         passed == skip_entity_fields(Serializer, fps, bits)
     IN /\ fields' = parsed.fields
        /\ decoded' = [pos |-> parsed.r.pos, failed |-> parsed.failed]
        /\ skipped' = [pos |-> passed.r.pos, failed |-> passed.failed]
  /\ latest' = Put(latest, {sent[k] : k \in DOMAIN sent}, deltas)
  /\ deltas' = deltas + 1
  /\ path' = FirstPath /\ sent' = <<>> /\ fp' = NewFieldPath /\ fps' = <<>>

FieldsNext ==
  \/ \E q \in Paths : NameField(q)
  \/ \E bits \in Streams : ReadValues(bits)

FieldsSpec == FieldsInit /\ [][FieldsNext]_fieldsVars

------------------------------------------------------------------------------
(* What reading a delta promises.                                          *)

Byte == 0..255
FieldPathRecord == [data : [0..6 -> Byte], last : 0..6, finished : BOOLEAN]

\* Paths are seven bytes with the last one in use among them ("`data: [u8; 7]`, `last < 7`"), and readers count from zero.
FieldsTypeOK ==
  /\ fp \in FieldPathRecord
  /\ \A k \in DOMAIN fps : fps[k] \in FieldPathRecord
  /\ {decoded.failed, skipped.failed} \subseteq BOOLEAN
  /\ {decoded.pos, skipped.pos} \subseteq Nat

\* The paths that read_field_paths stores are those the sender named, one for each and in order, whatever operations it chose: the tree and the byte arithmetic lose none.
PathsAreSent ==
  /\ Len(fps) = Len(sent)
  /\ \A k \in DOMAIN sent : Components(fps[k]) = sent[k]

\* A parser that passes over a delta finds every field and is where one that decoded it is, so both read the next entity from the same bit.
SkipKeepsUp ==
  /\ ~decoded.failed /\ ~skipped.failed
  /\ skipped.pos = decoded.pos

\* The slot of a field: what Entity::parse finds at the end of its path.
KeyOf(p) == FieldAt(Serializer, p).key

\* The entity has the last value of each field that was sent, in a slot that it shares
\* with no other: elements of an array, members of a struct and of the structs around
\* it do not fall together.
SlotsAreKept ==
  /\ DOMAIN fields = {KeyOf(p) : p \in DOMAIN latest}
  /\ \A p, q \in DOMAIN latest : KeyOf(p) = KeyOf(q) => p = q
  /\ \A p \in DOMAIN latest : fields[KeyOf(p)] = latest[p]

\* A name's key, which is fkey_from_path's but for the indexes in it: those are hashed
\* as the numbers they are, not as texts.
KeyOfName(name) ==
  [k \in DOMAIN name |-> IF name[k].number = -1 THEN hash_bytes(name[k]) ELSE IndexPart(name[k].number)]

\* A field that was sent is under the key of its name in the game: one without indexes
\* is what fkey_from_path of the name finds, and below an array the elements are told
\* by their index and the members of a struct by their name.
EntityIsSent ==
  \A p \in DOMAIN latest :
    LET key == KeyOfName(GameName(p))
    IN key \in DOMAIN fields /\ fields[key] = latest[p]

\* "field_key construction logic needs to match what `fkey_from_path` does"
\* (entities.rs:240): a field is found with the path of its name, indexes included.  It
\* is not: the text "0" has the key of element 48, and no text that of element 0.
FoundByPath ==
  \A p \in DOMAIN latest :
    LET key == fkey_from_path(GameName(p))
    IN key \in DOMAIN fields /\ fields[key] = latest[p]

------------------------------------------------------------------------------
(* What the theorems take of the tree and of the serializer.               *)

\* The reader comes down the tree to the operation whose code it is given.
CodesAreRead == \A n \in FieldOps : ReadFieldOp(Codes[n]) = [leaf |-> TRUE, at |-> n]

\* The decoders there are, but InvalidDecoder.
F32Decoders ==
  {Decoder(kind) : kind \in {"F32SimulationTime", "F32Coord", "F32Normal", "F32NoScale"}}
  \cup [kind : {"QuantizedFloat"}, bit_count : Nat,
        encode_flags : SUBSET {QFE_ROUNDDOWN, QFE_ROUNDUP, QFE_ENCODE_ZERO_EXACTLY}]

Decoders ==
  {Decoder(kind) : kind \in {"I64", "U64", "U64Fixed64", "Bool", "String", "Vector3Normal",
                             "QAngleNoBitCount", "QAnglePrecise"}}
  \cup [kind : {"QAnglePitchYaw", "QAngleBitCount"}, bit_count : Nat]
  \cup [kind : {"Vector"}, components : 2..4, decoder : F32Decoders]
  \cup F32Decoders

\* The sender names fields that there are.
FieldsAreFound == \A p \in Paths : FieldAt(Serializer, p).field.metadata.decoder \in Decoders

\* The fields that paths go on to are told apart where they part: at the top by a part
\* of their keys, below a field that is no array by their names.
Parts == [name : STRING, bytes : Seq(0..255)]
NamesTellApart ==
  /\ \A p \in Paths : get_child(Serializer, p[1]).key \in Seq(Parts)
  /\ \A p, q \in Paths : p[1] # q[1] =>
       LET k == get_child(Serializer, p[1]).key
           l == get_child(Serializer, q[1]).key
       IN \E j \in DOMAIN k \cap DOMAIN l : k[j] # l[j]
  /\ \A p, q \in Paths : \A m \in 1..6 :
       LET field == FieldAt(Serializer, SubSeq(p, 1, m)).field
       IN /\ m < Len(p) /\ m < Len(q) /\ SubSeq(p, 1, m) = SubSeq(q, 1, m) /\ p[m + 1] # q[m + 1]
          /\ ~is_dynamic_array(field) /\ ~is_fixed_array(field)
          => get_child(field.field_serializer, p[m + 1]).var_name
               # get_child(field.field_serializer, q[m + 1]).var_name
==============================================================================
