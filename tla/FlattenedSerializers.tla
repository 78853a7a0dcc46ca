------------------------- MODULE FlattenedSerializers -------------------------
(***************************************************************************)
(* haste_core::flattenedserializers and fieldmetadata: the serializers of  *)
(* a recording, built once from its send tables.  A serializer is the      *)
(* sequence of its fields.                                                 *)
(***************************************************************************)
EXTENDS SerializerFields, VarType, SequencesExt, TLC

CONSTANT SendTables   \* CsvcMsgFlattenedSerializer: [fields, serializers]

------------------------------------------------------------------------------
(* FieldMetadata.                                                          *)

PointerTypes ==
  {"CBodyComponentDCGBaseAnimating", "CBodyComponentBaseAnimating",
   "CBodyComponentBaseAnimatingOverlay", "CBodyComponentBaseModelEntity", "CBodyComponent",
   "CBodyComponentSkeletonInstance", "CBodyComponentPoint", "CLightComponent",
   "CRenderComponent", "C_BodyComponentBaseAnimating", "C_BodyComponentBaseAnimatingOverlay",
   "CPhysicsComponent"}

visit_ident(ident, field) ==
  CASE ident \in {"int8", "int16", "int32", "int64"} -> Metadata(NotSpecial, Decoder("I64"))
    [] ident = "bool"                                -> Metadata(NotSpecial, Decoder("Bool"))
    [] ident \in {"float32", "CNetworkedQuantizedFloat", "GameTime_t"}
                                                     -> Metadata(NotSpecial, F32DecoderNew(field))
    [] ident \in PointerTypes                        -> Metadata(PointerDescriptor, Decoder("Bool"))
    [] ident \in {"CUtlSymbolLarge", "CUtlString"}   -> Metadata(NotSpecial, Decoder("String"))
    [] ident = "QAngle"                              -> Metadata(NotSpecial, QAngleDecoderNew(field))
    [] ident \in {"Vector", "VectorWS"}              -> Metadata(NotSpecial, Vector3DecoderNew(field))
    [] ident = "Vector2D"                            -> Metadata(NotSpecial, Vector2DecoderNew(field))
    [] ident = "Vector4D"                            -> Metadata(NotSpecial, Vector4DecoderNew(field))
    [] ident \in {"m_SpeechBubbles", "DOTA_CombatLogQueryProgress"}
                                                     -> Metadata(DynamicSerializerArray, Decoder("U64"))
    [] OTHER                                         -> Metadata(NotSpecial, U64DecoderNew(field))

VectorTemplates == {"CNetworkUtlVectorBase", "CUtlVectorEmbeddedNetworkVar", "CUtlVector"}

\* The one name of a length that is known.
ArrayLength(len) == IF len = Ident("MAX_ABILITY_DRAFT_ABILITIES") THEN 48 ELSE len.num

RECURSIVE visit_any(_, _)

visit_template(expr, arg, field) ==
  IF expr.ident \notin VectorTemplates THEN visit_ident(expr.ident, field)
  ELSE IF field.field_serializer_name # NoSymbol
       THEN Metadata(DynamicSerializerArray, Decoder("U64"))
       ELSE Metadata(DynamicArray(visit_any(arg, field).decoder), Decoder("U64"))

visit_array(expr, len, field) ==
  IF expr = Ident("char") THEN Metadata(NotSpecial, Decoder("String"))
  ELSE Metadata(FixedArray(ArrayLength(len)), visit_any(expr, field).decoder)

visit_any(expr, field) ==
  CASE expr.expr = "Ident"    -> visit_ident(expr.ident, field)
    [] expr.expr = "Template" -> visit_template(expr.of, expr.arg, field)
    [] expr.expr = "Array"    -> visit_array(expr.of, expr.len, field)
    [] expr.expr = "Pointer"  -> Metadata(PointerDescriptor, Decoder("Bool"))

\* The types that visit_any is made for: a length of another name is an error, and a
\* template of anything but a name meets an unreachable!().
RECURSIVE Visitable(_)
Visitable(e) ==
  CASE e.expr = "Ident"    -> TRUE
    [] e.expr = "Template" -> e.of.expr = "Ident" /\ Visitable(e.arg)
    [] e.expr = "Array"    -> /\ Visitable(e.of)
                              /\ e.len.expr = "Lit" \/ e.len = Ident("MAX_ABILITY_DRAFT_ABILITIES")
    [] e.expr = "Pointer"  -> TRUE

get_field_metadata(field) == visit_any(ParseType(field.var_type, 1).expr, field)

------------------------------------------------------------------------------
(* FlattenedSerializerContainer::parse.                                    *)

\* FlattenedSerializerField::new: a field of an embedded struct has the path of
\* the struct before its name.
NewField(f) ==
  [var_name |-> f.var_name, key |-> NameParts(Append(f.send_node, f.var_name)),
   metadata |-> get_field_metadata(f), field_serializer |-> <<>>]

\* The fields below a field; `named` are those of its field_serializer_name,
\* none if there is no serializer of that name yet.
FieldSerializer(field, named) ==
  LET special == field.metadata.special
  IN CASE special.kind = "FixedArray" ->
            [k \in 1..special.length |-> [field EXCEPT !.field_serializer = named]]
       [] special.kind = "DynamicArray" -> <<DefaultField(special.decoder, <<>>)>>
       [] special.kind = "DynamicSerializerArray" -> <<DefaultField(InvalidDecoder, named)>>
       [] OTHER -> named

\* A field that serializers share is built for the first of them.
AddField(s, index) ==
  IF index \in DOMAIN s.field_map THEN [s EXCEPT !.fields = Append(@, s.field_map[index])]
  ELSE LET f     == SendTables.fields[index]
           new   == NewField(f)
           named == IF f.field_serializer_name \in DOMAIN s.serializer_map
                    THEN s.serializer_map[f.field_serializer_name] ELSE <<>>
           field == [new EXCEPT !.field_serializer = FieldSerializer(new, named)]
       IN [s EXCEPT !.field_map = @ @@ (index :> field), !.fields = Append(@, field)]

AddSerializer(s, serializer) ==
  LET t == FoldLeft(AddField, [s EXCEPT !.fields = <<>>], serializer.fields_index)
  IN [t EXCEPT !.serializer_map = (serializer.serializer_name :> t.fields) @@ @]

NoEntry == [x \in {} |-> x]

serializer_map ==
  FoldLeft(AddSerializer, [serializer_map |-> NoEntry, field_map |-> NoEntry, fields |-> <<>>],
           SendTables.serializers).serializer_map

\* The types of the fields are those that get_field_metadata is made for.
ASSUME TypesAssumption ==
  \A f \in Range(SendTables.fields) :
    LET type == ParseType(f.var_type, 1) IN type.ok /\ Visitable(type.expr)

------------------------------------------------------------------------------
(* The sender (external).                                                  *)

\* What the game calls a field: the path of its struct and its name in every
\* serializer, the index in every array.
FieldsOf(name) ==
  LET named == SelectSeq(SendTables.serializers, LAMBDA s : s.serializer_name = name)
  IN IF named = <<>> THEN <<>> ELSE named[1].fields_index

\* The text of an array's type ends in its length, or is a vector of something.
IsArray(type) ==
  \/ Last(type) = Punctuation("RSquare") /\ Head(type) # Name("char")
  \/ /\ Last(type) = Punctuation("RAngle")
     /\ Head(type) \in {Name(id) : id \in VectorTemplates}

NameTexts(names) == [k \in DOMAIN names |-> NameText(names[k])]

SentName(serializer_name, p) ==
  FoldLeft(LAMBDA s, c :
             IF s.array THEN [s EXCEPT !.array = FALSE, !.name = Append(@, NumberText(c))]
             ELSE LET f == SendTables.fields[s.fields[c + 1]]
                  IN [array |-> IsArray(f.var_type), fields |-> FieldsOf(f.field_serializer_name),
                      name |-> s.name \o NameTexts(Append(f.send_node, f.var_name))],
           [array |-> FALSE, fields |-> FieldsOf(serializer_name), name |-> <<>>], p).name
==============================================================================
