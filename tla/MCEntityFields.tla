---------------------------- MODULE MCEntityFields ----------------------------
(* A pawn with fields of every decoder, of every special type, and arrays in *)
(* arrays, down to a path of seven components.                               *)
EXTENDS EntityFields, FlattenedSerializers

Field(type, name, encoder, bit_count) ==
  [var_type |-> type, var_name |-> name, var_encoder |-> encoder, bit_count |-> bit_count,
   encode_flags |-> {}, field_serializer_name |-> NoSymbol, send_node |-> <<>>]
Struct(type, name, serializer) ==
  [Field(type, name, NoSymbol, 0) EXCEPT !.field_serializer_name = serializer]
Within(send_node, field) == [field EXCEPT !.send_node = send_node]

PointerTo(of)        == Written(Pointer(Ident(of)))
TemplateOf(name, of) == Written(Template(Ident(name), of))
ArrayOf(of, length)  == Written(Array(of, length))

\* Texts of five tokens, and types with two suffixes, in one another and behind one
\* another.
Tokens == {Name("a"), Number(3), UnknownChar}
          \cup {Punctuation(kind) : kind \in {"LAngle", "RAngle", "LSquare", "RSquare", "Asterisk"}}
Suffixed(types) ==
  {Pointer(e) : e \in types} \cup {Array(e, Lit(3)) : e \in types} \cup {Array(e, Ident("a")) : e \in types}
  \cup {Template(e, f) : e, f \in types}
OneSuffix  == {Ident("a")} \cup Suffixed({Ident("a")})
Types      == OneSuffix \cup Suffixed(OneSuffix)

\* Reading gives back the type that was written, whatever comes after it, and takes
\* nothing else for a type: of all texts, what is read is the text up to where it ends
\* or a closing token stands, and the loop over suffixes loses and repeats no token
\* (haste_vartype's Parser::parse).
ASSUME TypesAreRead ==
  /\ \A e \in Types : ParseType(Written(e), 1) = Parsed(e, Len(Written(e)) + 1)
  /\ \A text \in BoundedSeq(Tokens, 5) :
       LET type == ParseType(text, 1)
       IN type.ok => /\ Written(type.expr) = SubSeq(text, 1, type.next - 1)
                     /\ next_token(text, type.next) \in {Eof, Punctuation("RAngle"), Punctuation("RSquare")}

MCSendTables ==
  [fields |->
     << Field(<<Name("float32")>>, "m_flSimulationTime", NoSymbol, 0),
        Field(<<Name("Vector")>>, "m_vecOrigin", "coord", 0),
        Field(<<Name("QAngle")>>, "m_angRotation", NoSymbol, 0),
        Struct(PointerTo("CBodyComponent"), "CBodyComponent", "CBodyComponent"),
        Within(<<"m_CCitadelHeroComponent", "m_loadingHero">>,
               Field(<<Name("uint32")>>, "m_nHeroID", NoSymbol, 0)),
        Within(<<"m_CCitadelHeroComponent", "m_spawnedHero">>,
               Field(<<Name("int32")>>, "m_nHeroID", NoSymbol, 0)),
        Struct(TemplateOf("CUtlVectorEmbeddedNetworkVar", Ident("Item_t")), "m_vecItems", "Item_t"),
        Field(ArrayOf(Ident("QAngle"), Lit(3)), "m_angRecoil", "qangle_precise", 0),
        Field(TemplateOf("CNetworkUtlVectorBase", Ident("QAngle")), "m_angPath", "qangle_pitch_yaw", 10),
        \* CBodyComponent
        Field(<<Name("uint64")>>, "m_hOwner", "fixed64", 0),
        [Field(<<Name("CNetworkedQuantizedFloat")>>, "m_vecX", NoSymbol, 9)
           EXCEPT !.encode_flags = {QFE_ROUNDUP, QFE_ENCODE_ZERO_EXACTLY}],
        \* Item_t
        Field(ArrayOf(Ident("char"), Lit(16)), "m_szName", NoSymbol, 0),
        Struct(TemplateOf("CUtlVector", Ident("Mod_t")), "m_mods", "Mod_t"),
        Struct(<<Name("CPhysicsComponent")>>, "m_physics", "CBodyComponent"),
        \* Mod_t, Slot_t
        Struct(TemplateOf("CUtlVector", Ident("Slot_t")), "m_slots", "Slot_t"),
        Field(<<Name("VectorWS")>>, "m_vNormal", "normal", 0),
        Field(<<Name("Vector2D")>>, "m_vSize", "normal", 0),
        \* the pawn again
        Field(<<Name("Vector4D")>>, "m_vColor", NoSymbol, 32),
        Field(<<Name("QAngle")>>, "m_angEyes", "qangle", 11),
        Field(ArrayOf(Template(Ident("CHandle"), Ident("CDOTASpecGraphPlayerData")), Lit(24)),
              "m_hGraph", NoSymbol, 0),
        Field(TemplateOf("CNetworkUtlVectorBase", Template(Ident("CHandle"), Ident("CBasePlayerController"))),
              "m_hPlayers", NoSymbol, 0),
        Field(ArrayOf(Ident("CDOTA_AbilityDraftAbilityState"), Ident("MAX_ABILITY_DRAFT_ABILITIES")),
              "m_draft", NoSymbol, 0) >>,
   serializers |->
     << [serializer_name |-> "Slot_t", fields_index |-> <<16, 17>>],
        [serializer_name |-> "Mod_t", fields_index |-> <<15>>],
        [serializer_name |-> "CBodyComponent", fields_index |-> <<10, 11>>],
        [serializer_name |-> "Item_t", fields_index |-> <<12, 13, 14>>],
        [serializer_name |-> "CCitadelPlayerPawn", fields_index |-> [k \in 1..9 |-> k] \o <<18, 19, 20, 21, 22>>] >>]

MCSerializer  == serializer_map["CCitadelPlayerPawn"]
MCGameName(p) == SentName("CCitadelPlayerPawn", p)

MCPaths ==
  { <<0>>, <<1>>, <<2>>, <<3>>, <<3, 0>>, <<3, 1>>, <<4>>, <<5>>,
    <<6>>, <<6, 0, 0>>, <<6, 1, 0>>, <<6, 255, 0>>, <<6, 0, 2, 1>>,
    <<6, 0, 1, 1, 0, 3, 0>>, <<6, 0, 1, 1, 0, 3, 1>>,
    <<7, 0>>, <<7, 2>>, <<8, 255>>, <<9>>, <<10>>, <<11, 23>>, <<12, 1>>, <<13, 47>> }

\* The same with a fixed array of structs.
MCStructArrayTables ==
  [MCSendTables EXCEPT !.fields[8] = Struct(ArrayOf(Ident("Shot_t"), Lit(3)), "m_shots", "CBodyComponent")]

MCStructArrayPaths == { <<0>>, <<7, 0, 0>>, <<7, 0, 1>>, <<7, 2, 1>> }

MCStreams == [1..3 -> BOOLEAN] \cup {<<TRUE, FALSE, FALSE, TRUE, TRUE>>}

\* What the theorems take of the tree and of the paths: every code of the tree leads
\* to its operation, every path to a field with a decoder, and where two paths part
\* the fields they go on to are told apart.
ASSUME TreeAssumption  == CodesAreRead
ASSUME PathsAssumption == FieldsAreFound
ASSUME NamesAssumption == NamesTellApart
==============================================================================
