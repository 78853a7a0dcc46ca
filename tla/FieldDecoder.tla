----------------------------- MODULE FieldDecoder -----------------------------
(***************************************************************************)
(* haste_core::fielddecoder with what it uses of bitreader and             *)
(* quantizedfloat: how far each decoder moves the reader.  Nothing says    *)
(* where a field ends but the field itself, so the parser can pass over    *)
(* one only by decoding it, or with skip_bits, written apart for each      *)
(* decoder.  What a decoder makes of the bits it reads is not modelled,    *)
(* save those that decide how many more it reads.                          *)
(*                                                                         *)
(* A reader is a position in a stream of bits, which repeats `bits`.       *)
(***************************************************************************)
EXTENDS Integers, Sequences

\* Option::None of a symbol, as an encoder or a name.
NoSymbol == ""

NewReader(bits) == [bits |-> bits, pos |-> 0]

\* The bit at the position.
Flag(r) == r.bits[(r.pos % Len(r.bits)) + 1]

------------------------------------------------------------------------------
(* BitReader.                                                              *)

read_bool(r)       == [r EXCEPT !.pos = @ + 1]
read_ubit64(r, n)  == [r EXCEPT !.pos = @ + n]
skip_bits(r, n)    == [r EXCEPT !.pos = @ + n]

\* Varints of one or two bytes and strings of no or one character: a bit of the
\* first byte stands for whether another one follows.
read_bytes_while(r) == IF Flag(r) THEN read_ubit64(r, 16) ELSE read_ubit64(r, 8)

read_uvarint(r)       == read_bytes_while(r)
read_string_to_end(r) == read_bytes_while(r)

COORD_INTEGER_BITS     == 14
COORD_FRACTIONAL_BITS  == 5
NORMAL_FRACTIONAL_BITS == 11

\* The sign is read if there is an integer or a fraction.
read_bitcoord(r) ==
  LET second       == read_bool(r)
      flags        == read_bool(second)
      has_intval   == Flag(r)
      has_fractval == Flag(second)
      signed       == read_bool(flags)
      whole        == IF has_intval THEN read_ubit64(signed, COORD_INTEGER_BITS) ELSE signed
  IN IF ~has_intval /\ ~has_fractval THEN flags
     ELSE IF has_fractval THEN read_ubit64(whole, COORD_FRACTIONAL_BITS) ELSE whole

read_bitnormal(r)       == read_ubit64(read_bool(r), NORMAL_FRACTIONAL_BITS)
read_bitangle(r, n)     == read_ubit64(r, n)

\* A flag for each component, then the components that are flagged.
Flagged(op(_), flag, r) == IF Flag(flag) THEN op(r) ELSE r

ReadFlagged2(op(_), x) ==
  LET y == read_bool(x)
  IN Flagged(op, y, Flagged(op, x, read_bool(y)))

ReadFlagged3(op(_), x) ==
  LET y == read_bool(x)
      z == read_bool(y)
  IN Flagged(op, z, Flagged(op, y, Flagged(op, x, read_bool(z))))

read_bitvec3coord(r)    == ReadFlagged3(read_bitcoord, r)
read_bitvec3normal(r)   == read_bool(ReadFlagged2(read_bitnormal, r))

------------------------------------------------------------------------------
(* QuantizedFloat, after its construction: the encode flags that are left. *)

QFE_ROUNDDOWN == "ROUNDDOWN"
QFE_ROUNDUP == "ROUNDUP"
QFE_ENCODE_ZERO_EXACTLY == "ENCODE_ZERO_EXACTLY"

\* Flags are asked in this order; the first bit set is the value.
Ask(d, f, s) ==
  IF s.done \/ f \notin d.encode_flags THEN s
  ELSE [r |-> read_bool(s.r), done |-> Flag(s.r)]

QuantizedDecode(d, r) ==
  LET asked == Ask(d, QFE_ENCODE_ZERO_EXACTLY, Ask(d, QFE_ROUNDUP, Ask(d, QFE_ROUNDDOWN,
                 [r |-> r, done |-> FALSE])))
  IN IF asked.done THEN asked.r ELSE read_ubit64(asked.r, d.bit_count)

\* The same with a count of its own, which is the result.
AskCounted(d, f, s) ==
  IF s.done \/ f \notin d.encode_flags THEN s
  ELSE [r |-> read_bool(s.r), done |-> Flag(s.r), bits |-> s.bits + 1]

AllCounted(d, r) ==
  AskCounted(d, QFE_ENCODE_ZERO_EXACTLY, AskCounted(d, QFE_ROUNDUP, AskCounted(d, QFE_ROUNDDOWN,
    [r |-> r, done |-> FALSE, bits |-> 0])))

\* Mutant of QuantizedSkip: the bits of the value are skipped in every case.
QuantizedSkipAll(d, r) ==
  LET asked == AllCounted(d, r)
  IN [r |-> skip_bits(asked.r, d.bit_count), bits |-> asked.bits + d.bit_count]

QuantizedSkip(d, r) ==
  LET asked == AllCounted(d, r)
  IN IF asked.done THEN [r |-> asked.r, bits |-> asked.bits]
     ELSE [r |-> skip_bits(asked.r, d.bit_count), bits |-> asked.bits + d.bit_count]

------------------------------------------------------------------------------
(* The decoders.                                                           *)

Decoder(kind)           == [kind |-> kind]
SizedDecoder(kind, n)   == [kind |-> kind, bit_count |-> n]
VectorDecoder(n, f32)   == [kind |-> "Vector", components |-> n, decoder |-> f32]
InvalidDecoder          == Decoder("Invalid")

U64DecoderNew(field) == IF field.var_encoder = "fixed64" THEN Decoder("U64Fixed64") ELSE Decoder("U64")

\* The name of the field comes before its encoder, and that before its bit count.
\* An encoder that is not listed is unimplemented!(), which a CASE without OTHER is
\* here too.
F32DecoderNew(field) ==
  IF field.var_name \in {"m_flSimulationTime", "m_flAnimTime"} THEN Decoder("F32SimulationTime")
  ELSE CASE field.var_encoder = "coord"  -> Decoder("F32Coord")
         [] field.var_encoder = "normal" -> Decoder("F32Normal")
         [] field.var_encoder = NoSymbol ->
              IF field.bit_count \in {0, 32} THEN Decoder("F32NoScale")
              ELSE [kind |-> "QuantizedFloat", bit_count |-> field.bit_count,
                    encode_flags |-> field.encode_flags]

Vector3DecoderNew(field) ==
  IF field.var_encoder = "normal" THEN Decoder("Vector3Normal")
  ELSE VectorDecoder(3, F32DecoderNew(field))
Vector2DecoderNew(field) == VectorDecoder(2, F32DecoderNew(field))
Vector4DecoderNew(field) == VectorDecoder(4, F32DecoderNew(field))

QAngleDecoderNew(field) ==
  CASE field.var_encoder = "qangle_pitch_yaw" -> SizedDecoder("QAnglePitchYaw", field.bit_count)
    [] field.var_encoder = "qangle_precise"   -> Decoder("QAnglePrecise")
    [] field.var_encoder \in {"qangle", "QAngle", NoSymbol} ->
         IF field.bit_count = 0 THEN Decoder("QAngleNoBitCount")
         ELSE SizedDecoder("QAngleBitCount", field.bit_count)

InternalF32Decode(d, r) ==
  CASE d.kind = "F32SimulationTime" -> read_uvarint(r)
    [] d.kind = "F32Coord"          -> read_bitcoord(r)
    [] d.kind = "F32Normal"         -> read_bitnormal(r)
    [] d.kind = "F32NoScale"        -> read_ubit64(r, 32)
    [] d.kind = "QuantizedFloat"    -> QuantizedDecode(d, r)

\* The calls for the components of a vector: two, three or four.
EachComponent(op(_), n, r) ==
  LET two == op(op(r))
  IN CASE n = 2 -> two
       [] n = 3 -> op(two)
       [] n = 4 -> op(op(two))

decode(d, r) ==
  CASE d.kind \in {"I64", "U64"}     -> read_uvarint(r)
    [] d.kind = "U64Fixed64"         -> read_ubit64(r, 64)
    [] d.kind = "Bool"               -> read_bool(r)
    [] d.kind = "String"             -> read_string_to_end(r)
    [] d.kind = "Vector"             -> EachComponent(LAMBDA q : InternalF32Decode(d.decoder, q), d.components, r)
    [] d.kind = "Vector3Normal"      -> read_bitvec3normal(r)
    [] d.kind = "QAnglePitchYaw"     -> read_bitangle(read_bitangle(r, d.bit_count), d.bit_count)
    [] d.kind = "QAngleNoBitCount"   -> read_bitvec3coord(r)
    [] d.kind = "QAnglePrecise"      -> ReadFlagged3(LAMBDA q : read_bitangle(q, 20), r)
    [] d.kind = "QAngleBitCount"     -> EachComponent(LAMBDA q : read_bitangle(q, d.bit_count), 3, r)
    [] OTHER                         -> InternalF32Decode(d, r)

\* A skip that reads what decoding reads and returns the distance.
Measured(r, after)  == [r |-> after, bits |-> after.pos - r.pos]
\* A skip that knows the distance.
Skipped(r, n)       == [r |-> skip_bits(r, n), bits |-> n]

InternalF32SkipBits(d, r) ==
  CASE d.kind = "F32SimulationTime" -> Measured(r, read_uvarint(r))
    [] d.kind = "F32Coord"          -> Measured(r, read_bitcoord(r))
    [] d.kind = "F32Normal"         -> Skipped(r, 12)
    [] d.kind = "F32NoScale"        -> Skipped(r, 32)
    [] d.kind = "QuantizedFloat"    -> QuantizedSkip(d, r)

\* The next component is skipped where the last one ended.
SkipNext(d, s) ==
  LET next == InternalF32SkipBits(d, s.r) IN [r |-> next.r, bits |-> s.bits + next.bits]

\* The flag at r as a number.
One(r) == IF Flag(r) THEN 1 ELSE 0

SkipDecoder(d, r) ==
  CASE d.kind \in {"I64", "U64"}     -> Measured(r, read_uvarint(r))
    [] d.kind = "U64Fixed64"         -> Skipped(r, 64)
    [] d.kind = "Bool"               -> Skipped(r, 1)
    [] d.kind = "String"             -> Measured(r, read_string_to_end(r))
    [] d.kind = "Vector"             ->
         EachComponent(LAMBDA s : SkipNext(d.decoder, s), d.components, [r |-> r, bits |-> 0])
    [] d.kind = "Vector3Normal"      -> Measured(r, read_bitvec3normal(r))
    [] d.kind = "QAnglePitchYaw"     -> Skipped(r, 2 * d.bit_count)
    [] d.kind = "QAngleNoBitCount"   -> Measured(r, read_bitvec3coord(r))
    [] d.kind = "QAnglePrecise"      ->
         LET y == read_bool(r)
             z == read_bool(y)
             n == 20 * (One(r) + One(y) + One(z))
         IN [r |-> skip_bits(read_bool(z), n), bits |-> 3 + n]
    [] d.kind = "QAngleBitCount"     -> Skipped(r, 3 * d.bit_count)
    [] OTHER                         -> InternalF32SkipBits(d, r)
==============================================================================
