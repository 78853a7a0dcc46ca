---------------------------- MODULE SerializerFields ---------------------------
(***************************************************************************)
(* haste_core::flattenedserializers and fieldmetadata: the field of a      *)
(* serializer.  It has the fields below it, its metadata, which says how   *)
(* it is decoded and what is below it, and the beginning of the key that   *)
(* Entity::parse gives to its value.                                       *)
(*                                                                         *)
(* A symbol is a string, and the hash of a path is the sequence of the     *)
(* hashes of its parts; two sequences never have one hash.  A part is the  *)
(* hash of a name or of given bytes, and no name is a number.              *)
(***************************************************************************)
EXTENDS FieldDecoder

\* The parts of a key.
NamePart(name)   == [name |-> name, bytes |-> <<>>]
BytesPart(bytes) == [name |-> NoSymbol, bytes |-> bytes]
NameParts(names) == [k \in DOMAIN names |-> NamePart(names[k])]

\* add_u64_to_hash(0, i) is the hash of one byte, the index itself.
IndexPart(i) == BytesPart(<<i>>)

\* The parts of a path that a caller writes are texts, of a name or of a number.
NameText(name)  == [name |-> name, number |-> -1]
NumberText(n)   == [name |-> NoSymbol, number |-> n]
Decimal[n \in Nat] == IF n < 10 THEN <<48 + n>> ELSE Append(Decimal[n \div 10], 48 + (n % 10))

hash_bytes(text) ==
  IF text.number = -1 THEN NamePart(text.name) ELSE BytesPart(Decimal[text.number])

fkey_from_path(path) == [k \in DOMAIN path |-> hash_bytes(path[k])]

------------------------------------------------------------------------------
(* FieldMetadata and FlattenedSerializerField.                             *)

Metadata(special, decoder) == [special |-> special, decoder |-> decoder]
FixedArray(length)         == [kind |-> "FixedArray", length |-> length]
DynamicArray(decoder)      == [kind |-> "DynamicArray", decoder |-> decoder]
DynamicSerializerArray     == [kind |-> "DynamicSerializerArray"]
PointerDescriptor          == [kind |-> "Pointer"]
NotSpecial                 == [kind |-> "None"]

\* FlattenedSerializerField::default with a decoder and fields below it.
DefaultField(decoder, below) ==
  [var_name |-> NoSymbol, key |-> <<>>, metadata |-> Metadata(NotSpecial, decoder),
   field_serializer |-> below]

is_dynamic_array(field) ==
  field.metadata.special.kind \in {"DynamicArray", "DynamicSerializerArray"}
is_fixed_array(field) == field.metadata.special.kind = "FixedArray"

\* Where the code returns FieldNotFound: nothing is below, nothing decodes it.
FieldNotFound == DefaultField(InvalidDecoder, <<>>)

\* Indexes are those of the code, from zero.
get_child(fields, i) == IF i < Len(fields) THEN fields[i + 1] ELSE FieldNotFound
================================================================================
