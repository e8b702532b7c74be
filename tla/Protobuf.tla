------------------------------ MODULE Protobuf ------------------------------
(***************************************************************************)
(* What the generated message classes of @iov/bns do with a message.  Each *)
(* class (codecimpl.js) unrolls the same encode and decode over its own    *)
(* fields; here a class is the sequence of its fields, in the order encode *)
(* writes them (module BnsSchema), and Encode and Decode are written once. *)
(*                                                                         *)
(* A message is a function from the names of the fields that are set (own  *)
(* and not null) to their values.  Encoded bytes are a sequence of pairs   *)
(* <<field number, payload>>.  Strings and bytes are opaque, except that   *)
(* "" is the empty string and <<>> are no bytes.  Integers keep their      *)
(* width: Word stands for 2^32 and DoubleWord for 2^64.                    *)
(***************************************************************************)
EXTENDS Integers, Sequences, SequencesExt, TLC

CONSTANTS Word, DoubleWord

ASSUME WidthsAssumption == Word \in Nat /\ DoubleWord \in Nat /\ 2 < Word /\ Word < DoubleWord

-----------------------------------------------------------------------------
(* Fields: [name, id, type, many, schema]; schema only for sub-messages.   *)

Scalar(name, id, type) ==
  [name |-> name, id |-> id, type |-> type, many |-> FALSE, schema |-> <<>>]

Message(name, id, schema) ==
  [name |-> name, id |-> id, type |-> "message", many |-> FALSE, schema |-> schema]

Many(field) == [field EXCEPT !.many = TRUE]

(***************************************************************************)
(* Scalars on the wire.  A number written to a 64 bit field keeps 64 bits, *)
(* to a 32 bit one 32 bits; a 64 bit field is read as a Long object.       *)
(***************************************************************************)
Signed(n, width) ==
  LET m == n % width IN IF 2 * m >= width THEN m - width ELSE m

Wide(type) == type \in {"int64", "uint64"}

WriteScalar(type, v) ==
  CASE Wide(type)      -> v % DoubleWord
    [] type = "int32"  -> IF v < 0 THEN v % DoubleWord ELSE v % Word
    [] type = "uint32" -> v % Word
    [] type = "bool"   -> IF v THEN 1 ELSE 0
    [] OTHER           -> v

ReadScalar(type, w) ==
  CASE type = "int64"  -> [long |-> Signed(w, DoubleWord)]
    [] type = "uint64" -> [long |-> w]
    [] type = "int32"  -> Signed(w, Word)
    [] type = "uint32" -> w % Word
    [] type = "bool"   -> w # 0
    [] OTHER           -> w

(***************************************************************************)
(* What the prototype answers for a field nobody set.  A sub-message is    *)
(* null then: ask IsSet.                                                   *)
(***************************************************************************)
DefaultOf(field) ==
  CASE field.many            -> <<>>
    [] field.type = "bytes"  -> <<>>
    [] field.type = "string" -> ""
    [] field.type = "bool"   -> FALSE
    [] Wide(field.type)      -> [long |-> 0]
    [] OTHER                 -> 0

IsSet(msg, name) == name \in DOMAIN msg

FieldNamed(schema, name) == schema[SelectInSeq(schema, LAMBDA f : f.name = name)]

Get(schema, msg, name) ==
  IF IsSet(msg, name) THEN msg[name] ELSE DefaultOf(FieldNamed(schema, name))

-----------------------------------------------------------------------------
RECURSIVE Encode(_, _)

Payload(field, v) ==
  IF field.type = "message" THEN Encode(field.schema, v) ELSE WriteScalar(field.type, v)

EncodeField(field, msg) ==
  LET v == msg[field.name]
  IN IF field.many THEN [i \in DOMAIN v |-> <<field.id, Payload(field, v[i])>>]
     ELSE << <<field.id, Payload(field, v)>> >>

(* A field that is set is written even when it has its default value.      *)
Encode(schema, msg) ==
  LET set == SelectSeq(schema, LAMBDA f : IsSet(msg, f.name))
  IN FlattenSeq([i \in DOMAIN set |-> EncodeField(set[i], msg)])

RECURSIVE Decode(_, _)

Parsed(field, w) ==
  IF field.type = "message" THEN Decode(field.schema, w) ELSE ReadScalar(field.type, w)

KnownIn(schema, entry) == \E f \in Range(schema) : f.id = entry[1]

(* Mutant: the reader leaves its loop at a field number it does not know. *)
ReadEntriesMutant(schema, wire) ==
  LET stop == SelectInSeq(wire, LAMBDA entry : ~KnownIn(schema, entry))
  IN IF stop = 0 THEN wire ELSE SubSeq(wire, 1, stop - 1)

(* The decoder's loop skips the field numbers it does not know.            *)
ReadEntries(schema, wire) == SelectSeq(wire, LAMBDA entry : KnownIn(schema, entry))

(* What the loop leaves: a repeated field grows from the empty list, of    *)
(* any other one the last entry stays.                                     *)
Decode(schema, wire) ==
  LET entries      == ReadEntries(schema, wire)
      entriesOf(f) == SelectSeq(entries, LAMBDA entry : entry[1] = f.id)
      present      == {f \in Range(schema) : f.many \/ \E i \in DOMAIN entries : entries[i][1] = f.id}
  IN [name \in {f.name : f \in present} |->
        LET field == FieldNamed(schema, name)
            own   == entriesOf(field)
        IN IF field.many THEN [i \in DOMAIN own |-> Parsed(field, own[i][2])]
           ELSE Parsed(field, Last(own)[2])]

(***************************************************************************)
(* The encoder of the chain (Go), which leaves out every scalar that has   *)
(* its default value; weave hashes and verifies what this encoder gives.   *)
(***************************************************************************)
RECURSIVE CanonicalEncode(_, _)

CanonicalPayload(field, v) ==
  IF field.type = "message" THEN CanonicalEncode(field.schema, v)
  ELSE WriteScalar(field.type, IF Wide(field.type) THEN v.long ELSE v)

IsImplicit(field, msg) ==
  \/ ~IsSet(msg, field.name)
  \/ ~field.many /\ field.type # "message" /\ msg[field.name] = DefaultOf(field)

CanonicalField(field, msg) ==
  LET v == msg[field.name]
  IN IF field.many THEN [i \in DOMAIN v |-> <<field.id, CanonicalPayload(field, v[i])>>]
     ELSE << <<field.id, CanonicalPayload(field, v)>> >>

CanonicalEncode(schema, msg) ==
  LET set == SelectSeq(schema, LAMBDA f : ~IsImplicit(f, msg))
  IN FlattenSeq([i \in DOMAIN set |-> CanonicalField(set[i], msg)])
=============================================================================
