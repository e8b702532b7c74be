---------------------------- MODULE BnsMessages -----------------------------
(***************************************************************************)
(* A message of each of the generated classes on its way between two       *)
(* programs.  The bytes are written by encode; a newer release of the      *)
(* other side may add a field, and protobuf lets it write the fields in    *)
(* another order; decode reads them.                                       *)
(***************************************************************************)
EXTENDS BnsSchema, BnsTypes

VARIABLES
  message,   \* <<>> or <<class, message>>
  wire,      \* its bytes
  received   \* <<>> or <<what decode returned>>

messageVars == <<message, wire, received>>

UnknownField == 999

-----------------------------------------------------------------------------
Brief(schema) ==
  IF schema = <<>> \/ schema[1].type = "message" \/ schema[1].many THEN <<>>
  ELSE schema[1].name :> DefaultOf([schema[1] EXCEPT !.type = IF Wide(@) THEN "uint32" ELSE @])

SampleValues(field) ==
  CASE field.type = "bytes"  -> << <<"blob", 1>>, <<>> >>
    [] field.type = "string" -> <<"text", "">>
    [] field.type = "bool"   -> <<TRUE, FALSE>>
    [] field.type = "message" -> <<Brief(field.schema), <<>> >>
    [] field.type \in {"int32", "int64"} -> <<1, 0, -1, Word \div 2 - 1>>
    [] OTHER -> <<1, 0, Word - 1>>

Samples(schema) ==
  Variants(Shape([name \in {f.name : f \in Range(schema)} |->
                    LET field == FieldNamed(schema, name)
                    IN IF field.many THEN ListsOf(SampleValues(field)) ELSE SampleValues(field)],
                 {f.name : f \in {g \in Range(schema) : ~g.many}}))

-----------------------------------------------------------------------------
MessagesInit == message = <<>> /\ wire = <<>> /\ received = <<>>

WriteMessage(class) ==
  /\ message = <<>>
  /\ \E msg \in Samples(BnsClasses[class]) :
       /\ message' = <<class, msg>>
       /\ wire' = Encode(BnsClasses[class], msg)
  /\ UNCHANGED received

(* A field that this release does not know, before or after all others.    *)
AddUnknown(i) ==
  /\ message # <<>> /\ received = <<>>
  /\ \A k \in DOMAIN wire : wire[k][1] # UnknownField
  /\ wire' = InsertAt(wire, i, <<UnknownField, <<"blob", 1>> >>)
  /\ UNCHANGED <<message, received>>

(* The other side writes the fields in the opposite order.                 *)
WriteReversed ==
  /\ message # <<>> /\ received = <<>>
  /\ wire = Encode(BnsClasses[message[1]], message[2])
  /\ wire' = Encode(Reverse(BnsClasses[message[1]]), message[2])
  /\ UNCHANGED <<message, received>>

ReadMessage ==
  /\ message # <<>> /\ received = <<>>
  /\ received' = <<Decode(BnsClasses[message[1]], wire)>>
  /\ UNCHANGED <<message, wire>>

MessagesNext ==
  \/ \E class \in DOMAIN BnsClasses : WriteMessage(class)
  \/ \E i \in {1, Len(wire) + 1} : AddUnknown(i)
  \/ WriteReversed
  \/ ReadMessage

-----------------------------------------------------------------------------
RECURSIVE SameMessage(_, _, _)
SameValue(field, v, w) ==
  CASE field.type = "message" -> SameMessage(field.schema, v, w)
    [] Wide(field.type) -> w = [long |-> v]
    [] OTHER -> w = v

SameMessage(schema, sent, read) ==
  \A i \in DOMAIN schema :
    LET field == schema[i]
        v == sent[field.name]
        w == read[field.name]
    IN IF ~IsSet(sent, field.name)
       THEN (IsSet(read, field.name) => field.many /\ w = <<>>)
       ELSE /\ IsSet(read, field.name)
            /\ IF field.many THEN Len(v) = Len(w) /\ \A k \in DOMAIN v : SameValue(field, v[k], w[k])
               ELSE SameValue(field, v, w)

(***************************************************************************)
(* Every field of every class (codecimpl.js) arrives: decode returns what  *)
(* was given to encode, field by field, whether or not the value is the    *)
(* default, in any order of the fields and next to fields it does not      *)
(* know.  No two fields of a class share a number or a type that cuts them.*)
(***************************************************************************)
MessagesArrive ==
  received # <<>> => SameMessage(BnsClasses[message[1]], message[2], received[1])
=============================================================================
