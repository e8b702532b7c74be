----------------------------- MODULE BnsObjects -----------------------------
(***************************************************************************)
(* How BnsConnection reads the state of the chain.  The chain stores an    *)
(* object under a key in its own encoding; a query of the connection gets  *)
(* keys and values of all matching objects, which createParser() and the   *)
(* functions of decodeobjects.ts and context.ts turn into the types of     *)
(* types.ts, or throw.                                                     *)
(***************************************************************************)
EXTENDS BnsDecode

VARIABLES
  stored,    \* objects of one kind, or one object before and after a change
  listed     \* what the query for them returned

objectVars == <<stored, listed>>

-----------------------------------------------------------------------------
(* The queries: class and decode function of what they list.               *)
Query(schema, rows) == [schema |-> schema, rows |-> rows]

Queries ==
  [getAllTokens     |-> Query(currency_TokenInfo, decodeToken),
   getAccount       |-> Query(cash_Set, decodeWallet),
   getSwapsFromState |-> Query(aswap_Swap, decodeOpenSwap),
   getElectorates   |-> Query(gov_Electorate, decodeElectorate),
   getElectionRules |-> Query(gov_ElectionRule, decodeElectionRule),
   getProposals     |-> Query(gov_Proposal, decodeProposal),
   getVotes         |-> Query(gov_Vote, decodeVote),
   getUsernames     |-> Query(username_Token, decodeUsernameNft),
   getAccounts      |-> Query(account_Account, decodeAccount),
   getDomains       |-> Query(account_Domain, decodeDomain)]

Prefix == "tiov"
NotAsked == [failed |-> FALSE, objects |-> <<>>]
QueryFailed == [failed |-> TRUE, objects |-> <<>>]

(* The keys of accounts and domains say nothing that is not in the value.  *)
KeyOf(object) == IF "_id" \in DOMAIN object THEN object["_id"] ELSE <<"blob", 1>>

(* The list is complete or the query fails.                                *)
Answer(query, objects) ==
  LET keyed(o) == Copied(query.schema, KeyOf(o.object), o.wire)
  IN IF \E i \in DOMAIN objects : ObjectFails(Prefix, query.schema, query.rows, keyed(objects[i]))
     THEN QueryFailed
     ELSE [failed |-> FALSE,
           objects |-> [i \in DOMAIN objects |->
                          Taken(Prefix, Keyed(query.schema), query.rows, keyed(objects[i]))]]

-----------------------------------------------------------------------------
(* Objects of the state, from the readings their decode functions use.     *)

Coins == <<[whole |-> 1, ticker |-> "IOV"], [fractional |-> 1, ticker |-> "IOV"],
           [whole |-> 1, fractional |-> 1, ticker |-> "IOV"], [whole |-> 1, ticker |-> "ETH"]>>

RECURSIVE StoredValues(_, _)

(* All fields of the class, whether a row reads them or not.  The metadata *)
(* of weave is the same in every object.                                   *)
StoredShape(schema, rows) ==
  Shape([name \in {schema[i].name : i \in DOMAIN schema} |->
           LET read == SelectInSeq(rows, LAMBDA r : r[2] = name)
           IN StoredValues(FieldNamed(schema, name), IF read = 0 THEN ensured ELSE rows[read][3])], {})

StoredOptions ==
  FlattenSeq([k \in DOMAIN Options |->
    Listed({Options[k][1] :> msg : msg \in Variants(StoredShape(OptionSchema(Options[k]), Options[k][3]))})])

(* A proposal the chain accepts and decodeRawProposalOption does not know. *)
UnreadOption == "usernameUpdateConfigurationMsg" :> <<>>

StoredValues(field, reading) ==
  CASE field.name = "metadata" -> << "schema" :> 1 >>
    [] reading.op = "encodeBnsAddress" -> << <<"address", "alice">>, <<"address", "bob">> >>
    [] reading.op = "addressIfAny"     -> << <<"address", "alice">>, <<>> >>
    [] reading.op = "decodeNumericId"  -> << <<"u64", 1>>, <<"u64", 0>> >>
    [] reading.op = "decodeVersionedIdArray" -> << <<"versioned", 1, 1>>, <<"versioned", 2, 1>> >>
    [] reading.op = "decodeVoteId"     -> << <<"vote", "alice", 1>>, <<"vote", "alice", 2>> >>
    [] reading.op = "hash"             -> << <<"sha256", 1>>, <<"sha256", 2>> >>
    [] reading.op \in {"textIfAny", "textAsIs"} -> Texts
    [] reading.op \in {"asIntegerNumber", "integerIfAny", "time"} -> <<1, 0, 2>>
    [] reading.op = "truthy"           -> <<TRUE, FALSE>>
    [] reading.op \in {"decodeVoteOption", "enum"} -> <<1, 2, 3>>
    [] reading.op = "decodeAmount"     -> Coins
    [] reading.op = "coinIfAny"        -> Append(Coins, <<>>)
    [] reading.op = "firstCoin"        -> Append([i \in DOMAIN Coins |-> <<Coins[i]>>], <<Coins[1], Coins[2]>>)
    [] reading.op \in {"decodeFraction", "fractionIfAny"} -> Fractions
    [] reading.op = "decodeElectors"   ->
         ListsOf(<<[address |-> <<"address", "alice">>, weight |-> 1], [address |-> <<"address", "bob">>],
                   [address |-> <<"address", "alice">>, weight |-> 2]>>)
    [] reading.op = "decodeValidators" ->
         ListsOf([i \in 1..3 |-> [pubKey |-> [type |-> "ed25519", data |-> <<"key", i>>], power |-> i - 1]])
    [] reading.op = "sendMsg" ->
         LET sends == Listed(Variants(StoredShape(cash_SendMsg, decodeSendAction)))
         IN [i \in DOMAIN sends |-> [sendMsg |-> sends[i]]]
    [] reading.op = "decodeRawProposalOption" ->
         LET options == Append(StoredOptions, UnreadOption)
         IN [i \in DOMAIN options |-> Encode(bnsd_ProposalOptions, options[i])]
    [] reading.op = "every" -> ListsOf(StoredValues(field, reading.of))
    [] reading.op = "part"  -> Listed(Variants(StoredShape(field.schema, reading.rows)))
    [] field.type = "message" -> Listed(Variants(StoredShape(field.schema, <<>>)))
    [] field.many           -> ListsOf(<< <<"blob", 1>>, <<"blob", 2>> >>)
    [] field.type = "bytes" -> << <<"blob", 1>>, <<"blob", 2>> >>
    [] field.type = "string" -> Texts
    [] field.type = "bool"  -> <<TRUE, FALSE>>
    [] OTHER                -> <<1, 0, 2>>

HasKey(query) == \E i \in DOMAIN query.rows : query.rows[i][2] = "_id"

StoredObjects ==
  [name \in DOMAIN Queries |->
     LET query == Queries[name]
     IN Variants(StoredShape(IF HasKey(query) THEN Keyed(query.schema) ELSE query.schema, query.rows))]

(* What the chain keeps of an object.                                      *)
WeaveBytes(schema, object) ==
  CanonicalEncode(schema, Decode(schema, Encode(schema, object)))

-----------------------------------------------------------------------------
ObjectsInit == stored = <<>> /\ listed = NotAsked

(* A block writes an object, at most one field of which is not as in the   *)
(* object, or the version of this object, before it.                       *)
Alike(a, b) == Cardinality({f \in DOMAIN a : a[f] # b[f]}) <= 1

StoreObject(name) ==
  /\ Len(stored) < 2 /\ listed = NotAsked
  /\ \A i \in DOMAIN stored : stored[i].kind = name
  /\ \E object \in StoredObjects[name] :
       /\ \A i \in DOMAIN stored : Alike(object, stored[i].object)
       /\ stored' = Append(stored, [kind |-> name, object |-> object,
                                    wire |-> WeaveBytes(Queries[name].schema, object)])
  /\ UNCHANGED listed

(* The connection lists what is in the state.                              *)
ListObjects ==
  /\ stored # <<>> /\ listed = NotAsked
  /\ listed' = Answer(Queries[stored[1].kind], stored)
  /\ UNCHANGED stored

ObjectsNext ==
  \/ \E name \in DOMAIN Queries : StoreObject(name)
  \/ ListObjects

-----------------------------------------------------------------------------
(***************************************************************************)
(* What types.ts has no property for: the metadata of weave, the broker of *)
(* an account (it has one of domains), the addresses derived from keys,    *)
(* the task and the limits of a tally, the reference of a send, the type   *)
(* of a validator key.                                                     *)
(***************************************************************************)
Unlisted(schema) ==
  {"metadata"} \cup
    CASE schema = account_Account  -> {"broker"}
      [] schema \in {aswap_Swap, gov_ElectionRule} -> {"address"}
      [] schema = gov_Proposal     -> {"tallyTaskId"}
      [] schema = gov_TallyResult  -> {"quorum", "threshold"}
      [] schema = cash_SendMsg     -> {"ref"}
      [] schema = weave_PubKey     -> {"type"}
      [] OTHER -> {}

Unions == {bnsd_ProposalOptions, bnsd_ExecuteProposalBatchMsg_Union}

(* The message in a field, if any: the option of a proposal is in bytes.   *)
Within(field, v) ==
  CASE field.name = "rawOption" -> <<[schema |-> bnsd_ProposalOptions, of |-> <<Decode(bnsd_ProposalOptions, v)>>]>>
    [] field.type = "message"   -> <<[schema |-> field.schema, of |-> IF field.many THEN v ELSE <<v>>]>>
    [] OTHER -> <<>>

(* What a client is meant to see of a message.  A ReleaseEscrowAction has  *)
(* one amount, of several that may be released the first.                  *)
RECURSIVE Shown(_, _)
Shown(schema, msg) ==
  [name \in DOMAIN msg \ Unlisted(schema) |->
     LET inner == Within(FieldNamed(schema, name), msg[name])
         shown == IF schema = escrow_ReleaseMsg /\ name = "amount" THEN SubSeq(msg[name], 1, 1)
                  ELSE IF inner = <<>> THEN msg[name] ELSE inner[1].of
     IN IF inner = <<>> THEN shown
        ELSE [i \in DOMAIN shown |-> Shown(inner[1].schema, shown[i])]]

(* A field that is shown is missing or has its default value.              *)
RECURSIVE Lacks(_, _)
Lacks(schema, msg) ==
  \E i \in DOMAIN schema :
    LET field == schema[i]
        inner == Within(field, msg[field.name])
    IN /\ field.name \notin Unlisted(schema)
       /\ IF ~IsSet(msg, field.name) THEN schema \notin Unions
          ELSE IF inner = <<>> THEN msg[field.name] = DefaultOf(field)
          ELSE \/ inner[1].of = <<>>
               \/ \E k \in DOMAIN inner[1].of : Lacks(inner[1].schema, inner[1].of[k])

InState(o) == Decode(Queries[o.kind].schema, o.wire)

HasUnreadOption(o) ==
  "rawOption" \in DOMAIN o.object /\ o.object.rawOption = Encode(bnsd_ProposalOptions, UnreadOption)

(***************************************************************************)
(* What a query of BnsConnection lists is the state: two objects are equal *)
(* in the list exactly when they have the same key and agree in everything *)
(* types.ts has a property for, and an object with a value in every field  *)
(* is listed, unless it is a proposal of a kind decodeobjects.ts does not  *)
(* know.  That zero values and unknown kinds do make a query fail is the   *)
(* code's behaviour (decodinghelpers.ts, ensure).                          *)
(***************************************************************************)
ListsTheState ==
  listed # NotAsked =>
    LET schema == Queries[stored[1].kind].schema
    IN IF listed.failed
       THEN \E i \in DOMAIN stored : Lacks(schema, InState(stored[i])) \/ HasUnreadOption(stored[i])
       ELSE \A i, j \in DOMAIN stored :
              listed.objects[i] = listed.objects[j] <=>
                /\ KeyOf(stored[i].object) = KeyOf(stored[j].object)
                /\ Shown(schema, InState(stored[i])) = Shown(schema, InState(stored[j]))
=============================================================================
