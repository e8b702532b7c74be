----------------------------- MODULE BnsDecode ------------------------------
(***************************************************************************)
(* decode.ts, decodemsg.ts, decodeobjects.ts and decodinghelpers.ts: how   *)
(* messages of the generated classes become transactions, proposal actions *)
(* and the objects of the BNS state.  Every decode function is a sequence  *)
(* of rows <<property, field, reading>>, interpreted by Taken.             *)
(***************************************************************************)
EXTENDS BnsEncode

-----------------------------------------------------------------------------
(* Readings.  ensure() never fails for a scalar or a repeated field: the   *)
(* prototype answers with the default value.  Bytes that are not there are *)
(* an empty buffer, which is truthy.                                       *)

ensured      == [op |-> "ensure"]
address      == [op |-> "encodeBnsAddress"]
integer      == [op |-> "asIntegerNumber"]
id           == [op |-> "decodeNumericId"]
hash         == [op |-> "hash"]
time         == [op |-> "time"]
textIfAny    == [op |-> "textIfAny"]
selection    == [op |-> "decodeVoteOption"]
coin         == [op |-> "decodeAmount"]
coinIfAny    == [op |-> "coinIfAny"]
firstCoin    == [op |-> "firstCoin"]
sendMsg      == [op |-> "sendMsg"]
fraction     == [op |-> "decodeFraction"]
fractionIfAny == [op |-> "fractionIfAny"]
versionedId  == [op |-> "decodeVersionedIdArray"]
voteId       == [op |-> "decodeVoteId"]
status(least) == [op |-> "enum", least |-> least]
electors     == [op |-> "decodeElectors"]
validators   == [op |-> "decodeValidators"]
rawOption    == [op |-> "decodeRawProposalOption"]
flag         == [op |-> "truthy"]
addressIfAny == [op |-> "addressIfAny"]
integerIfAny == [op |-> "integerIfAny"]
textAsIs     == [op |-> "textAsIs"]
Every(reading) == [op |-> "every", of |-> reading]
Part(rows)     == [op |-> "part", rows |-> rows]

(* A Long is cut to its low 32 bits (Long.toInt).                          *)
AsIntegerNumber(field, v) == IF Wide(field.type) THEN Signed(v.long, Word) ELSE v

IntegerOf(schema, msg, name) == AsIntegerNumber(FieldNamed(schema, name), Get(schema, msg, name))

DecodeAmount(msg) ==
  [quantity |-> IntegerOf(coin_Coin, msg, "whole") * FractionBase + IntegerOf(coin_Coin, msg, "fractional"),
   fractionalDigits |-> weaveFractionalDigits,
   tokenTicker |-> Get(coin_Coin, msg, "ticker")]

CoinFails(msg) ==
  IntegerOf(coin_Coin, msg, "whole") < 0 \/ IntegerOf(coin_Coin, msg, "fractional") < 0

isZeroCoin(msg) ==
  IntegerOf(coin_Coin, msg, "whole") = 0 /\ IntegerOf(coin_Coin, msg, "fractional") = 0

FractionOf(schema, msg) ==
  [numerator |-> Get(schema, msg, "numerator"), denominator |-> Get(schema, msg, "denominator")]

DecodeVoteOption == <<"yes", "no", "abstain">>

IsU64(bytes) == bytes # <<>> /\ bytes[1] = "u64"

NoAddress == [prefix |-> "", data |-> <<>>]   \* the empty string

decodeSendAction == <<
  <<"sender", "source", address>>, <<"recipient", "destination", address>>,
  <<"amount", "amount", coin>>, <<"memo", "memo", textIfAny>> >>

RECURSIVE Taken(_, _, _, _)
RECURSIVE TakenValue(_, _, _, _)
RECURSIVE Fails(_, _, _, _)
RECURSIVE PartFails(_, _, _, _)
RECURSIVE DecodeOption(_, _)
RECURSIVE OptionFails(_, _)

(* The property stays undefined.                                           *)
IsUndefined(schema, msg, row) ==
  CASE row[3].op = "textIfAny" -> Get(schema, msg, row[2]) = ""
    [] row[3].op \in {"fractionIfAny", "textAsIs"} -> ~IsSet(msg, row[2])
    [] row[3].op = "coinIfAny" -> isZeroCoin(msg[row[2]])
    [] OTHER -> FALSE

Taken(prefix, schema, rows, msg) ==
  LET set == {i \in DOMAIN rows : ~IsUndefined(schema, msg, rows[i])}
  IN [property \in {rows[i][1] : i \in set} |->
        LET row == rows[CHOOSE i \in set : rows[i][1] = property]
        IN TakenValue(prefix, FieldNamed(schema, row[2]), row[3], Get(schema, msg, row[2]))]

TakenValue(prefix, field, reading, v) ==
  CASE reading.op = "encodeBnsAddress" -> [prefix |-> prefix, data |-> v]
    [] reading.op = "addressIfAny" -> IF v = <<>> THEN NoAddress ELSE [prefix |-> prefix, data |-> v]
    [] reading.op \in {"asIntegerNumber", "integerIfAny"} -> AsIntegerNumber(field, v)
    [] reading.op = "decodeNumericId"  -> v[2]
    [] reading.op = "time"             -> [timestamp |-> AsIntegerNumber(field, v)]
    [] reading.op = "decodeVoteOption" -> DecodeVoteOption[v]
    [] reading.op \in {"decodeAmount", "coinIfAny"} -> DecodeAmount(v)
    [] reading.op \in {"decodeFraction", "fractionIfAny"} -> FractionOf(field.schema, v)
    [] reading.op = "decodeVersionedIdArray" -> v[2]
    [] reading.op = "decodeVoteId"     -> v[3]
    [] reading.op = "decodeElectors"   ->
         [a \in {[prefix |-> prefix, data |-> Get(field.schema, v[i], "address")] : i \in DOMAIN v} |->
            Get(field.schema, v[SelectLastInSeq(v, LAMBDA e : Get(field.schema, e, "address") = a.data)],
                "weight")]
    [] reading.op = "decodeValidators" ->
         LET key(e) == Get(weave_PubKey, e.pubKey, "data")
         IN [k \in {key(v[i]) : i \in DOMAIN v} |->
               IntegerOf(field.schema, v[SelectLastInSeq(v, LAMBDA e : key(e) = k)], "power")]
    [] reading.op = "decodeRawProposalOption" -> DecodeOption(prefix, Decode(bnsd_ProposalOptions, v))
    [] reading.op = "firstCoin" -> DecodeAmount(v[1])
    [] reading.op = "sendMsg" ->
         ("kind" :> "Send") @@ Taken(prefix, cash_SendMsg, decodeSendAction, v.sendMsg)
    [] reading.op = "every" -> [i \in DOMAIN v |-> TakenValue(prefix, field, reading.of, v[i])]
    [] reading.op = "part"  -> Taken(prefix, field.schema, reading.rows, v)
    [] OTHER -> v

(* The reading throws.                                                     *)
Fails(prefix, field, reading, v) ==
  CASE reading.op = "decodeNumericId" -> ~IsU64(v)
    [] reading.op = "hash" -> v = <<>> \/ v[1] # "sha256"
    [] reading.op = "decodeVersionedIdArray" -> v = <<>> \/ v[1] # "versioned"
    [] reading.op = "decodeVoteOption" -> v \notin DOMAIN DecodeVoteOption
    [] reading.op = "enum" -> v \notin reading.least..3
    [] reading.op = "decodeAmount" -> CoinFails(v)
    [] reading.op = "coinIfAny" -> ~isZeroCoin(v) /\ CoinFails(v)
    [] reading.op \in {"decodeFraction", "fractionIfAny"} -> Get(field.schema, v, "denominator") = 0
    [] reading.op = "decodeValidators" -> \E i \in DOMAIN v : ~IsSet(v[i], "pubKey")
    [] reading.op = "decodeRawProposalOption" -> OptionFails(prefix, Decode(bnsd_ProposalOptions, v))
    [] reading.op = "firstCoin" -> v = <<>> \/ \E i \in DOMAIN v : CoinFails(v[i])
    [] reading.op = "sendMsg" ->
         ~IsSet(v, "sendMsg") \/ PartFails(prefix, cash_SendMsg, decodeSendAction, v.sendMsg)
    [] reading.op = "every" -> \E i \in DOMAIN v : Fails(prefix, field, reading.of, v[i])
    [] reading.op = "part"  -> PartFails(prefix, field.schema, reading.rows, v)
    [] OTHER -> FALSE

PartFails(prefix, schema, rows, msg) ==
  \E i \in DOMAIN rows :
    LET field == FieldNamed(schema, rows[i][2])
    IN IF field.type = "message" /\ ~field.many /\ ~IsSet(msg, field.name)
       THEN rows[i][3].op # "fractionIfAny"   \* ensure() throws
       ELSE Fails(prefix, field, rows[i][3], Get(schema, msg, field.name))

-----------------------------------------------------------------------------
(* decodeobjects.ts                                                        *)

decodeChainAddressPair == Part(<< <<"chainId", "blockchainId", ensured>>, <<"address", "address", ensured>> >>)

decodeBlockchainAddress == Part(<< <<"chainId", "blockchainId", ensured>>, <<"address", "address", ensured>> >>)

decodeAccountMsgFee == Part(<< <<"msgPath", "msgPath", ensured>>, <<"fee", "fee", coin>> >>)

decodeParticipant == Part(<< <<"weight", "weight", ensured>>, <<"address", "signature", address>> >>)

decodeAccountConfiguration == <<
  <<"owner", "owner", address>>, <<"validDomain", "validDomain", ensured>>,
  <<"validName", "validName", ensured>>, <<"validBlockchainId", "validBlockchainId", ensured>>,
  <<"validBlockchainAddress", "validBlockchainAddress", ensured>>,
  <<"domainRenew", "domainRenew", integer>>, <<"domainGracePeriod", "domainGracePeriod", integer>> >>

decodeCashConfiguration == <<
  <<"owner", "owner", address>>, <<"collectorAddress", "collectorAddress", address>>,
  <<"minimalFee", "minimalFee", coinIfAny>> >>

decodeTxFeeConfiguration == <<
  <<"owner", "owner", address>>, <<"baseFee", "baseFee", coin>>, <<"freeBytes", "freeBytes", ensured>> >>

decodeMsgFeeConfiguration == << <<"owner", "owner", address>>, <<"feeAdmin", "feeAdmin", address>> >>

decodePreRegistrationConfiguration == << <<"owner", "owner", address>> >>

decodeQualityScoreConfiguration == <<
  <<"owner", "owner", address>>, <<"c", "c", fraction>>, <<"k", "k", fraction>>, <<"kp", "kp", fraction>>,
  <<"q0", "q0", fraction>>, <<"x", "x", fraction>>, <<"xInf", "xInf", fraction>>,
  <<"xSup", "xSup", fraction>>, <<"delta", "delta", fraction>> >>

decodeTermDepositStandardRate == Part(<< <<"lockinPeriod", "lockinPeriod", ensured>>, <<"rate", "bonus", fraction>> >>)

decodeTermDepositCustomRate == Part(<< <<"address", "address", address>>, <<"rate", "rate", fraction>> >>)

decodeTermDepositConfiguration == <<
  <<"owner", "owner", address>>, <<"admin", "admin", address>>,
  <<"standardRates", "bonuses", Every(decodeTermDepositStandardRate)>>,
  <<"customRates", "baseRates", Every(decodeTermDepositCustomRate)>> >>

(***************************************************************************)
(* The objects of the state.  createParser() copies the own properties of  *)
(* a message and adds the key the query result came with as _id, so that   *)
(* the default values of the prototype are lost.                           *)
(***************************************************************************)
Keyed(schema) == <<Scalar("_id", 0, "bytes")>> \o schema

(* Mutant: the key of the object is not attached. *)
CopiedMutant(schema, key, wire) == Decode(schema, wire)

Copied(schema, key, wire) == ("_id" :> key) @@ Decode(schema, wire)

(* The decode function does without the property.                          *)
ToleratesMissing(reading) ==
  reading.op \in {"textIfAny", "textAsIs", "truthy", "addressIfAny", "integerIfAny", "fractionIfAny"}

ObjectFails(prefix, schema, rows, object) ==
  \/ \E i \in DOMAIN rows :
       ~IsSet(object, rows[i][2]) /\ ~ToleratesMissing(rows[i][3])   \* ensure() throws
  \/ PartFails(prefix, Keyed(schema), rows, object)

decodeToken == << <<"tokenTicker", "_id", ensured>>, <<"tokenName", "name", ensured>> >>

decodeUsernameNft == <<
  <<"id", "_id", ensured>>, <<"owner", "owner", address>>, <<"targets", "targets", Every(decodeChainAddressPair)>> >>

decodeAccount == <<
  <<"domain", "domain", ensured>>, <<"name", "name", textIfAny>>, <<"owner", "owner", address>>,
  <<"validUntil", "validUntil", integer>>, <<"targets", "targets", Every(decodeBlockchainAddress)>>,
  <<"certificates", "certificates", ensured>> >>

decodeDomain == <<
  <<"domain", "domain", ensured>>, <<"admin", "admin", address>>, <<"validUntil", "validUntil", integer>>,
  <<"hasSuperuser", "hasSuperuser", flag>>, <<"msgFees", "msgFees", Every(decodeAccountMsgFee)>>,
  <<"accountRenew", "accountRenew", integer>>, <<"broker", "broker", addressIfAny>> >>

decodeElectorate == <<
  <<"id", "_id", versionedId>>, <<"version", "version", integer>>, <<"admin", "admin", address>>,
  <<"title", "title", ensured>>, <<"electors", "electors", electors>>,
  <<"totalWeight", "totalElectorateWeight", integerIfAny>> >>

decodeElectionRule == <<
  <<"id", "_id", versionedId>>, <<"version", "version", integer>>, <<"admin", "admin", address>>,
  <<"electorateId", "electorateId", id>>, <<"title", "title", ensured>>,
  <<"votingPeriod", "votingPeriod", integer>>, <<"threshold", "threshold", fraction>>,
  <<"quorum", "quorum", fractionIfAny>> >>

decodeVersionedId == Part(<< <<"id", "id", id>>, <<"version", "version", ensured>> >>)

decodeTally == Part(<<
  <<"totalYes", "totalYes", integer>>, <<"totalNo", "totalNo", integer>>,
  <<"totalAbstain", "totalAbstain", integer>>, <<"totalElectorateWeight", "totalElectorateWeight", integer>> >>)

decodeProposal == <<
  <<"id", "_id", id>>, <<"title", "title", ensured>>, <<"action", "rawOption", rawOption>>,
  <<"description", "description", ensured>>, <<"electionRule", "electionRuleRef", decodeVersionedId>>,
  <<"electorate", "electorateRef", decodeVersionedId>>, <<"votingStartTime", "votingStartTime", integer>>,
  <<"votingEndTime", "votingEndTime", integer>>, <<"submissionTime", "submissionTime", integer>>,
  <<"author", "author", address>>, <<"state", "voteState", decodeTally>>, <<"status", "status", status(1)>>,
  <<"result", "result", status(1)>>, <<"executorResult", "executorResult", status(1)>> >>

decodeElector == Part(<< <<"address", "address", address>>, <<"weight", "weight", ensured>> >>)

decodeVote == <<
  <<"proposalId", "_id", voteId>>, <<"selection", "voted", selection>>, <<"elector", "elector", decodeElector>> >>

decodeWallet == << <<"address", "_id", address>>, <<"balance", "coins", Every(coin)>> >>

decodeOpenSwap == <<
  <<"id", "_id", ensured>>, <<"sender", "source", address>>, <<"recipient", "destination", address>>,
  <<"hash", "preimageHash", hash>>, <<"timeout", "timeout", time>>, <<"memo", "memo", textAsIs>> >>

-----------------------------------------------------------------------------
(* decodeRawProposalOption: the first option that is set decides.          *)

Patch(rows) == << <<"patch", "patch", Part(rows)>> >>

Options == <<
  <<"govCreateTextResolutionMsg", "CreateTextResolution", << <<"resolution", "resolution", ensured>> >> >>,
  <<"escrowReleaseMsg", "ReleaseEscrow",
    << <<"escrowId", "escrowId", id>>, <<"amount", "amount", firstCoin>> >> >>,
  <<"executeProposalBatchMsg", "ExecuteProposalBatch", << <<"messages", "messages", Every(sendMsg)>> >> >>,
  <<"govUpdateElectionRuleMsg", "UpdateElectionRule",
    << <<"electionRuleId", "electionRuleId", id>>, <<"threshold", "threshold", fractionIfAny>>,
       <<"quorum", "quorum", fractionIfAny>>, <<"votingPeriod", "votingPeriod", ensured>> >> >>,
  <<"govUpdateElectorateMsg", "UpdateElectorate",
    << <<"electorateId", "electorateId", id>>, <<"diffElectors", "diffElectors", electors>> >> >>,
  <<"validatorsApplyDiffMsg", "SetValidators", << <<"validatorUpdates", "validatorUpdates", validators>> >> >>,
  <<"msgfeeSetMsgFeeMsg", "SetMsgFee", << <<"msgPath", "msgPath", ensured>>, <<"fee", "fee", coin>> >> >>,
  <<"datamigrationExecuteMigrationMsg", "ExecuteMigration", << <<"id", "migrationId", ensured>> >> >>,
  <<"migrationUpgradeSchemaMsg", "UpgradeSchema",
    << <<"pkg", "pkg", ensured>>, <<"toVersion", "toVersion", ensured>> >> >>,
  <<"msgfeeUpdateConfigurationMsg", "SetMsgFeeConfiguration", Patch(decodeMsgFeeConfiguration)>>,
  <<"preregistrationUpdateConfigurationMsg", "SetPreRegistrationConfiguration",
    Patch(decodePreRegistrationConfiguration)>>,
  <<"qualityscoreUpdateConfigurationMsg", "SetQualityScoreConfiguration",
    Patch(decodeQualityScoreConfiguration)>>,
  <<"termdepositUpdateConfigurationMsg", "SetTermDepositConfiguration", Patch(decodeTermDepositConfiguration)>>,
  <<"txfeeUpdateConfigurationMsg", "SetTxFeeConfiguration", Patch(decodeTxFeeConfiguration)>>,
  <<"cashUpdateConfigurationMsg", "SetCashConfiguration", Patch(decodeCashConfiguration)>>,
  <<"accountUpdateConfigurationMsg", "SetAccountConfiguration", Patch(decodeAccountConfiguration)>>,
  <<"accountRegisterDomainMsg", "RegisterDomain",
    << <<"accountRenew", "accountRenew", integer>>, <<"admin", "admin", address>>, <<"broker", "broker", address>>,
       <<"domain", "domain", ensured>>, <<"hasSuperuser", "hasSuperuser", ensured>>,
       <<"msgFees", "msgFees", Every(decodeAccountMsgFee)>> >> >>,
  <<"accountRenewDomainMsg", "RenewDomain", << <<"domain", "domain", ensured>> >> >>,
  <<"accountReplaceAccountMsgFeesMsg", "SetAccountMsgFees",
    << <<"domain", "domain", ensured>>, <<"newMsgFees", "newMsgFees", Every(decodeAccountMsgFee)>> >> >>,
  <<"accountReplaceAccountTargetsMsg", "SetAccountTargets",
    << <<"domain", "domain", ensured>>, <<"name", "name", ensured>>,
       <<"newTargets", "newTargets", Every(decodeChainAddressPair)>> >> >>,
  <<"accountAddAccountCertificateMsg", "AddAccountCertificate",
    << <<"domain", "domain", ensured>>, <<"name", "name", ensured>>, <<"certificate", "certificate", ensured>> >> >>,
  <<"accountDeleteAccountCertificateMsg", "DeleteAccountCertificate",
    << <<"domain", "domain", ensured>>, <<"name", "name", ensured>>,
       <<"certificateHash", "certificateHash", ensured>> >> >> >>

OptionOf(option) == SelectInSeq(Options, LAMBDA o : IsSet(option, o[1]))

OptionSchema(o) == FieldNamed(bnsd_ProposalOptions, o[1]).schema

DecodeOption(prefix, option) ==
  LET o == Options[OptionOf(option)]
  IN ("kind" :> o[2]) @@ Taken(prefix, OptionSchema(o), o[3], option[o[1]])

OptionFails(prefix, option) ==
  \/ OptionOf(option) = 0   \* "Unsupported ProposalOptions"
  \/ LET o == Options[OptionOf(option)]
     IN PartFails(prefix, OptionSchema(o), o[3], option[o[1]])
=============================================================================
