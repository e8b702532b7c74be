----------------------------- MODULE BnsEncode ------------------------------
(***************************************************************************)
(* encode.ts and encodemsg.ts: how a transaction becomes a message of the  *)
(* generated classes.  Every encode function of the code fills the fields  *)
(* of one message from the properties of one object, so each is a sequence *)
(* of rows <<field, property, conversion>>; Filled interprets them.        *)
(***************************************************************************)
EXTENDS BnsSchema, BnsTypes

CONSTANT MaxSafeInteger   \* 2^53 - 1

-----------------------------------------------------------------------------
(* Conversions.                                                            *)

same       == [op |-> "same"]
bnsAddress == [op |-> "decodeBnsAddress"]
encodeInt  == [op |-> "encodeInt"]
encodeMemo == [op |-> "encodeMemo"]
amount     == [op |-> "encodeAmount"]
numericId  == [op |-> "encodeNumericId"]
timestamp  == [op |-> "timestamp"]
voteOption == [op |-> "encodeVoteOption"]
Each(conversion) == [op |-> "each", of |-> conversion]
Object(rows)     == [op |-> "object", rows |-> rows]
Versioned(rows)  == [op |-> "versioned", rows |-> rows]

encodeChainAddressPair == Object(<< <<"blockchainId", "chainId", same>>, <<"address", "address", same>> >>)

encodeAccountMsgFee == Object(<< <<"msgPath", "msgPath", same>>, <<"fee", "fee", amount>> >>)

encodeParticipant == Object(<< <<"signature", "address", bnsAddress>>, <<"weight", "weight", same>> >>)

IsBnsAddress(address) ==
  address.prefix \in {"iov", "tiov"} /\ address.data # <<>> /\ address.data[1] \in {"address", "contract"}

encodeVoteOption == [yes |-> 1, no |-> 2, abstain |-> 3]

(* Mutant: fractional is written when it is zero. *)
EncodeAmountMutant(a) ==
  LET whole == a.quantity \div FractionBase
  IN (IF whole = 0 THEN <<>> ELSE "whole" :> whole) @@ ("fractional" :> a.quantity % FractionBase)
       @@ (IF a.tokenTicker = "" THEN <<>> ELSE "ticker" :> a.tokenTicker)

EncodeAmount(a) ==
  LET whole      == a.quantity \div FractionBase
      fractional == a.quantity % FractionBase
  IN (IF whole = 0 THEN <<>> ELSE "whole" :> whole)
       @@ (IF fractional = 0 THEN <<>> ELSE "fractional" :> fractional)
       @@ (IF a.tokenTicker = "" THEN <<>> ELSE "ticker" :> a.tokenTicker)

AmountRefused(a) ==
  a.fractionalDigits # weaveFractionalDigits \/ a.quantity \div FractionBase > MaxSafeInteger

(* The value is null: the field is not written.                            *)
IsNull(conversion, v) ==
  CASE conversion.op = "encodeInt"  -> v = 0
    [] conversion.op = "encodeMemo" -> v = ""
    [] conversion.op = "timestamp"  -> v.timestamp = 0
    [] OTHER -> FALSE

RECURSIVE Filled(_, _)
RECURSIVE Converted(_, _)
RECURSIVE Refuses(_, _)

(* The message the rows make of an object; undefined properties are not    *)
(* written.                                                                *)
Filled(rows, object) ==
  LET set == {i \in DOMAIN rows :
                rows[i][2] \in DOMAIN object /\ ~IsNull(rows[i][3], object[rows[i][2]])}
  IN [field \in {rows[i][1] : i \in set} |->
        LET row == rows[CHOOSE i \in set : rows[i][1] = field]
        IN Converted(row[3], object[row[2]])]

WithMetadata(msg) == ("metadata" :> ("schema" :> 1)) @@ msg

Converted(conversion, v) ==
  CASE conversion.op = "decodeBnsAddress" -> v.data
    [] conversion.op = "encodeAmount"     -> EncodeAmount(v)
    [] conversion.op = "encodeNumericId"  -> <<"u64", v>>
    [] conversion.op = "timestamp"        -> v.timestamp
    [] conversion.op = "encodeVoteOption" -> encodeVoteOption[v]
    [] conversion.op = "each"   -> [i \in DOMAIN v |-> Converted(conversion.of, v[i])]
    [] conversion.op = "object" -> Filled(conversion.rows, v)
    [] conversion.op = "versioned" -> WithMetadata(Filled(conversion.rows, v))
    [] OTHER -> v

(* The conversion throws.                                                  *)
Refuses(conversion, v) ==
  CASE conversion.op = "decodeBnsAddress" -> ~IsBnsAddress(v)
    [] conversion.op = "encodeAmount"     -> AmountRefused(v)
    [] conversion.op = "encodeMemo"       -> v = LongMemo
    [] conversion.op = "each"   -> \E i \in DOMAIN v : Refuses(conversion.of, v[i])
    [] conversion.op \in {"object", "versioned"} ->
         \E i \in DOMAIN conversion.rows :
            LET row == conversion.rows[i]
            IN row[2] \in DOMAIN v /\ Refuses(row[3], v[row[2]])
    [] OTHER -> FALSE

-----------------------------------------------------------------------------
(* One entry per encode function: the field of bnsd.Tx and the rows.       *)

Into(field, rows) == [field |-> field, rows |-> rows]

encodeSendTransaction == Into("cashSendMsg", <<
  <<"source", "sender", bnsAddress>>, <<"destination", "recipient", bnsAddress>>,
  <<"amount", "amount", amount>>, <<"memo", "memo", encodeMemo>> >>)

encodeSwapOfferTx == Into("aswapCreateMsg", <<
  <<"source", "sender", bnsAddress>>, <<"preimageHash", "hash", same>>,
  <<"destination", "recipient", bnsAddress>>, <<"amount", "amounts", Each(amount)>>,
  <<"timeout", "timeout", timestamp>>, <<"memo", "memo", encodeMemo>> >>)

encodeSwapClaimTx == Into("aswapReleaseMsg", <<
  <<"swapId", "swapId", same>>, <<"preimage", "preimage", same>> >>)

encodeSwapAbortTransaction == Into("aswapReturnMsg", << <<"swapId", "swapId", same>> >>)

encodeRegisterUsernameTx == Into("usernameRegisterTokenMsg", <<
  <<"username", "username", same>>, <<"targets", "targets", Each(encodeChainAddressPair)>> >>)

encodeUpdateTargetsOfUsernameTx == Into("usernameChangeTokenTargetsMsg", <<
  <<"username", "username", same>>, <<"newTargets", "targets", Each(encodeChainAddressPair)>> >>)

encodeTransferUsernameTx == Into("usernameTransferTokenMsg", <<
  <<"username", "username", same>>, <<"newOwner", "newOwner", bnsAddress>> >>)

encodeAccountConfiguration == Versioned(<<
  <<"owner", "owner", bnsAddress>>, <<"validDomain", "validDomain", same>>,
  <<"validName", "validName", same>>, <<"validBlockchainId", "validBlockchainId", same>>,
  <<"validBlockchainAddress", "validBlockchainAddress", same>>,
  <<"domainRenew", "domainRenew", same>>, <<"domainGracePeriod", "domainGracePeriod", same>> >>)

encodeUpdateAccountConfigurationTx == Into("accountUpdateConfigurationMsg", <<
  <<"patch", "configuration", encodeAccountConfiguration>> >>)

encodeRegisterDomainTx == Into("accountRegisterDomainMsg", <<
  <<"domain", "domain", same>>, <<"admin", "admin", bnsAddress>>,
  <<"hasSuperuser", "hasSuperuser", same>>, <<"broker", "broker", bnsAddress>>,
  <<"msgFees", "msgFees", Each(encodeAccountMsgFee)>>, <<"accountRenew", "accountRenew", same>> >>)

encodeTransferDomainTx == Into("accountTransferDomainMsg", <<
  <<"domain", "domain", same>>, <<"newAdmin", "newAdmin", bnsAddress>> >>)

encodeRenewDomainTx == Into("accountRenewDomainMsg", << <<"domain", "domain", same>> >>)

encodeDeleteDomainTx == Into("accountDeleteDomainMsg", << <<"domain", "domain", same>> >>)

encodeRegisterAccountTx == Into("accountRegisterAccountMsg", <<
  <<"domain", "domain", same>>, <<"name", "name", same>>, <<"owner", "owner", bnsAddress>>,
  <<"targets", "targets", Each(encodeChainAddressPair)>>, <<"broker", "broker", bnsAddress>> >>)

encodeTransferAccountTx == Into("accountTransferAccountMsg", <<
  <<"domain", "domain", same>>, <<"name", "name", same>>, <<"newOwner", "newOwner", bnsAddress>> >>)

encodeReplaceAccountTargetsTx == Into("accountReplaceAccountTargetsMsg", <<
  <<"domain", "domain", same>>, <<"name", "name", same>>,
  <<"newTargets", "newTargets", Each(encodeChainAddressPair)>> >>)

encodeDeleteAccountTx == Into("accountDeleteAccountMsg", <<
  <<"domain", "domain", same>>, <<"name", "name", same>> >>)

encodeDeleteAllAccountsTx == Into("accountFlushDomainMsg", << <<"domain", "domain", same>> >>)

encodeRenewAccountTx == Into("accountRenewAccountMsg", <<
  <<"domain", "domain", same>>, <<"name", "name", same>> >>)

encodeAddAccountCertificateTx == Into("accountAddAccountCertificateMsg", <<
  <<"domain", "domain", same>>, <<"name", "name", same>>, <<"certificate", "certificate", same>> >>)

encodeReplaceAccountMsgFeesTx == Into("accountReplaceAccountMsgFeesMsg", <<
  <<"domain", "domain", same>>, <<"newMsgFees", "newMsgFees", Each(encodeAccountMsgFee)>> >>)

encodeDeleteAccountCertificateTx == Into("accountDeleteAccountCertificateMsg", <<
  <<"domain", "domain", same>>, <<"name", "name", same>>,
  <<"certificateHash", "certificateHash", same>> >>)

encodeCreateMultisignatureTx == Into("multisigCreateMsg", <<
  <<"participants", "participants", Each(encodeParticipant)>>,
  <<"activationThreshold", "activationThreshold", same>>,
  <<"adminThreshold", "adminThreshold", same>> >>)

encodeUpdateMultisignatureTx == Into("multisigUpdateMsg", <<
  <<"contractId", "contractId", numericId>>,
  <<"participants", "participants", Each(encodeParticipant)>>,
  <<"activationThreshold", "activationThreshold", same>>,
  <<"adminThreshold", "adminThreshold", same>> >>)

encodeCreateEscrowTx == Into("escrowCreateMsg", <<
  <<"source", "sender", bnsAddress>>, <<"arbiter", "arbiter", bnsAddress>>,
  <<"destination", "recipient", bnsAddress>>, <<"amount", "amounts", Each(amount)>>,
  <<"timeout", "timeout", timestamp>>, <<"memo", "memo", encodeMemo>> >>)

encodeReleaseEscrowTx == Into("escrowReleaseMsg", <<
  <<"escrowId", "escrowId", numericId>>, <<"amount", "amounts", Each(amount)>> >>)

encodeReturnEscrowTx == Into("escrowReturnMsg", << <<"escrowId", "escrowId", numericId>> >>)

encodeUpdateEscrowPartiesTx == Into("escrowUpdatePartiesMsg", <<
  <<"escrowId", "escrowId", numericId>>, <<"source", "sender", bnsAddress>>,
  <<"arbiter", "arbiter", bnsAddress>>, <<"destination", "recipient", bnsAddress>> >>)

encodeVoteTx == Into("govVoteMsg", <<
  <<"proposalId", "proposalId", numericId>>, <<"selected", "selection", voteOption>>,
  <<"voter", "voter", bnsAddress>> >>)

-----------------------------------------------------------------------------
(* Proposals: the action is encoded into the bytes of rawOption.           *)

encodeValidators(validators) ==
  LET keys == SetToSeq(DOMAIN validators)
  IN [i \in DOMAIN keys |->
        ("pubKey" :> (("data" :> keys[i]) @@ ("type" :> "ed25519"))) @@ ("power" :> validators[keys[i]])]

encodeElectors(electors) ==
  LET addresses == SetToSeq(DOMAIN electors)
  IN [i \in DOMAIN addresses |->
        ("address" :> addresses[i].data) @@ ("weight" :> electors[addresses[i]])]

OptionRows ==
  [CreateTextResolution |-> Into("govCreateTextResolutionMsg", << <<"resolution", "resolution", same>> >>),
   SetMsgFee |-> Into("msgfeeSetMsgFeeMsg", << <<"msgPath", "msgPath", same>>, <<"fee", "fee", amount>> >>),
   UpdateElectionRule |-> Into("govUpdateElectionRuleMsg", <<
     <<"electionRuleId", "electionRuleId", numericId>>, <<"threshold", "threshold", same>>,
     <<"quorum", "quorum", same>>, <<"votingPeriod", "votingPeriod", same>> >>),
   ExecuteMigration |-> Into("datamigrationExecuteMigrationMsg", << <<"migrationId", "id", same>> >>)]

EncodeOption(action) ==
  CASE action.kind \in DOMAIN OptionRows ->
         OptionRows[action.kind].field :> WithMetadata(Filled(OptionRows[action.kind].rows, action))
    [] action.kind = "ReleaseEscrow" ->
         "escrowReleaseMsg" :> WithMetadata(
            ("escrowId" :> <<"u64", action.escrowId>>) @@ ("amount" :> <<EncodeAmount(action.amount)>>))
    [] action.kind = "SetValidators" ->
         "validatorsApplyDiffMsg" :> WithMetadata(
            "validatorUpdates" :> encodeValidators(action.validatorUpdates))
    [] action.kind = "UpdateElectorate" ->
         "govUpdateElectorateMsg" :> WithMetadata(
            ("electorateId" :> <<"u64", action.electorateId>>)
              @@ ("diffElectors" :> encodeElectors(action.diffElectors)))
    [] action.kind = "ExecuteProposalBatch" ->
         "executeProposalBatchMsg" :> ("messages" :> [i \in DOMAIN action.messages |->
            "sendMsg" :> WithMetadata(Filled(encodeSendTransaction.rows, action.messages[i]))])

OptionRefused(action) ==
  CASE action.kind \in DOMAIN OptionRows ->
         \/ Refuses(Object(OptionRows[action.kind].rows), action)
         \/ action.kind = "ExecuteMigration" /\ action.id = ""
    [] action.kind = "ReleaseEscrow" -> AmountRefused(action.amount)
    [] action.kind = "SetValidators" -> \E key \in DOMAIN action.validatorUpdates : key[1] # "key"
    [] action.kind = "UpdateElectorate" -> \E a \in DOMAIN action.diffElectors : ~IsBnsAddress(a)
    [] action.kind = "ExecuteProposalBatch" ->
         \E i \in DOMAIN action.messages :
            \/ action.messages[i].kind # "Send"
            \/ Refuses(Object(encodeSendTransaction.rows), action.messages[i])
    [] OTHER -> TRUE   \* "Got unsupported type of ProposalOption"

ProposalRows == <<
  <<"title", "title", same>>, <<"description", "description", same>>,
  <<"electionRuleId", "electionRuleId", numericId>>, <<"startTime", "startTime", same>>,
  <<"author", "author", bnsAddress>> >>

encodeCreateProposalTx(tx) ==
  "govCreateProposalMsg" :> WithMetadata(
     ("rawOption" :> Encode(bnsd_ProposalOptions, EncodeOption(tx.action))) @@ Filled(ProposalRows, tx))

-----------------------------------------------------------------------------
(* The switch of encodeMsg.                                                *)
Encoders ==
  ("bcp/send" :> encodeSendTransaction) @@ ("bcp/swap_offer" :> encodeSwapOfferTx) @@
  ("bcp/swap_claim" :> encodeSwapClaimTx) @@ ("bcp/swap_abort" :> encodeSwapAbortTransaction) @@
  ("bns/register_username" :> encodeRegisterUsernameTx) @@
  ("bns/update_targets_of_username" :> encodeUpdateTargetsOfUsernameTx) @@
  ("bns/transfer_username" :> encodeTransferUsernameTx) @@
  ("bns/update_account_configuration" :> encodeUpdateAccountConfigurationTx) @@
  ("bns/register_domain" :> encodeRegisterDomainTx) @@
  ("bns/transfer_domain" :> encodeTransferDomainTx) @@ ("bns/renew_domain" :> encodeRenewDomainTx) @@
  ("bns/delete_domain" :> encodeDeleteDomainTx) @@ ("bns/register_account" :> encodeRegisterAccountTx) @@
  ("bns/transfer_account" :> encodeTransferAccountTx) @@
  ("bns/replace_account_targets" :> encodeReplaceAccountTargetsTx) @@
  ("bns/delete_account" :> encodeDeleteAccountTx) @@
  ("bns/delete_all_accounts" :> encodeDeleteAllAccountsTx) @@
  ("bns/renew_account" :> encodeRenewAccountTx) @@
  ("bns/add_account_certificate" :> encodeAddAccountCertificateTx) @@
  ("bns/replace_account_msg_fees" :> encodeReplaceAccountMsgFeesTx) @@
  ("bns/delete_account_certificate" :> encodeDeleteAccountCertificateTx) @@
  ("bns/create_multisignature_contract" :> encodeCreateMultisignatureTx) @@
  ("bns/update_multisignature_contract" :> encodeUpdateMultisignatureTx) @@
  ("bns/create_escrow" :> encodeCreateEscrowTx) @@ ("bns/release_escrow" :> encodeReleaseEscrowTx) @@
  ("bns/return_escrow" :> encodeReturnEscrowTx) @@
  ("bns/update_escrow_parties" :> encodeUpdateEscrowPartiesTx) @@ ("bns/vote" :> encodeVoteTx)

encodeMsg(tx) ==
  IF tx.kind = "bns/create_proposal" THEN encodeCreateProposalTx(tx)
  ELSE Encoders[tx.kind].field :> WithMetadata(Filled(Encoders[tx.kind].rows, tx))

Present(tx, names) == {n \in names : n \in DOMAIN tx}

(* The checks the encode functions make themselves.                        *)
GuardRefuses(tx) ==
  CASE tx.kind = "bcp/swap_offer" -> "timestamp" \notin DOMAIN tx.timeout
    [] tx.kind = "bns/register_username" -> tx.username[2] # "*iov"
    [] tx.kind = "bns/update_escrow_parties" ->
         Cardinality(Present(tx, {"sender", "arbiter", "recipient"})) # 1
    [] tx.kind = "bns/vote" -> "voter" \notin DOMAIN tx
    [] OTHER -> FALSE

MsgRefused(tx) ==
  IF tx.kind = "bns/create_proposal"
  THEN Refuses(Object(ProposalRows), tx) \/ OptionRefused(tx.action)
  ELSE GuardRefuses(tx) \/ Refuses(Object(Encoders[tx.kind].rows), tx)

-----------------------------------------------------------------------------
(* encode.ts: fee, multisignature contracts and signatures.                *)

isMultisignatureTx(tx) == "multisig" \in DOMAIN tx

conditionToWeaveAddress(contract) == <<"contract", contract>>

FeeRefused(tx) ==
  \/ "tokens" \notin DOMAIN tx.fee
  \/ AmountRefused(tx.fee.tokens)
  \/ "payer" \in DOMAIN tx.fee /\ ~IsBnsAddress(tx.fee.payer)
  \/ "payer" \notin DOMAIN tx.fee /\ ~(isMultisignatureTx(tx) /\ tx.multisig # <<>>)

(* Mutant: the last contract pays. *)
encodeFeeForTxMutant(tx) ==
  ("fees" :> EncodeAmount(tx.fee.tokens)) @@
  ("payer" :> IF "payer" \in DOMAIN tx.fee THEN tx.fee.payer.data
              ELSE conditionToWeaveAddress(Last(tx.multisig)))

encodeFeeForTx(tx) ==
  ("fees" :> EncodeAmount(tx.fee.tokens)) @@
  ("payer" :> IF "payer" \in DOMAIN tx.fee THEN tx.fee.payer.data
              ELSE conditionToWeaveAddress(tx.multisig[1]))

UnsignedRefused(tx) == MsgRefused(tx) \/ ("fee" \in DOMAIN tx /\ FeeRefused(tx))

(* Mutant: the contracts are not part of what is signed. *)
encodeUnsignedTxMutant(tx) ==
  encodeMsg(tx) @@ (IF "fee" \in DOMAIN tx THEN "fees" :> encodeFeeForTx(tx) ELSE <<>>)

encodeUnsignedTx(tx) ==
  encodeMsg(tx)
    @@ (IF "fee" \in DOMAIN tx THEN "fees" :> encodeFeeForTx(tx) ELSE <<>>)
    @@ (IF isMultisignatureTx(tx)
        THEN "multisig" :> [i \in DOMAIN tx.multisig |-> <<"u64", tx.multisig[i]>>] ELSE <<>>)

SignatureRefused(signature) == signature.pubkey.algo # "ed25519"

encodeFullSignature(signature) ==
  ("sequence" :> signature.nonce) @@ ("pubkey" :> ("ed25519" :> signature.pubkey.data))
    @@ ("signature" :> ("ed25519" :> signature.signature))

encodeSignedTx(tx, signatures) ==
  ("signatures" :> [i \in DOMAIN signatures |-> encodeFullSignature(signatures[i])])
    @@ encodeUnsignedTx(tx)
=============================================================================
