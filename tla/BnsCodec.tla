------------------------------ MODULE BnsCodec ------------------------------
(***************************************************************************)
(* bnsCodec (bnscodec.ts) at work.  A client prepares a transaction, asks  *)
(* bytesToSign for the bytes to sign and bytesToPost for the bytes to send *)
(* to the chain; the chain (weave, external) checks the signature against  *)
(* its own encoding of what it received; later any client reads the bytes  *)
(* back from the chain with parseBytes.                                    *)
(***************************************************************************)
EXTENDS BnsDecode

CONSTANTS
  Nonces,       \* the nonces a transaction is signed with
  FeeKinds      \* the kinds that are tried with fees and contracts

VARIABLES
  stage,     \* what has happened to the transaction so far
  tx,        \* the unsigned transaction
  signed,    \* the signature with the bytes it was made for
  posted,    \* the bytes sent to the chain
  verdict,   \* what the chain says of the signature
  parsed     \* what parseBytes returned

vars == <<stage, tx, signed, posted, verdict, parsed>>

-----------------------------------------------------------------------------
(* decodemsg.ts: property, field of the message, reading.                  *)

From(kind, rows) == [kind |-> kind, rows |-> rows]

decodeSendTransaction == From("bcp/send", decodeSendAction)

decodeSwapOfferTx == From("bcp/swap_offer", <<
  <<"hash", "preimageHash", hash>>, <<"sender", "source", address>>, <<"recipient", "destination", address>>,
  <<"timeout", "timeout", time>>, <<"amounts", "amount", Every(coin)>>, <<"memo", "memo", textIfAny>> >>)

decodeSwapClaimTx == From("bcp/swap_claim", <<
  <<"swapId", "swapId", ensured>>, <<"preimage", "preimage", ensured>> >>)

decodeSwapAbortTransaction == From("bcp/swap_abort", << <<"swapId", "swapId", ensured>> >>)

decodeRegisterUsernameTx == From("bns/register_username", <<
  <<"username", "username", ensured>>, <<"targets", "targets", Every(decodeChainAddressPair)>> >>)

decodeUpdateTargetsOfUsernameTx == From("bns/update_targets_of_username", <<
  <<"username", "username", ensured>>, <<"targets", "newTargets", Every(decodeChainAddressPair)>> >>)

decodeTransferUsernameTx == From("bns/transfer_username", <<
  <<"username", "username", ensured>>, <<"newOwner", "newOwner", address>> >>)

decodeUpdateAccountConfigurationTx == From("bns/update_account_configuration", <<
  <<"configuration", "patch", Part(decodeAccountConfiguration)>> >>)

decodeRegisterDomainTx == From("bns/register_domain", <<
  <<"domain", "domain", ensured>>, <<"admin", "admin", address>>, <<"hasSuperuser", "hasSuperuser", ensured>>,
  <<"broker", "broker", address>>, <<"msgFees", "msgFees", Every(decodeAccountMsgFee)>>,
  <<"accountRenew", "accountRenew", integer>> >>)

decodeTransferDomainTx == From("bns/transfer_domain", <<
  <<"domain", "domain", ensured>>, <<"newAdmin", "newAdmin", address>> >>)

decodeRenewDomainTx == From("bns/renew_domain", << <<"domain", "domain", ensured>> >>)

decodeDeleteDomainTx == From("bns/delete_domain", << <<"domain", "domain", ensured>> >>)

decodeRegisterAccountTx == From("bns/register_account", <<
  <<"domain", "domain", ensured>>, <<"name", "name", ensured>>, <<"owner", "owner", address>>,
  <<"targets", "targets", Every(decodeBlockchainAddress)>>, <<"broker", "broker", address>> >>)

decodeTransferAccountTx == From("bns/transfer_account", <<
  <<"domain", "domain", ensured>>, <<"name", "name", ensured>>, <<"newOwner", "newOwner", address>> >>)

decodeReplaceAccountTargetsTx == From("bns/replace_account_targets", <<
  <<"domain", "domain", ensured>>, <<"name", "name", ensured>>,
  <<"newTargets", "newTargets", Every(decodeBlockchainAddress)>> >>)

decodeDeleteAccountTx == From("bns/delete_account", <<
  <<"domain", "domain", ensured>>, <<"name", "name", ensured>> >>)

decodeDeleteAllAccountsTx == From("bns/delete_all_accounts", << <<"domain", "domain", ensured>> >>)

decodeRenewAccountTx == From("bns/renew_account", <<
  <<"domain", "domain", ensured>>, <<"name", "name", ensured>> >>)

decodeAddAccountCertificateTx == From("bns/add_account_certificate", <<
  <<"domain", "domain", ensured>>, <<"name", "name", ensured>>, <<"certificate", "certificate", ensured>> >>)

decodeReplaceAccountMsgFeesTx == From("bns/replace_account_msg_fees", <<
  <<"domain", "domain", ensured>>, <<"newMsgFees", "newMsgFees", Every(decodeAccountMsgFee)>> >>)

decodeDeleteAccountCertificateTx == From("bns/delete_account_certificate", <<
  <<"domain", "domain", ensured>>, <<"name", "name", ensured>>,
  <<"certificateHash", "certificateHash", ensured>> >>)

decodeCreateMultisignatureTx == From("bns/create_multisignature_contract", <<
  <<"participants", "participants", Every(decodeParticipant)>>,
  <<"activationThreshold", "activationThreshold", ensured>>,
  <<"adminThreshold", "adminThreshold", ensured>> >>)

decodeUpdateMultisignatureTx == From("bns/update_multisignature_contract", <<
  <<"contractId", "contractId", id>>, <<"participants", "participants", Every(decodeParticipant)>>,
  <<"activationThreshold", "activationThreshold", ensured>>,
  <<"adminThreshold", "adminThreshold", ensured>> >>)

decodeCreateEscrowTx == From("bns/create_escrow", <<
  <<"sender", "source", address>>, <<"arbiter", "arbiter", address>>, <<"recipient", "destination", address>>,
  <<"amounts", "amount", Every(coin)>>, <<"timeout", "timeout", time>>, <<"memo", "memo", ensured>> >>)

decodeReleaseEscrowTx == From("bns/release_escrow", <<
  <<"escrowId", "escrowId", id>>, <<"amounts", "amount", Every(coin)>> >>)

decodeReturnEscrowTx == From("bns/return_escrow", << <<"escrowId", "escrowId", id>> >>)

decodeUpdateEscrowPartiesTx == From("bns/update_escrow_parties", <<
  <<"escrowId", "escrowId", id>>, <<"sender", "source", address>>, <<"arbiter", "arbiter", address>>,
  <<"recipient", "destination", address>> >>)

decodeCreateProposalTx == From("bns/create_proposal", <<
  <<"title", "title", ensured>>, <<"action", "rawOption", rawOption>>,
  <<"description", "description", ensured>>, <<"electionRuleId", "electionRuleId", id>>,
  <<"startTime", "startTime", integer>>, <<"author", "author", address>> >>)

decodeVoteTx == From("bns/vote", <<
  <<"proposalId", "proposalId", id>>, <<"selection", "selected", selection>>, <<"voter", "voter", address>> >>)

(* decodeMsg: the first message that is set decides.                       *)
Decoders == <<
  <<"cashSendMsg", decodeSendTransaction>>, <<"aswapCreateMsg", decodeSwapOfferTx>>,
  <<"aswapReleaseMsg", decodeSwapClaimTx>>, <<"aswapReturnMsg", decodeSwapAbortTransaction>>,
  <<"usernameRegisterTokenMsg", decodeRegisterUsernameTx>>,
  <<"usernameChangeTokenTargetsMsg", decodeUpdateTargetsOfUsernameTx>>,
  <<"usernameTransferTokenMsg", decodeTransferUsernameTx>>,
  <<"accountUpdateConfigurationMsg", decodeUpdateAccountConfigurationTx>>,
  <<"accountRegisterDomainMsg", decodeRegisterDomainTx>>, <<"accountTransferDomainMsg", decodeTransferDomainTx>>,
  <<"accountRenewDomainMsg", decodeRenewDomainTx>>, <<"accountDeleteDomainMsg", decodeDeleteDomainTx>>,
  <<"accountRegisterAccountMsg", decodeRegisterAccountTx>>,
  <<"accountTransferAccountMsg", decodeTransferAccountTx>>,
  <<"accountReplaceAccountTargetsMsg", decodeReplaceAccountTargetsTx>>,
  <<"accountDeleteAccountMsg", decodeDeleteAccountTx>>, <<"accountFlushDomainMsg", decodeDeleteAllAccountsTx>>,
  <<"accountRenewAccountMsg", decodeRenewAccountTx>>,
  <<"accountAddAccountCertificateMsg", decodeAddAccountCertificateTx>>,
  <<"accountReplaceAccountMsgFeesMsg", decodeReplaceAccountMsgFeesTx>>,
  <<"accountDeleteAccountCertificateMsg", decodeDeleteAccountCertificateTx>>,
  <<"multisigCreateMsg", decodeCreateMultisignatureTx>>, <<"multisigUpdateMsg", decodeUpdateMultisignatureTx>>,
  <<"escrowCreateMsg", decodeCreateEscrowTx>>, <<"escrowReleaseMsg", decodeReleaseEscrowTx>>,
  <<"escrowReturnMsg", decodeReturnEscrowTx>>, <<"escrowUpdatePartiesMsg", decodeUpdateEscrowPartiesTx>>,
  <<"govCreateProposalMsg", decodeCreateProposalTx>>, <<"govVoteMsg", decodeVoteTx>> >>

DecoderOf(msg) == SelectInSeq(Decoders, LAMBDA d : IsSet(msg, d[1]))

MsgSchema(field) == FieldNamed(bnsd_Tx, field).schema

decodeMsg(prefix, msg) ==
  LET d == Decoders[DecoderOf(msg)]
  IN ("kind" :> d[2].kind) @@ Taken(prefix, MsgSchema(d[1]), d[2].rows, msg[d[1]])

MsgFails(prefix, msg) ==
  \/ DecoderOf(msg) = 0   \* "unknown message type in transaction"
  \/ LET d == Decoders[DecoderOf(msg)]
     IN PartFails(prefix, MsgSchema(d[1]), d[2].rows, msg[d[1]])

-----------------------------------------------------------------------------
(* decode.ts                                                               *)

decodeFullSig(sig) ==
  [nonce |-> IntegerOf(sigs_StdSignature, sig, "sequence"),
   pubkey |-> [algo |-> "ed25519", data |-> Get(crypto_PublicKey, sig.pubkey, "ed25519")],
   signature |-> Get(crypto_Signature, sig.signature, "ed25519")]

HasFees(msg) == IsSet(msg, "fees") /\ IsSet(msg.fees, "fees")

decodeBaseTx(prefix, msg) ==
  (IF HasFees(msg)
   THEN "fee" :> [tokens |-> DecodeAmount(msg.fees.fees),
                  payer |-> [prefix |-> prefix, data |-> Get(cash_FeeInfo, msg.fees, "payer")]]
   ELSE <<>>)
  @@ (IF msg.multisig # <<>> THEN "multisig" :> [i \in DOMAIN msg.multisig |-> msg.multisig[i][2]] ELSE <<>>)

SignedFails(prefix, msg) ==
  \/ msg.signatures = <<>>
  \/ \E i \in DOMAIN msg.signatures :
       ~IsSet(msg.signatures[i], "pubkey") \/ ~IsSet(msg.signatures[i], "signature")
  \/ HasFees(msg) /\ CoinFails(msg.fees.fees)
  \/ \E i \in DOMAIN msg.multisig : ~IsU64(msg.multisig[i])
  \/ MsgFails(prefix, msg)

decodeSignedTx(prefix, msg) ==
  [transaction |-> decodeMsg(prefix, msg) @@ decodeBaseTx(prefix, msg),
   signatures |-> [i \in DOMAIN msg.signatures |-> decodeFullSig(msg.signatures[i])]]

-----------------------------------------------------------------------------
(* bnscodec.ts.  The chain is a test network, its prefix tiov.             *)

ChainId == "testnet"
addressPrefix(chainId) == IF chainId = "iov-mainnet" THEN "iov" ELSE "tiov"
Failed == [error |-> TRUE]

appendSignBytes(bytes, chainId, nonce) == <<chainId, nonce % DoubleWord, bytes>>

bytesToSign(t, nonce) == appendSignBytes(Encode(bnsd_Tx, encodeUnsignedTx(t)), ChainId, nonce)

bytesToPost(t, signatures) == Encode(bnsd_Tx, encodeSignedTx(t, signatures))

parseBytes(bytes) ==
  LET msg == Decode(bnsd_Tx, bytes)
  IN IF SignedFails(addressPrefix(ChainId), msg) THEN Failed
     ELSE decodeSignedTx(addressPrefix(ChainId), msg)

(***************************************************************************)
(* The chain verifies a signature against its own encoding of the          *)
(* transaction without signatures.                                         *)
(***************************************************************************)
WeaveSignBytes(bytes) ==
  LET msg == Decode(bnsd_Tx, bytes)
      sig == msg.signatures[1]
  IN <<ChainId, Get(sigs_StdSignature, sig, "sequence").long,
       CanonicalEncode(bnsd_Tx, [msg EXCEPT !.signatures = <<>>])>>

-----------------------------------------------------------------------------
TransactionsOf(kind) ==
  LET bare == {("kind" :> kind) @@ t : t \in Instances(BnsTx[kind])}
      Optional(name, v) == IF v = <<>> THEN <<>> ELSE name :> v[1]
  IN IF kind \notin FeeKinds THEN bare
     ELSE {t @@ Optional("fee", Fee[f]) @@ Optional("multisig", Multisig[m]) :
             t \in {("kind" :> kind) @@ v : v \in Variants(BnsTx[kind])},
             f \in DOMAIN Fee, m \in DOMAIN Multisig}

Nothing == <<>>

Init ==
  /\ stage = "idle"
  /\ tx = Nothing /\ signed = Nothing /\ posted = Nothing /\ verdict = Nothing /\ parsed = Nothing

(* A client picks the kind of its transaction and fills it in.             *)
Choose(kind) ==
  /\ stage = "idle"
  /\ stage' = "chosen" /\ tx' = ("kind" :> kind)
  /\ UNCHANGED <<signed, posted, verdict, parsed>>

Prepare ==
  /\ stage = "chosen"
  /\ stage' = "prepared" /\ tx' \in TransactionsOf(tx.kind)
  /\ UNCHANGED <<signed, posted, verdict, parsed>>

(* bytesToSign throws, or its bytes are signed.                            *)
Sign(nonce) ==
  /\ stage = "prepared"
  /\ IF UnsignedRefused(tx)
     THEN stage' = "refused" /\ UNCHANGED signed
     ELSE /\ stage' = "signed"
          /\ signed' = [nonce |-> nonce, pubkey |-> [algo |-> "ed25519", data |-> <<"key", 1>>],
                        signature |-> <<"signature of", bytesToSign(tx, nonce)>>]
  /\ UNCHANGED <<tx, posted, verdict, parsed>>

Post ==
  /\ stage = "signed"
  /\ stage' = "posted" /\ posted' = bytesToPost(tx, <<signed>>)
  /\ UNCHANGED <<tx, signed, verdict, parsed>>

(* The chain checks the signature; only then is the transaction in a block *)
(* and can be read back.                                                   *)
Verify ==
  /\ stage = "posted"
  /\ verdict' = (signed.signature[2] = WeaveSignBytes(posted))
  /\ stage' = IF verdict' THEN "included" ELSE "rejected"
  /\ UNCHANGED <<tx, signed, posted, parsed>>

Parse ==
  /\ stage = "included"
  /\ stage' = "read" /\ parsed' = parseBytes(posted)
  /\ UNCHANGED <<tx, signed, posted, verdict>>

(* Other clients encode as the chain does; their transactions are read too. *)
ParseForeign ==
  /\ stage \in {"included", "rejected"}
  /\ stage' = "read"
  /\ parsed' = parseBytes(CanonicalEncode(bnsd_Tx, Decode(bnsd_Tx, posted)))
  /\ UNCHANGED <<tx, signed, posted, verdict>>

Next ==
  \/ \E kind \in DOMAIN BnsTx : Choose(kind)
  \/ Prepare
  \/ \E nonce \in Nonces : Sign(nonce)
  \/ Post
  \/ Verify
  \/ Parse
  \/ ParseForeign

Spec == Init /\ [][Next]_vars

-----------------------------------------------------------------------------
(* Types: a transaction goes through its stages with one of the nonces.    *)
TypeOK ==
  /\ stage \in {"idle", "chosen", "prepared", "refused", "signed", "posted", "included", "rejected", "read"}
  /\ stage # "idle" => tx.kind \in DOMAIN BnsTx
  /\ stage \in {"signed", "posted", "included", "rejected", "read"} => signed.nonce \in Nonces

(* Every 64 bit integer of a message fits in 32 bits.                      *)
RECURSIVE FitsWord(_, _)
FitsWord(schema, msg) ==
  \A i \in DOMAIN schema :
    LET field == schema[i]
        fits(v) == IF field.type = "message" THEN FitsWord(field.schema, v)
                   ELSE Wide(field.type) => Signed(v, Word) = v
    IN IsSet(msg, field.name) =>
         IF field.many THEN \A k \in DOMAIN msg[field.name] : fits(msg[field.name][k])
         ELSE fits(msg[field.name])

NarrowIntegers ==
  /\ FitsWord(bnsd_Tx, encodeSignedTx(tx, <<signed>>))
  /\ tx.kind = "bns/create_proposal" => FitsWord(bnsd_ProposalOptions, EncodeOption(tx.action))

(* No party is left out that the decoder would invent, and the hash of a   *)
(* swap has 32 bytes, which only the decoder checks.                       *)
Complete ==
  /\ tx.kind = "bcp/swap_offer" => tx.hash[1] = "sha256"
  /\ tx.kind \in {"bns/register_domain", "bns/register_account"} => "broker" \in DOMAIN tx
  /\ tx.kind # "bns/update_escrow_parties"

WithoutEmptyMemo(t) == [n \in {m \in DOMAIN t : m # "memo" \/ t[m] # ""} |-> t[n]]

(* What a transaction says, whichever of several ways it says it in.       *)
Meaning(t) ==
  LET payer(fee) == IF "payer" \in DOMAIN fee THEN fee.payer
                    ELSE [prefix |-> addressPrefix(ChainId), data |-> conditionToWeaveAddress(t.multisig[1])]
      names  == (DOMAIN t \ (IF "multisig" \in DOMAIN t /\ t.multisig = <<>> THEN {"multisig"} ELSE {}))
                \cup (IF t.kind = "bns/create_escrow" THEN {"memo"} ELSE {})
                \cup (IF t.kind = "bns/replace_account_targets" THEN {"name"} ELSE {})
      full   == [n \in names |->
                   CASE n = "fee" -> [tokens |-> t.fee.tokens, payer |-> payer(t.fee)]
                     [] n = "action" /\ t.action.kind = "ExecuteProposalBatch" ->
                          [t.action EXCEPT !.messages = [i \in DOMAIN @ |-> WithoutEmptyMemo(@[i])]]
                     [] n \notin DOMAIN t -> ""
                     [] OTHER -> t[n]]
  IN IF t.kind \in {"bcp/send", "bcp/swap_offer"} THEN WithoutEmptyMemo(full) ELSE full

(***************************************************************************)
(* A transaction that was read back from the chain (parseBytes) is the one *)
(* that was signed, with its nonce, signature, fee payer and contracts, as *)
(* long as no integer needs more than 32 bits, no party is left out and    *)
(* the hash of a swap has 32 bytes.                                        *)
(***************************************************************************)
ParseRecovers ==
  stage = "read" /\ NarrowIntegers /\ Complete =>
    parsed = [transaction |-> Meaning(tx), signatures |-> <<signed>>]

(***************************************************************************)
(* Nobody signs one transaction and posts another: transactions of a kind  *)
(* that differ in what they say differ in the bytes to sign (bytesToSign). *)
(***************************************************************************)
SignBytesBind ==
  stage = "chosen" =>
    LET encodable == {t \in TransactionsOf(tx.kind) : ~UnsignedRefused(t)}
        bytes     == {bytesToSign(t, 1) : t \in encodable}
    IN Cardinality({<<bytesToSign(t, 1), Meaning(t)>> : t \in encodable}) = Cardinality(bytes)

(***************************************************************************)
(* A default value is in the bytes although weave leaves it out.  Not in   *)
(* the fields that pass encodeInt or encodeString (encodinghelpers.ts):    *)
(* those of a coin, memos and timeouts.                                    *)
(***************************************************************************)
RECURSIVE WritesDefault(_, _)
WritesDefault(schema, msg) ==
  schema # coin_Coin /\
  \E i \in DOMAIN schema :
    LET field == schema[i]
        v     == msg[field.name]
    IN /\ IsSet(msg, field.name) /\ field.name \notin {"memo", "timeout"}
       /\ CASE field.type = "message" /\ field.many -> \E k \in DOMAIN v : WritesDefault(field.schema, v[k])
            [] field.type = "message" -> WritesDefault(field.schema, v)
            [] OTHER -> ~field.many /\ v = IF Wide(field.type) THEN 0 ELSE DefaultOf(field)

(***************************************************************************)
(* The bytes that were signed are the ones the chain derives from what it  *)
(* received, for all kinds, zero amounts, empty memos and timeout 0        *)
(* included.  The only exception is a default value in one of the other    *)
(* fields, which encodemsg.ts writes without normalising it: then the      *)
(* signature is not valid for the chain.                                   *)
(***************************************************************************)
OnlyDefaultsAreRejected ==
  stage = "rejected" => WritesDefault(bnsd_Tx, encodeSignedTx(tx, <<signed>>))

(***************************************************************************)
(* The zero values of every transaction are normalised "as expected by     *)
(* weave" (encodinghelpers.ts), so that the chain accepts the signature.   *)
(***************************************************************************)
SignedIsAccepted == stage # "rejected"

(***************************************************************************)
(* What is not set stays unset: a party nobody named is read as undefined, *)
(* never as an address without bytes.                                      *)
(***************************************************************************)
AbsentStaysAbsent ==
  stage = "read" /\ parsed # Failed =>
    \A n \in DOMAIN parsed.transaction :
       n \in {"broker", "voter", "sender", "arbiter", "recipient"} => parsed.transaction[n].data # <<>>
=============================================================================
