------------------------------ MODULE BnsTypes ------------------------------
(***************************************************************************)
(* The transactions @iov/bns can express (types.ts, and the transactions   *)
(* of @iov/bcp it supports), as the inputs of the codec.  A shape lists    *)
(* for every property of an interface the values it is tried with, the     *)
(* usual one first, and which properties are optional.                     *)
(*                                                                         *)
(* Bytes are pairs <<what they are, content>>, <<>> when there are none.   *)
(* An address is its bech32 prefix and its bytes.  An amount keeps its     *)
(* quantity as a number.                                                   *)
(***************************************************************************)
EXTENDS Integers, Sequences, SequencesExt, FiniteSets, FiniteSetsExt, TLC

CONSTANTS
  Large,        \* an integer of more than 31 and less than 53 bits
  FractionBase  \* 10^weaveFractionalDigits

weaveFractionalDigits == 9

-----------------------------------------------------------------------------
Shape(values, optional) == [values |-> values, optional |-> optional]

(* The records of a shape in which at most two properties are unusual.     *)
Instances(shape) ==
  LET names    == DOMAIN shape.values
      least(n) == IF n \in shape.optional THEN 0 ELSE 1
      usual    == [n \in names |-> 1]
      choices  == UNION {
        {[usual EXCEPT ![n] = i, ![m] = IF m = n THEN i ELSE j] :
           i \in least(n)..Len(shape.values[n]), j \in least(m)..Len(shape.values[m])} :
        n \in names, m \in names}
  IN {[n \in {k \in names : c[k] > 0} |-> shape.values[n][c[n]]] : c \in choices}

(* Only the usual record and the ones with a single unusual property.      *)
Variants(shape) ==
  LET usual == [n \in DOMAIN shape.values |-> shape.values[n][1]]
  IN UNION {
       {[usual EXCEPT ![n] = shape.values[n][i]] : i \in DOMAIN shape.values[n]}
         \cup (IF n \in shape.optional THEN {[m \in DOMAIN usual \ {n} |-> usual[m]]} ELSE {}) :
       n \in DOMAIN usual}

Listed(S) ==
  LET list[T \in SUBSET S] ==
        IF T = {} THEN <<>> ELSE LET v == CHOOSE v \in T : TRUE IN Append(list[T \ {v}], v)
  IN list[S]

ListsOf(values) ==
  << <<values[1]>>, <<>>, <<values[1], values[2]>> >>
    \o [i \in 1..(Len(values) - 1) |-> <<values[i + 1]>>]

Address(person) == [prefix |-> "tiov", data |-> <<"address", person>>]
Amount(quantity) ==
  [quantity |-> quantity, fractionalDigits |-> weaveFractionalDigits, tokenTicker |-> "IOV"]

Addresses == <<Address("alice"), Address("bob"), [prefix |-> "cosmos", data |-> <<"address", "carol">>]>>
Texts == <<"text", "", "other">>
LongMemo == "a memo of more than 128 bytes"
Memos == <<"text", "", LongMemo>>
Numbers == <<1, 0, 2, Large>>
Ids == <<1, 0, Large>>
Amounts == <<Amount(FractionBase + 1), Amount(0), Amount(FractionBase - 1), Amount(Large * FractionBase),
             [Amount(1) EXCEPT !.fractionalDigits = 8]>>
Blobs == << <<"blob", 1>>, <<"blob", 2>> >>
Hashes == << <<"sha256", 1>>, <<"sha256", 2>>, <<"sha1", 1>> >>
Usernames == << <<"alice", "*iov">>, <<"alice", "">> >>
Timeouts == <<[timestamp |-> 1], [timestamp |-> 0], [timestamp |-> Large], [height |-> 1]>>
Timestamps == SubSeq(Timeouts, 1, 3)
Fractions == <<[numerator |-> 1, denominator |-> 2], [numerator |-> 0, denominator |-> 1]>>
ChainAddressPair == <<[chainId |-> "chain", address |-> "1L"], [chainId |-> "chain", address |-> ""],
                      [chainId |-> "other", address |-> "1L"]>>
AccountMsgFee == [i \in DOMAIN Amounts |-> [msgPath |-> "path", fee |-> Amounts[i]]]
Participant == <<[address |-> Addresses[1], weight |-> 1], [address |-> Addresses[2], weight |-> 0],
                 [address |-> Addresses[3], weight |-> 1]>>
Electors == << Addresses[1] :> 1, (Addresses[1] :> 2) @@ (Addresses[2] :> 0), Addresses[3] :> 1 >>
Validators == << <<"key", 1>> :> 1, (<<"key", 1>> :> 0) @@ (<<"key", 2>> :> Large) >>

-----------------------------------------------------------------------------
(* The actions of a proposal; the ones after "Send" can only be read.      *)

CreateTextResolutionAction == Shape([kind |-> <<"CreateTextResolution">>, resolution |-> Texts], {})
ReleaseEscrowAction ==
  Shape([kind |-> <<"ReleaseEscrow">>, escrowId |-> Ids, amount |-> Amounts], {})
SendAction ==
  Shape([kind |-> <<"Send">>, sender |-> Addresses, recipient |-> Addresses,
         amount |-> Amounts, memo |-> Memos], {"memo"})
SetMsgFeeAction == Shape([kind |-> <<"SetMsgFee">>, msgPath |-> Texts, fee |-> Amounts], {})
SetValidatorsAction == Shape([kind |-> <<"SetValidators">>, validatorUpdates |-> Validators], {})
UpdateElectionRuleAction ==
  Shape([kind |-> <<"UpdateElectionRule">>, electionRuleId |-> Ids, threshold |-> Fractions,
         quorum |-> Fractions, votingPeriod |-> Numbers], {"threshold", "quorum"})
UpdateElectorateAction ==
  Shape([kind |-> <<"UpdateElectorate">>, electorateId |-> Ids, diffElectors |-> Electors], {})
ExecuteMigrationAction == Shape([kind |-> <<"ExecuteMigration">>, id |-> Texts], {})
UpgradeSchemaAction == Shape([kind |-> <<"UpgradeSchema">>, pkg |-> Texts, toVersion |-> Numbers], {})
ExecuteProposalBatchAction ==
  Shape([kind |-> <<"ExecuteProposalBatch">>,
         messages |-> ListsOf(Listed(Variants(SendAction)) \o Listed(Variants(UpgradeSchemaAction)))], {})

ProposalAction ==
  UNION {Variants(s) : s \in {CreateTextResolutionAction, ExecuteProposalBatchAction, ReleaseEscrowAction,
    SendAction, SetMsgFeeAction, SetValidatorsAction, UpdateElectionRuleAction, UpdateElectorateAction,
    ExecuteMigrationAction, UpgradeSchemaAction}}

-----------------------------------------------------------------------------
SendTransaction ==
  Shape([sender |-> Addresses, recipient |-> Addresses, amount |-> Amounts, memo |-> Memos], {"memo"})
SwapOfferTransaction ==
  Shape([sender |-> Addresses, recipient |-> Addresses, hash |-> Hashes, timeout |-> Timeouts,
         amounts |-> ListsOf(Amounts), memo |-> Memos], {"memo"})
SwapClaimTransaction == Shape([swapId |-> Blobs, preimage |-> Blobs], {})
SwapAbortTransaction == Shape([swapId |-> Blobs], {})
RegisterUsernameTx == Shape([username |-> Usernames, targets |-> ListsOf(ChainAddressPair)], {})
UpdateTargetsOfUsernameTx == Shape([username |-> Usernames, targets |-> ListsOf(ChainAddressPair)], {})
TransferUsernameTx == Shape([username |-> Usernames, newOwner |-> Addresses], {})
AccountConfiguration ==
  Shape([owner |-> Addresses, validDomain |-> Texts, validName |-> Texts, validBlockchainId |-> Texts,
         validBlockchainAddress |-> Texts, domainRenew |-> Numbers, domainGracePeriod |-> Numbers], {})
UpdateAccountConfigurationTx ==
  Shape([configuration |-> Listed(Variants(AccountConfiguration))], {})
RegisterDomainTx ==
  Shape([domain |-> Texts, admin |-> Addresses, hasSuperuser |-> <<TRUE, FALSE>>, broker |-> Addresses,
         msgFees |-> ListsOf(AccountMsgFee), accountRenew |-> Numbers], {"broker"})
TransferDomainTx == Shape([domain |-> Texts, newAdmin |-> Addresses], {})
RenewDomainTx == Shape([domain |-> Texts], {})
DeleteDomainTx == Shape([domain |-> Texts], {})
RegisterAccountTx ==
  Shape([domain |-> Texts, name |-> Texts, owner |-> Addresses, targets |-> ListsOf(ChainAddressPair),
         broker |-> Addresses], {"broker"})
TransferAccountTx == Shape([domain |-> Texts, name |-> Texts, newOwner |-> Addresses], {})
ReplaceAccountTargetsTx ==
  Shape([domain |-> Texts, name |-> Texts, newTargets |-> ListsOf(ChainAddressPair)], {"name"})
DeleteAccountTx == Shape([domain |-> Texts, name |-> Texts], {})
DeleteAllAccountsTx == Shape([domain |-> Texts], {})
RenewAccountTx == Shape([domain |-> Texts, name |-> Texts], {})
AddAccountCertificateTx == Shape([domain |-> Texts, name |-> Texts, certificate |-> Blobs], {})
ReplaceAccountMsgFeesTx == Shape([domain |-> Texts, newMsgFees |-> ListsOf(AccountMsgFee)], {})
DeleteAccountCertificateTx == Shape([domain |-> Texts, name |-> Texts, certificateHash |-> Blobs], {})
CreateMultisignatureTx ==
  Shape([participants |-> ListsOf(Participant), activationThreshold |-> Numbers,
         adminThreshold |-> Numbers], {})
UpdateMultisignatureTx ==
  Shape([contractId |-> Ids, participants |-> ListsOf(Participant), activationThreshold |-> Numbers,
         adminThreshold |-> Numbers], {})
CreateEscrowTx ==
  Shape([sender |-> Addresses, arbiter |-> Addresses, recipient |-> Addresses,
         amounts |-> ListsOf(Amounts), timeout |-> Timestamps, memo |-> Memos], {"memo"})
ReleaseEscrowTx == Shape([escrowId |-> Ids, amounts |-> ListsOf(Amounts)], {})
ReturnEscrowTx == Shape([escrowId |-> Ids], {})
UpdateEscrowPartiesTx ==
  Shape([escrowId |-> Ids, sender |-> Addresses, arbiter |-> Addresses, recipient |-> Addresses],
        {"sender", "arbiter", "recipient"})
CreateProposalTx ==
  Shape([title |-> Texts, action |-> Listed(ProposalAction), description |-> Texts,
         electionRuleId |-> Ids, startTime |-> Numbers, author |-> Addresses], {})
VoteTx ==
  Shape([proposalId |-> Ids, selection |-> <<"yes", "no", "abstain">>, voter |-> Addresses], {"voter"})

BnsTx ==
  ("bcp/send" :> SendTransaction) @@ ("bcp/swap_offer" :> SwapOfferTransaction) @@
  ("bcp/swap_claim" :> SwapClaimTransaction) @@ ("bcp/swap_abort" :> SwapAbortTransaction) @@
  ("bns/register_username" :> RegisterUsernameTx) @@
  ("bns/update_targets_of_username" :> UpdateTargetsOfUsernameTx) @@
  ("bns/transfer_username" :> TransferUsernameTx) @@
  ("bns/update_account_configuration" :> UpdateAccountConfigurationTx) @@
  ("bns/register_domain" :> RegisterDomainTx) @@ ("bns/transfer_domain" :> TransferDomainTx) @@
  ("bns/renew_domain" :> RenewDomainTx) @@ ("bns/delete_domain" :> DeleteDomainTx) @@
  ("bns/register_account" :> RegisterAccountTx) @@ ("bns/transfer_account" :> TransferAccountTx) @@
  ("bns/replace_account_targets" :> ReplaceAccountTargetsTx) @@
  ("bns/delete_account" :> DeleteAccountTx) @@ ("bns/delete_all_accounts" :> DeleteAllAccountsTx) @@
  ("bns/renew_account" :> RenewAccountTx) @@ ("bns/add_account_certificate" :> AddAccountCertificateTx) @@
  ("bns/replace_account_msg_fees" :> ReplaceAccountMsgFeesTx) @@
  ("bns/delete_account_certificate" :> DeleteAccountCertificateTx) @@
  ("bns/create_multisignature_contract" :> CreateMultisignatureTx) @@
  ("bns/update_multisignature_contract" :> UpdateMultisignatureTx) @@
  ("bns/create_escrow" :> CreateEscrowTx) @@ ("bns/release_escrow" :> ReleaseEscrowTx) @@
  ("bns/return_escrow" :> ReturnEscrowTx) @@ ("bns/update_escrow_parties" :> UpdateEscrowPartiesTx) @@
  ("bns/create_proposal" :> CreateProposalTx) @@ ("bns/vote" :> VoteTx)

-----------------------------------------------------------------------------
(* What any transaction may carry besides: who pays the fee, and contracts.*)
Fee ==
  << <<>>,
     <<[tokens |-> Amount(1), payer |-> Addresses[2]]>>,
     <<[tokens |-> Amount(1)]>>,
     <<[payer |-> Addresses[1]]>> >>
Multisig == << <<>>, << <<>> >>, << <<1>> >>, << <<2, 1>> >> >>
=============================================================================
