----------------------------- MODULE BnsSchema ------------------------------
(***************************************************************************)
(* The message classes of codecimpl.js, one definition each: the fields in *)
(* the order encode writes them, with the field numbers decode switches on *)
(* and the writer and reader methods both use.  The members of a oneof are *)
(* ordinary fields to encode and decode.                                   *)
(***************************************************************************)
EXTENDS Protobuf

LOCAL M(name, id, schema) == Message(name, id, schema)
LOCAL Bytes(name, id) == Scalar(name, id, "bytes")
LOCAL Text(name, id) == Scalar(name, id, "string")
LOCAL Flag(name, id) == Scalar(name, id, "bool")
LOCAL I32(name, id) == Scalar(name, id, "int32")
LOCAL U32(name, id) == Scalar(name, id, "uint32")
LOCAL I64(name, id) == Scalar(name, id, "int64")
LOCAL U64(name, id) == Scalar(name, id, "uint64")

app_ResultSet == <<Many(Bytes("results", 1))>>

coin_Coin == <<I64("whole", 1), I64("fractional", 2), Text("ticker", 3)>>

cash_FeeInfo == <<Bytes("payer", 2), M("fees", 3, coin_Coin)>>

crypto_PublicKey == <<Bytes("ed25519", 1)>>

crypto_Signature == <<Bytes("ed25519", 1)>>

sigs_StdSignature == <<
  I64("sequence", 2), M("pubkey", 3, crypto_PublicKey),
  M("signature", 4, crypto_Signature)>>

weave_Metadata == <<U32("schema", 1)>>

cash_SendMsg == <<
  M("metadata", 1, weave_Metadata), Bytes("source", 2), Bytes("destination", 3),
  M("amount", 4, coin_Coin), Text("memo", 5), Bytes("ref", 6)>>

escrow_CreateMsg == <<
  M("metadata", 1, weave_Metadata), Bytes("source", 2), Bytes("arbiter", 3),
  Bytes("destination", 4), Many(M("amount", 5, coin_Coin)), I64("timeout", 6),
  Text("memo", 7)>>

escrow_ReleaseMsg == <<
  M("metadata", 1, weave_Metadata), Bytes("escrowId", 2),
  Many(M("amount", 3, coin_Coin))>>

escrow_ReturnMsg == <<M("metadata", 1, weave_Metadata), Bytes("escrowId", 2)>>

escrow_UpdatePartiesMsg == <<
  M("metadata", 1, weave_Metadata), Bytes("escrowId", 2), Bytes("source", 3),
  Bytes("arbiter", 4), Bytes("destination", 5)>>

multisig_Participant == <<Bytes("signature", 1), U32("weight", 2)>>

multisig_CreateMsg == <<
  M("metadata", 1, weave_Metadata), Many(M("participants", 2, multisig_Participant)),
  U32("activationThreshold", 3), U32("adminThreshold", 4)>>

multisig_UpdateMsg == <<
  M("metadata", 1, weave_Metadata), Bytes("contractId", 2),
  Many(M("participants", 3, multisig_Participant)), U32("activationThreshold", 4),
  U32("adminThreshold", 5)>>

weave_PubKey == <<Text("type", 1), Bytes("data", 2)>>

weave_ValidatorUpdate == <<M("pubKey", 1, weave_PubKey), I64("power", 2)>>

validators_ApplyDiffMsg == <<
  M("metadata", 1, weave_Metadata),
  Many(M("validatorUpdates", 2, weave_ValidatorUpdate))>>

currency_CreateMsg == <<
  M("metadata", 1, weave_Metadata), Text("ticker", 2), Text("name", 3)>>

username_BlockchainAddress == <<Text("blockchainId", 1), Text("address", 2)>>

username_RegisterTokenMsg == <<
  M("metadata", 1, weave_Metadata), Text("username", 2),
  Many(M("targets", 3, username_BlockchainAddress))>>

username_TransferTokenMsg == <<
  M("metadata", 1, weave_Metadata), Text("username", 2), Bytes("newOwner", 3)>>

username_ChangeTokenTargetsMsg == <<
  M("metadata", 1, weave_Metadata), Text("username", 2),
  Many(M("newTargets", 3, username_BlockchainAddress))>>

username_Configuration == <<
  M("metadata", 1, weave_Metadata), Bytes("owner", 2), Text("validUsernameName", 3),
  Text("validUsernameLabel", 4)>>

username_UpdateConfigurationMsg == <<
  M("metadata", 1, weave_Metadata), M("patch", 2, username_Configuration)>>

distribution_Destination == <<Bytes("address", 1), I32("weight", 2)>>

distribution_CreateMsg == <<
  M("metadata", 1, weave_Metadata), Bytes("admin", 2),
  Many(M("destinations", 3, distribution_Destination))>>

distribution_DistributeMsg == <<M("metadata", 1, weave_Metadata), Bytes("revenueId", 2)>>

distribution_ResetMsg == <<
  M("metadata", 1, weave_Metadata), Bytes("revenueId", 2),
  Many(M("destinations", 3, distribution_Destination))>>

msgfee_SetMsgFeeMsg == <<
  M("metadata", 1, weave_Metadata), Text("msgPath", 2), M("fee", 3, coin_Coin)>>

datamigration_ExecuteMigrationMsg == <<
  M("metadata", 1, weave_Metadata), Text("migrationId", 2)>>

account_Configuration == <<
  M("metadata", 1, weave_Metadata), Bytes("owner", 2), Text("validDomain", 3),
  Text("validName", 4), Text("validBlockchainId", 5), Text("validBlockchainAddress", 6),
  I64("domainRenew", 7), I64("domainGracePeriod", 8)>>

account_UpdateConfigurationMsg == <<
  M("metadata", 1, weave_Metadata), M("patch", 2, account_Configuration)>>

account_AccountMsgFee == <<Text("msgPath", 1), M("fee", 2, coin_Coin)>>

account_RegisterDomainMsg == <<
  M("metadata", 1, weave_Metadata), Text("domain", 2), Bytes("admin", 3),
  Flag("hasSuperuser", 4), Bytes("broker", 5),
  Many(M("msgFees", 6, account_AccountMsgFee)), I64("accountRenew", 7)>>

account_ReplaceAccountMsgFeesMsg == <<
  M("metadata", 1, weave_Metadata), Text("domain", 2),
  Many(M("newMsgFees", 6, account_AccountMsgFee))>>

account_TransferDomainMsg == <<
  M("metadata", 1, weave_Metadata), Text("domain", 2), Bytes("newAdmin", 3)>>

account_RenewDomainMsg == <<M("metadata", 1, weave_Metadata), Text("domain", 2)>>

account_DeleteDomainMsg == <<M("metadata", 1, weave_Metadata), Text("domain", 2)>>

account_BlockchainAddress == <<Text("blockchainId", 1), Text("address", 2)>>

account_RegisterAccountMsg == <<
  M("metadata", 1, weave_Metadata), Text("domain", 2), Text("name", 3),
  Bytes("owner", 4), Many(M("targets", 5, account_BlockchainAddress)),
  Bytes("broker", 6)>>

account_TransferAccountMsg == <<
  M("metadata", 1, weave_Metadata), Text("domain", 2), Text("name", 3),
  Bytes("newOwner", 4)>>

account_ReplaceAccountTargetsMsg == <<
  M("metadata", 1, weave_Metadata), Text("domain", 2), Text("name", 4),
  Many(M("newTargets", 5, account_BlockchainAddress))>>

account_DeleteAccountMsg == <<
  M("metadata", 1, weave_Metadata), Text("domain", 2), Text("name", 3)>>

account_FlushDomainMsg == <<M("metadata", 1, weave_Metadata), Text("domain", 2)>>

account_RenewAccountMsg == <<
  M("metadata", 1, weave_Metadata), Text("domain", 2), Text("name", 3)>>

account_AddAccountCertificateMsg == <<
  M("metadata", 1, weave_Metadata), Text("domain", 2), Text("name", 3),
  Bytes("certificate", 4)>>

account_DeleteAccountCertificateMsg == <<
  M("metadata", 1, weave_Metadata), Text("domain", 2), Text("name", 3),
  Bytes("certificateHash", 4)>>

cash_Configuration == <<
  M("metadata", 1, weave_Metadata), Bytes("owner", 2), Bytes("collectorAddress", 3),
  M("minimalFee", 4, coin_Coin)>>

cash_UpdateConfigurationMsg == <<
  M("metadata", 1, weave_Metadata), M("patch", 2, cash_Configuration)>>

txfee_Configuration == <<
  M("metadata", 1, weave_Metadata), Bytes("owner", 2), I32("freeBytes", 3),
  M("baseFee", 4, coin_Coin)>>

txfee_UpdateConfigurationMsg == <<
  M("metadata", 1, weave_Metadata), M("patch", 2, txfee_Configuration)>>

termdeposit_CreateDepositContractMsg == <<
  M("metadata", 1, weave_Metadata), I64("validSince", 2), I64("validUntil", 3)>>

termdeposit_DepositMsg == <<
  M("metadata", 1, weave_Metadata), Bytes("depositContractId", 2),
  M("amount", 3, coin_Coin), Bytes("depositor", 4)>>

termdeposit_ReleaseDepositMsg == <<
  M("metadata", 1, weave_Metadata), Bytes("depositId", 2)>>

weave_Fraction == <<U32("numerator", 1), U32("denominator", 2)>>

termdeposit_DepositBonus == <<I32("lockinPeriod", 1), M("bonus", 2, weave_Fraction)>>

termdeposit_CustomRate == <<Bytes("address", 1), M("rate", 2, weave_Fraction)>>

termdeposit_Configuration == <<
  M("metadata", 1, weave_Metadata), Bytes("owner", 2), Bytes("admin", 3),
  Many(M("bonuses", 4, termdeposit_DepositBonus)),
  Many(M("baseRates", 5, termdeposit_CustomRate))>>

termdeposit_UpdateConfigurationMsg == <<
  M("metadata", 1, weave_Metadata), M("patch", 2, termdeposit_Configuration)>>

qualityscore_Configuration == <<
  M("metadata", 1, weave_Metadata), Bytes("owner", 2), M("c", 3, weave_Fraction),
  M("k", 4, weave_Fraction), M("kp", 5, weave_Fraction), M("q0", 6, weave_Fraction),
  M("x", 7, weave_Fraction), M("xInf", 8, weave_Fraction), M("xSup", 9, weave_Fraction),
  M("delta", 10, weave_Fraction)>>

qualityscore_UpdateConfigurationMsg == <<
  M("metadata", 1, weave_Metadata), M("patch", 2, qualityscore_Configuration)>>

preregistration_Configuration == <<M("metadata", 1, weave_Metadata), Bytes("owner", 2)>>

preregistration_UpdateConfigurationMsg == <<
  M("metadata", 1, weave_Metadata), M("patch", 2, preregistration_Configuration)>>

msgfee_Configuration == <<
  M("metadata", 1, weave_Metadata), Bytes("owner", 2), Bytes("feeAdmin", 3)>>

msgfee_UpdateConfigurationMsg == <<
  M("metadata", 1, weave_Metadata), M("patch", 2, msgfee_Configuration)>>

bnsd_ExecuteBatchMsg_Union == <<
  M("cashSendMsg", 51, cash_SendMsg), M("escrowCreateMsg", 52, escrow_CreateMsg),
  M("escrowReleaseMsg", 53, escrow_ReleaseMsg),
  M("escrowReturnMsg", 54, escrow_ReturnMsg),
  M("escrowUpdatePartiesMsg", 55, escrow_UpdatePartiesMsg),
  M("multisigCreateMsg", 56, multisig_CreateMsg),
  M("multisigUpdateMsg", 57, multisig_UpdateMsg),
  M("validatorsApplyDiffMsg", 58, validators_ApplyDiffMsg),
  M("currencyCreateMsg", 59, currency_CreateMsg),
  M("usernameRegisterTokenMsg", 61, username_RegisterTokenMsg),
  M("usernameTransferTokenMsg", 62, username_TransferTokenMsg),
  M("usernameChangeTokenTargetsMsg", 63, username_ChangeTokenTargetsMsg),
  M("usernameUpdateConfigurationMsg", 64, username_UpdateConfigurationMsg),
  M("distributionCreateMsg", 66, distribution_CreateMsg),
  M("distributionMsg", 67, distribution_DistributeMsg),
  M("distributionResetMsg", 68, distribution_ResetMsg),
  M("msgfeeSetMsgFeeMsg", 80, msgfee_SetMsgFeeMsg),
  M("datamigrationExecuteMigrationMsg", 81, datamigration_ExecuteMigrationMsg),
  M("accountUpdateConfigurationMsg", 82, account_UpdateConfigurationMsg),
  M("accountRegisterDomainMsg", 83, account_RegisterDomainMsg),
  M("accountReplaceAccountMsgFeesMsg", 84, account_ReplaceAccountMsgFeesMsg),
  M("accountTransferDomainMsg", 85, account_TransferDomainMsg),
  M("accountRenewDomainMsg", 86, account_RenewDomainMsg),
  M("accountDeleteDomainMsg", 87, account_DeleteDomainMsg),
  M("accountRegisterAccountMsg", 88, account_RegisterAccountMsg),
  M("accountTransferAccountMsg", 89, account_TransferAccountMsg),
  M("accountReplaceAccountTargetsMsg", 90, account_ReplaceAccountTargetsMsg),
  M("accountDeleteAccountMsg", 91, account_DeleteAccountMsg),
  M("accountFlushDomainMsg", 92, account_FlushDomainMsg),
  M("accountRenewAccountMsg", 93, account_RenewAccountMsg),
  M("accountAddAccountCertificateMsg", 94, account_AddAccountCertificateMsg),
  M("accountDeleteAccountCertificateMsg", 95, account_DeleteAccountCertificateMsg),
  M("cashUpdateConfigurationMsg", 97, cash_UpdateConfigurationMsg),
  M("txfeeUpdateConfigurationMsg", 98, txfee_UpdateConfigurationMsg),
  M("termdepositCreateDepositContractMsg", 99, termdeposit_CreateDepositContractMsg),
  M("termdepositDepositMsg", 100, termdeposit_DepositMsg),
  M("termdepositReleaseDepositMsg", 101, termdeposit_ReleaseDepositMsg),
  M("termdepositUpdateConfigurationMsg", 102, termdeposit_UpdateConfigurationMsg),
  M("qualityscoreUpdateConfigurationMsg", 103, qualityscore_UpdateConfigurationMsg),
  M("preregistrationUpdateConfigurationMsg", 104, preregistration_UpdateConfigurationMsg),
  M("msgfeeUpdateConfigurationMsg", 105, msgfee_UpdateConfigurationMsg)>>

bnsd_ExecuteBatchMsg == <<Many(M("messages", 1, bnsd_ExecuteBatchMsg_Union))>>

migration_UpgradeSchemaMsg == <<
  M("metadata", 1, weave_Metadata), Text("pkg", 2), U32("toVersion", 3)>>

aswap_CreateMsg == <<
  M("metadata", 1, weave_Metadata), Bytes("source", 2), Bytes("preimageHash", 3),
  Bytes("destination", 4), Many(M("amount", 5, coin_Coin)), I64("timeout", 6),
  Text("memo", 7)>>

aswap_ReleaseMsg == <<
  M("metadata", 1, weave_Metadata), Bytes("swapId", 2), Bytes("preimage", 3)>>

aswap_ReturnMsg == <<M("metadata", 1, weave_Metadata), Bytes("swapId", 2)>>

gov_CreateProposalMsg == <<
  M("metadata", 1, weave_Metadata), Text("title", 2), Bytes("rawOption", 3),
  Text("description", 4), Bytes("electionRuleId", 5), I64("startTime", 6),
  Bytes("author", 7)>>

gov_DeleteProposalMsg == <<M("metadata", 1, weave_Metadata), Bytes("proposalId", 2)>>

gov_VoteMsg == <<
  M("metadata", 1, weave_Metadata), Bytes("proposalId", 2), Bytes("voter", 3),
  I32("selected", 4)>>

gov_Elector == <<Bytes("address", 1), U32("weight", 2)>>

gov_UpdateElectorateMsg == <<
  M("metadata", 1, weave_Metadata), Bytes("electorateId", 2),
  Many(M("diffElectors", 3, gov_Elector))>>

gov_Fraction == <<U32("numerator", 1), U32("denominator", 2)>>

gov_UpdateElectionRuleMsg == <<
  M("metadata", 1, weave_Metadata), Bytes("electionRuleId", 2), U32("votingPeriod", 3),
  M("threshold", 4, gov_Fraction), M("quorum", 5, gov_Fraction)>>

preregistration_RegisterMsg == <<
  M("metadata", 1, weave_Metadata), Text("domain", 2), Bytes("owner", 3)>>

bnsd_Tx == <<
  M("fees", 1, cash_FeeInfo), Many(M("signatures", 2, sigs_StdSignature)),
  Many(Bytes("multisig", 4)), M("cashSendMsg", 51, cash_SendMsg),
  M("escrowCreateMsg", 52, escrow_CreateMsg),
  M("escrowReleaseMsg", 53, escrow_ReleaseMsg),
  M("escrowReturnMsg", 54, escrow_ReturnMsg),
  M("escrowUpdatePartiesMsg", 55, escrow_UpdatePartiesMsg),
  M("multisigCreateMsg", 56, multisig_CreateMsg),
  M("multisigUpdateMsg", 57, multisig_UpdateMsg),
  M("validatorsApplyDiffMsg", 58, validators_ApplyDiffMsg),
  M("currencyCreateMsg", 59, currency_CreateMsg),
  M("executeBatchMsg", 60, bnsd_ExecuteBatchMsg),
  M("usernameRegisterTokenMsg", 61, username_RegisterTokenMsg),
  M("usernameTransferTokenMsg", 62, username_TransferTokenMsg),
  M("usernameChangeTokenTargetsMsg", 63, username_ChangeTokenTargetsMsg),
  M("usernameUpdateConfigurationMsg", 64, username_UpdateConfigurationMsg),
  M("distributionCreateMsg", 66, distribution_CreateMsg),
  M("distributionMsg", 67, distribution_DistributeMsg),
  M("distributionResetMsg", 68, distribution_ResetMsg),
  M("migrationUpgradeSchemaMsg", 69, migration_UpgradeSchemaMsg),
  M("aswapCreateMsg", 70, aswap_CreateMsg), M("aswapReleaseMsg", 71, aswap_ReleaseMsg),
  M("aswapReturnMsg", 72, aswap_ReturnMsg),
  M("govCreateProposalMsg", 73, gov_CreateProposalMsg),
  M("govDeleteProposalMsg", 74, gov_DeleteProposalMsg), M("govVoteMsg", 75, gov_VoteMsg),
  M("govUpdateElectorateMsg", 77, gov_UpdateElectorateMsg),
  M("govUpdateElectionRuleMsg", 78, gov_UpdateElectionRuleMsg),
  M("msgfeeSetMsgFeeMsg", 80, msgfee_SetMsgFeeMsg),
  M("datamigrationExecuteMigrationMsg", 81, datamigration_ExecuteMigrationMsg),
  M("accountUpdateConfigurationMsg", 82, account_UpdateConfigurationMsg),
  M("accountRegisterDomainMsg", 83, account_RegisterDomainMsg),
  M("accountReplaceAccountMsgFeesMsg", 84, account_ReplaceAccountMsgFeesMsg),
  M("accountTransferDomainMsg", 85, account_TransferDomainMsg),
  M("accountRenewDomainMsg", 86, account_RenewDomainMsg),
  M("accountDeleteDomainMsg", 87, account_DeleteDomainMsg),
  M("accountRegisterAccountMsg", 88, account_RegisterAccountMsg),
  M("accountTransferAccountMsg", 89, account_TransferAccountMsg),
  M("accountReplaceAccountTargetsMsg", 90, account_ReplaceAccountTargetsMsg),
  M("accountDeleteAccountMsg", 91, account_DeleteAccountMsg),
  M("accountFlushDomainMsg", 92, account_FlushDomainMsg),
  M("accountRenewAccountMsg", 93, account_RenewAccountMsg),
  M("accountAddAccountCertificateMsg", 94, account_AddAccountCertificateMsg),
  M("accountDeleteAccountCertificateMsg", 95, account_DeleteAccountCertificateMsg),
  M("preregistrationRegisterMsg", 96, preregistration_RegisterMsg),
  M("cashUpdateConfigurationMsg", 97, cash_UpdateConfigurationMsg),
  M("txfeeUpdateConfigurationMsg", 98, txfee_UpdateConfigurationMsg),
  M("termdepositCreateDepositContractMsg", 99, termdeposit_CreateDepositContractMsg),
  M("termdepositDepositMsg", 100, termdeposit_DepositMsg),
  M("termdepositReleaseDepositMsg", 101, termdeposit_ReleaseDepositMsg),
  M("termdepositUpdateConfigurationMsg", 102, termdeposit_UpdateConfigurationMsg),
  M("qualityscoreUpdateConfigurationMsg", 103, qualityscore_UpdateConfigurationMsg),
  M("preregistrationUpdateConfigurationMsg", 104, preregistration_UpdateConfigurationMsg),
  M("msgfeeUpdateConfigurationMsg", 105, msgfee_UpdateConfigurationMsg)>>

gov_CreateTextResolutionMsg == <<M("metadata", 1, weave_Metadata), Text("resolution", 2)>>

bnsd_ExecuteProposalBatchMsg_Union == <<
  M("sendMsg", 51, cash_SendMsg), M("escrowReleaseMsg", 53, escrow_ReleaseMsg),
  M("updateEscrowPartiesMsg", 55, escrow_UpdatePartiesMsg),
  M("multisigUpdateMsg", 57, multisig_UpdateMsg),
  M("validatorsApplyDiffMsg", 58, validators_ApplyDiffMsg),
  M("usernameRegisterTokenMsg", 61, username_RegisterTokenMsg),
  M("usernameTransferTokenMsg", 62, username_TransferTokenMsg),
  M("usernameChangeTokenTargetsMsg", 63, username_ChangeTokenTargetsMsg),
  M("usernameUpdateConfigurationMsg", 64, username_UpdateConfigurationMsg),
  M("distributionCreateMsg", 66, distribution_CreateMsg),
  M("distributionMsg", 67, distribution_DistributeMsg),
  M("distributionResetMsg", 68, distribution_ResetMsg),
  M("govUpdateElectorateMsg", 77, gov_UpdateElectorateMsg),
  M("govUpdateElectionRuleMsg", 78, gov_UpdateElectionRuleMsg),
  M("govCreateTextResolutionMsg", 79, gov_CreateTextResolutionMsg),
  M("msgfeeSetMsgFeeMsg", 80, msgfee_SetMsgFeeMsg),
  M("datamigrationExecuteMigrationMsg", 81, datamigration_ExecuteMigrationMsg),
  M("accountUpdateConfigurationMsg", 82, account_UpdateConfigurationMsg),
  M("accountRegisterDomainMsg", 83, account_RegisterDomainMsg),
  M("accountReplaceAccountMsgFeesMsg", 84, account_ReplaceAccountMsgFeesMsg),
  M("accountTransferDomainMsg", 85, account_TransferDomainMsg),
  M("accountRenewDomainMsg", 86, account_RenewDomainMsg),
  M("accountDeleteDomainMsg", 87, account_DeleteDomainMsg),
  M("accountRegisterAccountMsg", 88, account_RegisterAccountMsg),
  M("accountTransferAccountMsg", 89, account_TransferAccountMsg),
  M("accountReplaceAccountTargetsMsg", 90, account_ReplaceAccountTargetsMsg),
  M("accountDeleteAccountMsg", 91, account_DeleteAccountMsg),
  M("accountFlushDomainMsg", 92, account_FlushDomainMsg),
  M("accountRenewAccountMsg", 93, account_RenewAccountMsg),
  M("accountAddAccountCertificateMsg", 94, account_AddAccountCertificateMsg),
  M("accountDeleteAccountCertificateMsg", 95, account_DeleteAccountCertificateMsg),
  M("cashUpdateConfigurationMsg", 97, cash_UpdateConfigurationMsg),
  M("txfeeUpdateConfigurationMsg", 98, txfee_UpdateConfigurationMsg),
  M("termdepositCreateDepositContractMsg", 99, termdeposit_CreateDepositContractMsg),
  M("termdepositDepositMsg", 100, termdeposit_DepositMsg),
  M("termdepositReleaseDepositMsg", 101, termdeposit_ReleaseDepositMsg),
  M("termdepositUpdateConfigurationMsg", 102, termdeposit_UpdateConfigurationMsg),
  M("qualityscoreUpdateConfigurationMsg", 103, qualityscore_UpdateConfigurationMsg),
  M("preregistrationUpdateConfigurationMsg", 104, preregistration_UpdateConfigurationMsg),
  M("msgfeeUpdateConfigurationMsg", 105, msgfee_UpdateConfigurationMsg)>>

bnsd_ExecuteProposalBatchMsg == <<
  Many(M("messages", 1, bnsd_ExecuteProposalBatchMsg_Union))>>

bnsd_ProposalOptions == <<
  M("cashSendMsg", 51, cash_SendMsg), M("escrowReleaseMsg", 53, escrow_ReleaseMsg),
  M("updateEscrowPartiesMsg", 55, escrow_UpdatePartiesMsg),
  M("multisigUpdateMsg", 57, multisig_UpdateMsg),
  M("validatorsApplyDiffMsg", 58, validators_ApplyDiffMsg),
  M("currencyCreateMsg", 59, currency_CreateMsg),
  M("executeProposalBatchMsg", 60, bnsd_ExecuteProposalBatchMsg),
  M("usernameRegisterTokenMsg", 61, username_RegisterTokenMsg),
  M("usernameTransferTokenMsg", 62, username_TransferTokenMsg),
  M("usernameChangeTokenTargetsMsg", 63, username_ChangeTokenTargetsMsg),
  M("usernameUpdateConfigurationMsg", 64, username_UpdateConfigurationMsg),
  M("distributionCreateMsg", 66, distribution_CreateMsg),
  M("distributionMsg", 67, distribution_DistributeMsg),
  M("distributionResetMsg", 68, distribution_ResetMsg),
  M("migrationUpgradeSchemaMsg", 69, migration_UpgradeSchemaMsg),
  M("govUpdateElectorateMsg", 77, gov_UpdateElectorateMsg),
  M("govUpdateElectionRuleMsg", 78, gov_UpdateElectionRuleMsg),
  M("govCreateTextResolutionMsg", 79, gov_CreateTextResolutionMsg),
  M("msgfeeSetMsgFeeMsg", 80, msgfee_SetMsgFeeMsg),
  M("datamigrationExecuteMigrationMsg", 81, datamigration_ExecuteMigrationMsg),
  M("accountUpdateConfigurationMsg", 82, account_UpdateConfigurationMsg),
  M("accountRegisterDomainMsg", 83, account_RegisterDomainMsg),
  M("accountReplaceAccountMsgFeesMsg", 84, account_ReplaceAccountMsgFeesMsg),
  M("accountTransferDomainMsg", 85, account_TransferDomainMsg),
  M("accountRenewDomainMsg", 86, account_RenewDomainMsg),
  M("accountDeleteDomainMsg", 87, account_DeleteDomainMsg),
  M("accountRegisterAccountMsg", 88, account_RegisterAccountMsg),
  M("accountTransferAccountMsg", 89, account_TransferAccountMsg),
  M("accountReplaceAccountTargetsMsg", 90, account_ReplaceAccountTargetsMsg),
  M("accountDeleteAccountMsg", 91, account_DeleteAccountMsg),
  M("accountFlushDomainMsg", 92, account_FlushDomainMsg),
  M("accountRenewAccountMsg", 93, account_RenewAccountMsg),
  M("accountAddAccountCertificateMsg", 94, account_AddAccountCertificateMsg),
  M("accountDeleteAccountCertificateMsg", 95, account_DeleteAccountCertificateMsg),
  M("cashUpdateConfigurationMsg", 97, cash_UpdateConfigurationMsg),
  M("txfeeUpdateConfigurationMsg", 98, txfee_UpdateConfigurationMsg),
  M("termdepositCreateDepositContractMsg", 99, termdeposit_CreateDepositContractMsg),
  M("termdepositDepositMsg", 100, termdeposit_DepositMsg),
  M("termdepositReleaseDepositMsg", 101, termdeposit_ReleaseDepositMsg),
  M("termdepositUpdateConfigurationMsg", 102, termdeposit_UpdateConfigurationMsg),
  M("qualityscoreUpdateConfigurationMsg", 103, qualityscore_UpdateConfigurationMsg),
  M("preregistrationUpdateConfigurationMsg", 104, preregistration_UpdateConfigurationMsg),
  M("msgfeeUpdateConfigurationMsg", 105, msgfee_UpdateConfigurationMsg)>>

gov_TallyMsg == <<M("metadata", 1, weave_Metadata), Bytes("proposalId", 2)>>

bnsd_CronTask == <<
  Many(Bytes("authenticators", 1)), M("escrowReleaseMsg", 53, escrow_ReleaseMsg),
  M("escrowReturnMsg", 54, escrow_ReturnMsg),
  M("distributionDistributeMsg", 67, distribution_DistributeMsg),
  M("aswapReleaseMsg", 71, aswap_ReleaseMsg), M("govTallyMsg", 76, gov_TallyMsg)>>

account_Domain == <<
  M("metadata", 1, weave_Metadata), Text("domain", 2), Bytes("admin", 3),
  I64("validUntil", 4), Flag("hasSuperuser", 5),
  Many(M("msgFees", 6, account_AccountMsgFee)), I64("accountRenew", 7),
  Bytes("broker", 8)>>

account_Account == <<
  M("metadata", 1, weave_Metadata), Text("domain", 2), Text("name", 3),
  Bytes("owner", 4), I64("validUntil", 5),
  Many(M("targets", 6, account_BlockchainAddress)), Many(Bytes("certificates", 7)),
  Bytes("broker", 8)>>

preregistration_Record == <<
  M("metadata", 1, weave_Metadata), Text("domain", 2), Bytes("owner", 3)>>

termdeposit_DepositContract == <<
  M("metadata", 1, weave_Metadata), I64("validSince", 2), I64("validUntil", 3)>>

termdeposit_Deposit == <<
  M("metadata", 1, weave_Metadata), Bytes("depositContractId", 2),
  M("amount", 3, coin_Coin), M("rate", 4, weave_Fraction), Bytes("depositor", 5),
  Flag("released", 6), I64("createdAt", 7)>>

username_Token == <<
  M("metadata", 1, weave_Metadata), Many(M("targets", 2, username_BlockchainAddress)),
  Bytes("owner", 3)>>

weave_ValidatorUpdates == <<Many(M("validatorUpdates", 1, weave_ValidatorUpdate))>>

crypto_PrivateKey == <<Bytes("ed25519", 1)>>

datamigration_ExecutedMigration == <<M("metadata", 1, weave_Metadata)>>

migration_Configuration == <<Bytes("admin", 2)>>

migration_Schema == <<
  M("metadata", 1, weave_Metadata), Text("pkg", 2), U32("version", 3)>>

orm_MultiRef == <<Many(Bytes("refs", 1))>>

orm_Counter == <<I64("count", 1)>>

orm_VersionedIDRef == <<Bytes("id", 4), U32("version", 5)>>

orm_CounterWithID == <<Bytes("primaryKey", 1), I64("count", 2)>>

aswap_Swap == <<
  M("metadata", 1, weave_Metadata), Bytes("preimageHash", 2), Bytes("source", 3),
  Bytes("destination", 5), I64("timeout", 6), Text("memo", 7), Bytes("address", 8)>>

batch_ByteArrayList == <<Many(Bytes("elements", 1))>>

cash_Set == <<M("metadata", 1, weave_Metadata), Many(M("coins", 2, coin_Coin))>>

cron_TaskResult == <<
  M("metadata", 1, weave_Metadata), Flag("successful", 2), Text("info", 3),
  I64("execTime", 4), I64("execHeight", 5)>>

currency_TokenInfo == <<M("metadata", 1, weave_Metadata), Text("name", 2)>>

distribution_Revenue == <<
  M("metadata", 1, weave_Metadata), Bytes("admin", 2),
  Many(M("destinations", 3, distribution_Destination)), Bytes("address", 4)>>

escrow_Escrow == <<
  M("metadata", 1, weave_Metadata), Bytes("source", 2), Bytes("arbiter", 3),
  Bytes("destination", 4), I64("timeout", 5), Text("memo", 6), Bytes("address", 7)>>

gov_Electorate == <<
  M("metadata", 1, weave_Metadata), U32("version", 2), Bytes("admin", 3),
  Text("title", 4), Many(M("electors", 5, gov_Elector)),
  U64("totalElectorateWeight", 6)>>

gov_ElectionRule == <<
  M("metadata", 1, weave_Metadata), U32("version", 2), Bytes("admin", 3),
  Bytes("electorateId", 4), Text("title", 5), U32("votingPeriod", 6),
  M("threshold", 7, gov_Fraction), M("quorum", 8, gov_Fraction), Bytes("address", 9)>>

gov_TallyResult == <<
  U64("totalYes", 1), U64("totalNo", 2), U64("totalAbstain", 3),
  U64("totalElectorateWeight", 4), M("quorum", 5, gov_Fraction),
  M("threshold", 6, gov_Fraction)>>

gov_Proposal == <<
  M("metadata", 1, weave_Metadata), Text("title", 2), Bytes("rawOption", 3),
  Text("description", 4), M("electionRuleRef", 5, orm_VersionedIDRef),
  M("electorateRef", 6, orm_VersionedIDRef), I64("votingStartTime", 7),
  I64("votingEndTime", 8), I64("submissionTime", 9), Bytes("author", 10),
  M("voteState", 11, gov_TallyResult), I32("status", 12), I32("result", 13),
  I32("executorResult", 14), Bytes("tallyTaskId", 15)>>

gov_Resolution == <<
  M("metadata", 1, weave_Metadata), Bytes("proposalId", 2),
  M("electorateRef", 3, orm_VersionedIDRef), Text("resolution", 4)>>

gov_Vote == <<
  M("metadata", 1, weave_Metadata), M("elector", 2, gov_Elector), I32("voted", 3)>>

gov_ProposalOptions == <<
  M("text", 1, gov_CreateTextResolutionMsg), M("electorate", 2, gov_UpdateElectorateMsg),
  M("rule", 3, gov_UpdateElectionRuleMsg)>>

msgfee_MsgFee == <<
  M("metadata", 1, weave_Metadata), Text("msgPath", 2), M("fee", 3, coin_Coin)>>

multisig_Contract == <<
  M("metadata", 1, weave_Metadata), Many(M("participants", 2, multisig_Participant)),
  U32("activationThreshold", 3), U32("adminThreshold", 4), Bytes("address", 5)>>

paychan_PaymentChannel == <<
  M("metadata", 1, weave_Metadata), Bytes("source", 2),
  M("sourcePubkey", 3, crypto_PublicKey), Bytes("destination", 4),
  M("total", 5, coin_Coin), I64("timeout", 6), Text("memo", 7),
  M("transferred", 8, coin_Coin), Bytes("address", 9)>>

paychan_CreateMsg == <<
  M("metadata", 1, weave_Metadata), Bytes("source", 2),
  M("sourcePubkey", 3, crypto_PublicKey), Bytes("destination", 4),
  M("total", 5, coin_Coin), I64("timeout", 6), Text("memo", 7)>>

paychan_Payment == <<
  Text("chainId", 1), Bytes("channelId", 2), M("amount", 3, coin_Coin), Text("memo", 4)>>

paychan_TransferMsg == <<
  M("metadata", 1, weave_Metadata), M("payment", 2, paychan_Payment),
  M("signature", 3, crypto_Signature)>>

paychan_CloseMsg == <<
  M("metadata", 1, weave_Metadata), Bytes("channelId", 2), Text("memo", 3)>>

sigs_UserData == <<
  M("metadata", 1, weave_Metadata), M("pubkey", 2, crypto_PublicKey),
  I64("sequence", 3)>>

sigs_BumpSequenceMsg == <<
  M("metadata", 1, weave_Metadata), U32("increment", 2), Bytes("user", 3)>>

validators_Accounts == <<M("metadata", 1, weave_Metadata), Many(Bytes("addresses", 2))>>

(* Every class by its name.                                                *)
BnsClasses == [
  app_ResultSet |-> app_ResultSet, coin_Coin |-> coin_Coin, cash_FeeInfo |-> cash_FeeInfo,
  crypto_PublicKey |-> crypto_PublicKey, crypto_Signature |-> crypto_Signature,
  sigs_StdSignature |-> sigs_StdSignature, weave_Metadata |-> weave_Metadata,
  cash_SendMsg |-> cash_SendMsg, escrow_CreateMsg |-> escrow_CreateMsg,
  escrow_ReleaseMsg |-> escrow_ReleaseMsg, escrow_ReturnMsg |-> escrow_ReturnMsg,
  escrow_UpdatePartiesMsg |-> escrow_UpdatePartiesMsg,
  multisig_Participant |-> multisig_Participant, multisig_CreateMsg |-> multisig_CreateMsg,
  multisig_UpdateMsg |-> multisig_UpdateMsg, weave_PubKey |-> weave_PubKey,
  weave_ValidatorUpdate |-> weave_ValidatorUpdate,
  validators_ApplyDiffMsg |-> validators_ApplyDiffMsg,
  currency_CreateMsg |-> currency_CreateMsg,
  username_BlockchainAddress |-> username_BlockchainAddress,
  username_RegisterTokenMsg |-> username_RegisterTokenMsg,
  username_TransferTokenMsg |-> username_TransferTokenMsg,
  username_ChangeTokenTargetsMsg |-> username_ChangeTokenTargetsMsg,
  username_Configuration |-> username_Configuration,
  username_UpdateConfigurationMsg |-> username_UpdateConfigurationMsg,
  distribution_Destination |-> distribution_Destination,
  distribution_CreateMsg |-> distribution_CreateMsg,
  distribution_DistributeMsg |-> distribution_DistributeMsg,
  distribution_ResetMsg |-> distribution_ResetMsg,
  msgfee_SetMsgFeeMsg |-> msgfee_SetMsgFeeMsg,
  datamigration_ExecuteMigrationMsg |-> datamigration_ExecuteMigrationMsg,
  account_Configuration |-> account_Configuration,
  account_UpdateConfigurationMsg |-> account_UpdateConfigurationMsg,
  account_AccountMsgFee |-> account_AccountMsgFee,
  account_RegisterDomainMsg |-> account_RegisterDomainMsg,
  account_ReplaceAccountMsgFeesMsg |-> account_ReplaceAccountMsgFeesMsg,
  account_TransferDomainMsg |-> account_TransferDomainMsg,
  account_RenewDomainMsg |-> account_RenewDomainMsg,
  account_DeleteDomainMsg |-> account_DeleteDomainMsg,
  account_BlockchainAddress |-> account_BlockchainAddress,
  account_RegisterAccountMsg |-> account_RegisterAccountMsg,
  account_TransferAccountMsg |-> account_TransferAccountMsg,
  account_ReplaceAccountTargetsMsg |-> account_ReplaceAccountTargetsMsg,
  account_DeleteAccountMsg |-> account_DeleteAccountMsg,
  account_FlushDomainMsg |-> account_FlushDomainMsg,
  account_RenewAccountMsg |-> account_RenewAccountMsg,
  account_AddAccountCertificateMsg |-> account_AddAccountCertificateMsg,
  account_DeleteAccountCertificateMsg |-> account_DeleteAccountCertificateMsg,
  cash_Configuration |-> cash_Configuration,
  cash_UpdateConfigurationMsg |-> cash_UpdateConfigurationMsg,
  txfee_Configuration |-> txfee_Configuration,
  txfee_UpdateConfigurationMsg |-> txfee_UpdateConfigurationMsg,
  termdeposit_CreateDepositContractMsg |-> termdeposit_CreateDepositContractMsg,
  termdeposit_DepositMsg |-> termdeposit_DepositMsg,
  termdeposit_ReleaseDepositMsg |-> termdeposit_ReleaseDepositMsg,
  weave_Fraction |-> weave_Fraction, termdeposit_DepositBonus |-> termdeposit_DepositBonus,
  termdeposit_CustomRate |-> termdeposit_CustomRate,
  termdeposit_Configuration |-> termdeposit_Configuration,
  termdeposit_UpdateConfigurationMsg |-> termdeposit_UpdateConfigurationMsg,
  qualityscore_Configuration |-> qualityscore_Configuration,
  qualityscore_UpdateConfigurationMsg |-> qualityscore_UpdateConfigurationMsg,
  preregistration_Configuration |-> preregistration_Configuration,
  preregistration_UpdateConfigurationMsg |-> preregistration_UpdateConfigurationMsg,
  msgfee_Configuration |-> msgfee_Configuration,
  msgfee_UpdateConfigurationMsg |-> msgfee_UpdateConfigurationMsg,
  bnsd_ExecuteBatchMsg_Union |-> bnsd_ExecuteBatchMsg_Union,
  bnsd_ExecuteBatchMsg |-> bnsd_ExecuteBatchMsg,
  migration_UpgradeSchemaMsg |-> migration_UpgradeSchemaMsg,
  aswap_CreateMsg |-> aswap_CreateMsg, aswap_ReleaseMsg |-> aswap_ReleaseMsg,
  aswap_ReturnMsg |-> aswap_ReturnMsg, gov_CreateProposalMsg |-> gov_CreateProposalMsg,
  gov_DeleteProposalMsg |-> gov_DeleteProposalMsg, gov_VoteMsg |-> gov_VoteMsg,
  gov_Elector |-> gov_Elector, gov_UpdateElectorateMsg |-> gov_UpdateElectorateMsg,
  gov_Fraction |-> gov_Fraction, gov_UpdateElectionRuleMsg |-> gov_UpdateElectionRuleMsg,
  preregistration_RegisterMsg |-> preregistration_RegisterMsg, bnsd_Tx |-> bnsd_Tx,
  gov_CreateTextResolutionMsg |-> gov_CreateTextResolutionMsg,
  bnsd_ExecuteProposalBatchMsg_Union |-> bnsd_ExecuteProposalBatchMsg_Union,
  bnsd_ExecuteProposalBatchMsg |-> bnsd_ExecuteProposalBatchMsg,
  bnsd_ProposalOptions |-> bnsd_ProposalOptions, gov_TallyMsg |-> gov_TallyMsg,
  bnsd_CronTask |-> bnsd_CronTask, account_Domain |-> account_Domain,
  account_Account |-> account_Account, preregistration_Record |-> preregistration_Record,
  termdeposit_DepositContract |-> termdeposit_DepositContract,
  termdeposit_Deposit |-> termdeposit_Deposit, username_Token |-> username_Token,
  weave_ValidatorUpdates |-> weave_ValidatorUpdates,
  crypto_PrivateKey |-> crypto_PrivateKey,
  datamigration_ExecutedMigration |-> datamigration_ExecutedMigration,
  migration_Configuration |-> migration_Configuration,
  migration_Schema |-> migration_Schema, orm_MultiRef |-> orm_MultiRef,
  orm_Counter |-> orm_Counter, orm_VersionedIDRef |-> orm_VersionedIDRef,
  orm_CounterWithID |-> orm_CounterWithID, aswap_Swap |-> aswap_Swap,
  batch_ByteArrayList |-> batch_ByteArrayList, cash_Set |-> cash_Set,
  cron_TaskResult |-> cron_TaskResult, currency_TokenInfo |-> currency_TokenInfo,
  distribution_Revenue |-> distribution_Revenue, escrow_Escrow |-> escrow_Escrow,
  gov_Electorate |-> gov_Electorate, gov_ElectionRule |-> gov_ElectionRule,
  gov_TallyResult |-> gov_TallyResult, gov_Proposal |-> gov_Proposal,
  gov_Resolution |-> gov_Resolution, gov_Vote |-> gov_Vote,
  gov_ProposalOptions |-> gov_ProposalOptions, msgfee_MsgFee |-> msgfee_MsgFee,
  multisig_Contract |-> multisig_Contract,
  paychan_PaymentChannel |-> paychan_PaymentChannel,
  paychan_CreateMsg |-> paychan_CreateMsg, paychan_Payment |-> paychan_Payment,
  paychan_TransferMsg |-> paychan_TransferMsg, paychan_CloseMsg |-> paychan_CloseMsg,
  sigs_UserData |-> sigs_UserData, sigs_BumpSequenceMsg |-> sigs_BumpSequenceMsg,
  validators_Accounts |-> validators_Accounts]
=============================================================================
