----------------------------- MODULE MCKeyring -----------------------------
(* Two HD wallets of one mnemonic and two Ed25519 wallets that may be given *)
(* the key pair the mnemonic derives for the first path.                    *)
EXTENDS Keyring

CONSTANTS hd1, hd2, ed1, ed2, path1, path2, none

MCWalletId == {hd1, hd2, ed1, ed2}
MCHdWallets == {hd1, hd2}
MCIdentity == {path1, path2}
MCReach == [w \in MCWalletId |-> IF w \in MCHdWallets THEN MCIdentity ELSE {path1}]
MCLabel == {none, "label"}
=============================================================================
