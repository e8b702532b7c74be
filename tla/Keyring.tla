------------------------------ MODULE Keyring ------------------------------
(***************************************************************************)
(* A Keyring of iov-keycontrol and the wallets it holds.                   *)
(*                                                                         *)
(* A wallet derives identities from its secret (the Slip10 HD wallets) or  *)
(* takes them from a key pair of the caller (Ed25519Wallet).  The argument *)
(* of createIdentity is modelled by the identity it yields, Reach[w] being *)
(* the identities wallet w can yield; two HD wallets made from the same    *)
(* mnemonic reach the same identities.                                     *)
(*                                                                         *)
(* createIdentity() is asynchronous: `calls` holds the calls that are      *)
(* suspended in an await, everything between two awaits is one step.       *)
(* Key material and derivation paths are left out: a wallet keeps them for *)
(* exactly the identities it lists.                                        *)
(***************************************************************************)
EXTENDS Naturals, Sequences, FiniteSets

CONSTANTS
  WalletId,     \* ids of the wallets of the outside world
  HdWallets,    \* those that are Slip10Wallets, the others are Ed25519Wallets
  Identity,     \* (chain id, public key) pairs
  Reach,        \* Reach[w]: identities that wallet w can yield
  Label,        \* labels of wallets and identities
  NoLabel,      \* `undefined`
  Calls,        \* slots for concurrent calls of createIdentity
  MaxWallets    \* bound on the number of wallets added

ASSUME WalletAssumption ==
  /\ HdWallets \subseteq WalletId
  /\ Reach \in [WalletId -> SUBSET Identity]
  /\ NoLabel \in Label
  /\ MaxWallets \in Nat

VARIABLES
  wallets,      \* Keyring.wallets
  calls         \* calls[c]: a suspended createIdentity, or Idle

keyringVars == <<wallets, calls>>

(* Identity with its label, as both wallet types keep and serialize it. *)
Entry == [identity : Identity, label : Label]
Wallet == [id : WalletId, label : Label, identities : Seq(Entry)]

Idle == [stage |-> "idle"]
Call ==
  {Idle} \cup [stage : {"preview", "create"}, wallet : Nat, identity : Identity]
-----------------------------------------------------------------------------
IdentitiesOf(w) == {w.identities[n].identity : n \in DOMAIN w.identities}

HasUniqueIdentities(w) ==
  \A m, n \in DOMAIN w.identities :
    w.identities[m].identity = w.identities[n].identity => m = n

getAllIdentities(ws) == UNION {IdentitiesOf(ws[n]) : n \in DOMAIN ws}

(* Array.find: wallet n is the first one with the id, or with the identity. *)
getMutableWallet(ws, id, n) ==
  /\ ws[n].id = id
  /\ \A m \in 1 .. n - 1 : ws[m].id # id

getMutableWalletByIdentity(ws, i, n) ==
  /\ i \in IdentitiesOf(ws[n])
  /\ \A m \in 1 .. n - 1 : i \notin IdentitiesOf(ws[m])

(* ensureNoIdentityCollision does not throw. *)
NoIdentityCollision(ws, new) == getAllIdentities(ws) \cap new = {}

implementationId(w) == IF w.id \in HdWallets THEN "hd" ELSE "ed25519"

(* The data of a wallet are its id, its label and its labelled identities. *)
serialize(ws) ==
  [formatVersion |-> 1,
   wallets |-> [n \in DOMAIN ws |-> [implementationId |-> implementationId(ws[n]),
                                     data |-> ws[n]]]]

deserializeWallets(s) == [n \in DOMAIN s.wallets |-> s.wallets[n].data]

(* The constructor adds the wallets one by one, so that add() rejects the   *)
(* data when two of its wallets share an identity.                          *)
CanDeserialize(s) ==
  LET ws == deserializeWallets(s)
  IN /\ s.formatVersion = 1
     /\ \A n \in DOMAIN ws :
          /\ s.wallets[n].implementationId \in {"hd", "ed25519"}
          /\ NoIdentityCollision(SubSeq(ws, 1, n - 1), IdentitiesOf(ws[n]))

(* Mutant: the newest identity comes first. *)
PushIdentityMutant(ws, n, i) ==
  [ws EXCEPT ![n].identities = <<[identity |-> i, label |-> NoLabel]>> \o @]

PushIdentity(ws, n, i) ==
  [ws EXCEPT ![n].identities = Append(@, [identity |-> i, label |-> NoLabel])]

(* setIdentityLabel of a wallet. *)
RelabelIdentity(entries, i, l) ==
  [e \in DOMAIN entries |-> IF entries[e].identity = i
                            THEN [entries[e] EXCEPT !.label = l] ELSE entries[e]]

(* The wallet accepts the options of createIdentity and derives identity i. *)
previewIdentity(id, i) == i \in Reach[id]
-----------------------------------------------------------------------------
(* Wallets of the outside world: any number of their identities were        *)
(* created before, without labels; a wallet never creates one twice.        *)
OutsideWallet(w) ==
  /\ w.label = NoLabel
  /\ IdentitiesOf(w) \subseteq Reach[w.id]
  /\ HasUniqueIdentities(w)

NewWallets ==
  {w \in [id : WalletId, label : {NoLabel},
          identities : {<<>>} \cup {<<e>> : e \in [identity : Identity, label : {NoLabel}]}] :
     OutsideWallet(w)}

KeyringInit ==
  /\ wallets = <<>>
  /\ calls = [c \in Calls |-> Idle]

Add(w) ==
  /\ Len(wallets) < MaxWallets
  /\ NoIdentityCollision(wallets, IdentitiesOf(w))
  /\ wallets' = Append(wallets, w)
  /\ UNCHANGED calls

SetWalletLabel(id, l) ==
  /\ \E n \in DOMAIN wallets :
       /\ getMutableWallet(wallets, id, n)
       /\ wallets' = [wallets EXCEPT ![n].label = l]
  /\ UNCHANGED calls

(* Keyring.setIdentityLabel and setIdentityLabel of the wallet it finds. *)
SetIdentityLabel(i, l) ==
  /\ \E n \in DOMAIN wallets :
       /\ getMutableWalletByIdentity(wallets, i, n)
       /\ wallets' = [wallets EXCEPT ![n].identities = RelabelIdentity(@, i, l)]
  /\ UNCHANGED calls

(* createIdentity up to the await of previewIdentity. *)
CreateIdentity(c, id, i) ==
  /\ calls[c] = Idle
  /\ previewIdentity(id, i)
  /\ \E n \in DOMAIN wallets :
       /\ getMutableWallet(wallets, id, n)
       /\ calls' = [calls EXCEPT ![c] = [stage |-> "preview", wallet |-> n, identity |-> i]]
  /\ UNCHANGED wallets

(* Mutant: Ed25519Wallet awaits something before it stores the identity. *)
CreatePlainIdentityMutant(c) ==
  /\ calls[c].stage = "preview"
  /\ wallets[calls[c].wallet].id \notin HdWallets
  /\ NoIdentityCollision(wallets, {calls[c].identity})
  /\ calls' = [calls EXCEPT ![c].stage = "create"]
  /\ UNCHANGED wallets

(* The keyring compares the preview with all its identities and calls       *)
(* Ed25519Wallet.createIdentity, which stores it without another await.     *)
CreatePlainIdentity(c) ==
  /\ calls[c].stage = "preview"
  /\ wallets[calls[c].wallet].id \notin HdWallets
  /\ NoIdentityCollision(wallets, {calls[c].identity})
  /\ wallets' = PushIdentity(wallets, calls[c].wallet, calls[c].identity)
  /\ calls' = [calls EXCEPT ![c] = Idle]

(* The same check for a Slip10Wallet, whose createIdentity awaits the       *)
(* derivation of the identity once more.                                    *)
CreateIdentityChecked(c) ==
  /\ calls[c].stage = "preview"
  /\ wallets[calls[c].wallet].id \in HdWallets
  /\ NoIdentityCollision(wallets, {calls[c].identity})
  /\ calls' = [calls EXCEPT ![c].stage = "create"]
  /\ UNCHANGED wallets

(* Mutant: the HD wallet trusts the check of the keyring. *)
CreateIdentityStoredMutant(c) ==
  /\ calls[c].stage = "create"
  /\ wallets' = PushIdentity(wallets, calls[c].wallet, calls[c].identity)
  /\ calls' = [calls EXCEPT ![c] = Idle]

(* Slip10Wallet.createIdentity compares with its own identities only. *)
CreateIdentityStored(c) ==
  /\ calls[c].stage = "create"
  /\ calls[c].identity \notin IdentitiesOf(wallets[calls[c].wallet])
  /\ wallets' = PushIdentity(wallets, calls[c].wallet, calls[c].identity)
  /\ calls' = [calls EXCEPT ![c] = Idle]

(* One of the two checks throws and the promise is rejected. *)
CreateIdentityRejected(c) ==
  /\ \/ calls[c].stage = "preview" /\ ~NoIdentityCollision(wallets, {calls[c].identity})
     \/ calls[c].stage = "create" /\ calls[c].identity \in IdentitiesOf(wallets[calls[c].wallet])
  /\ calls' = [calls EXCEPT ![c] = Idle]
  /\ UNCHANGED wallets

(* A suspended call goes on. *)
CreateIdentityResumes(c) ==
  \/ CreatePlainIdentity(c)
  \/ CreateIdentityChecked(c)
  \/ CreateIdentityStored(c)
  \/ CreateIdentityRejected(c)

KeyringNext ==
  \/ \E w \in NewWallets : Add(w)
  \/ \E id \in WalletId, l \in Label : SetWalletLabel(id, l)
  \/ \E i \in Identity, l \in Label : SetIdentityLabel(i, l)
  \/ \E c \in Calls, id \in WalletId, i \in Identity : CreateIdentity(c, id, i)
  \/ \E c \in Calls : CreateIdentityResumes(c)

KeyringSpec == KeyringInit /\ [][KeyringNext]_keyringVars
-----------------------------------------------------------------------------
(* Types: wallets are well formed, a suspended call refers to a wallet that *)
(* is there and can yield the identity asked for.                           *)
KeyringTypeOK ==
  /\ wallets \in Seq(Wallet)
  /\ calls \in [Calls -> Call]
  /\ \A c \in Calls : calls[c] # Idle =>
       /\ calls[c].wallet \in DOMAIN wallets
       /\ calls[c].identity \in Reach[wallets[calls[c].wallet].id]

(* No wallet holds an identity twice, however the calls of createIdentity   *)
(* on it overlap: the last check and the push of both wallet types are one  *)
(* step.                                                                    *)
WalletIdentitiesUnique == \A n \in DOMAIN wallets : HasUniqueIdentities(wallets[n])

(* Two Ed25519Wallets never hold the same identity: the check of the        *)
(* keyring and the push are not separated by an await for them.             *)
PlainWalletsDisjoint ==
  \A m, n \in DOMAIN wallets :
    /\ m # n
    /\ {wallets[m].id, wallets[n].id} \cap HdWallets = {}
    => IdentitiesOf(wallets[m]) \cap IdentitiesOf(wallets[n]) = {}

(* "throws when the same identity is added twice" (keyring.spec.ts): an     *)
(* identity is in one wallet of the keyring at most.                        *)
NoDuplicateIdentity == CanDeserialize(serialize(wallets))

(* Wallets and identities are never removed or reordered and identities     *)
(* keep their wallet: positions that suspended calls hold stay valid.       *)
Extends(xs, ws) ==
  /\ Len(ws) <= Len(xs)
  /\ \A n \in DOMAIN ws :
       /\ xs[n].id = ws[n].id
       /\ Len(ws[n].identities) <= Len(xs[n].identities)
       /\ \A e \in DOMAIN ws[n].identities :
            xs[n].identities[e].identity = ws[n].identities[e].identity

KeyringOnlyGrows == [][Extends(wallets', wallets)]_keyringVars
=============================================================================
