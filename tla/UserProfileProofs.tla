------------------------- MODULE UserProfileProofs -------------------------
(***************************************************************************)
(* Proofs about the keyring for any wallets, identities and number of      *)
(* overlapping createIdentity() calls, and about the user profile and its  *)
(* storage for any passwords and number of overlapping storeIn() calls.    *)
(***************************************************************************)
EXTENDS UserProfile, TLAPS, SequenceTheorems

-----------------------------------------------------------------------------
(* The keyring (Keyring). *)

(* A new wallet has the type of a wallet. *)
LEMMA NewWalletType == NewWallets \subseteq Wallet
<1> SUFFICES ASSUME NEW w \in NewWallets PROVE w \in Wallet
  OBVIOUS
<1>1. PICK ids \in {<<>>} \cup {<<e>> : e \in [identity : Identity, label : {NoLabel}]} :
          w.identities = ids
  BY DEF NewWallets
<1>2. w.identities \in Seq(Entry)
  <2>1. CASE ids = <<>>
    BY <1>1, <2>1
  <2>2. CASE ids # <<>>
    <3>1. PICK e \in [identity : Identity, label : {NoLabel}] : ids = <<e>>
      BY <2>2
    <3>2. e \in Entry
      BY <3>1, WalletAssumption DEF Entry
    <3> QED
      BY <1>1, <3>1, <3>2
  <2> QED
    BY <2>1, <2>2
<1>3. /\ w = [id |-> w.id, label |-> w.label, identities |-> w.identities]
      /\ w.id \in WalletId /\ w.label \in Label
  BY WalletAssumption DEF NewWallets
<1> QED
  BY <1>2, <1>3 DEF Wallet

(* Pushing an identity appends to one wallet and leaves the rest alone. *)
LEMMA PushedWallets ==
  ASSUME NEW ws \in Seq(Wallet), NEW n \in DOMAIN ws, NEW i \in Identity
  PROVE  /\ PushIdentity(ws, n, i) \in Seq(Wallet)
         /\ DOMAIN PushIdentity(ws, n, i) = DOMAIN ws
         /\ Len(PushIdentity(ws, n, i)) = Len(ws)
         /\ PushIdentity(ws, n, i)[n].id = ws[n].id
         /\ PushIdentity(ws, n, i)[n].label = ws[n].label
         /\ PushIdentity(ws, n, i)[n].identities =
              Append(ws[n].identities, [identity |-> i, label |-> NoLabel])
         /\ \A m \in DOMAIN ws : m # n => PushIdentity(ws, n, i)[m] = ws[m]
<1> DEFINE e == [identity |-> i, label |-> NoLabel]
           v == [ws[n] EXCEPT !.identities = Append(@, e)]
<1>1. PushIdentity(ws, n, i) = [ws EXCEPT ![n] = v]
  BY DEF PushIdentity
<1>2. ws[n] \in Wallet /\ e \in Entry
  BY WalletAssumption DEF Entry
<1> HIDE DEF e
<1>3. v \in Wallet /\ v.id = ws[n].id /\ v.label = ws[n].label /\ v.identities = Append(ws[n].identities, e)
  <2>1. ws[n].identities \in Seq(Entry)
    BY <1>2 DEF Wallet
  <2>2. Append(ws[n].identities, e) \in Seq(Entry)
    BY <1>2, <2>1
  <2> QED
    BY <1>2, <2>2 DEF Wallet
<1> HIDE DEF v
<1>4. /\ [ws EXCEPT ![n] = v] \in Seq(Wallet)
      /\ DOMAIN [ws EXCEPT ![n] = v] = DOMAIN ws
      /\ Len([ws EXCEPT ![n] = v]) = Len(ws)
      /\ [ws EXCEPT ![n] = v][n] = v
      /\ \A m \in DOMAIN ws : m # n => [ws EXCEPT ![n] = v][m] = ws[m]
  BY <1>3
<1> QED
  BY <1>1, <1>3, <1>4 DEF e

(* The identities after a push. *)
LEMMA PushedIdentities ==
  ASSUME NEW w \in Wallet, NEW x \in Wallet, NEW i \in Identity,
         x.identities = Append(w.identities, [identity |-> i, label |-> NoLabel])
  PROVE  IdentitiesOf(x) = IdentitiesOf(w) \cup {i}
<1> DEFINE e == [identity |-> i, label |-> NoLabel]
<1>1. w.identities \in Seq(Entry) /\ e \in Entry
  BY WalletAssumption DEF Wallet, Entry
<1>2. DOMAIN x.identities = DOMAIN w.identities \cup {Len(w.identities) + 1}
  BY <1>1
<1>3. /\ x.identities[Len(w.identities) + 1] = e
      /\ \A k \in DOMAIN w.identities : x.identities[k] = w.identities[k]
  BY <1>1
<1> QED
  BY <1>2, <1>3 DEF IdentitiesOf
-----------------------------------------------------------------------------
(* Behind PlainWalletsDisjoint: only HD wallets are left to store an        *)
(* identity after an await that follows the check of the keyring.           *)
OnlyHdWalletsAwait ==
  \A c \in Calls : calls[c].stage = "create" => wallets[calls[c].wallet].id \in HdWallets

KeyringInv ==
  /\ KeyringTypeOK
  /\ OnlyHdWalletsAwait
  /\ WalletIdentitiesUnique
  /\ PlainWalletsDisjoint

(* Wallets that differ in labels only. *)
SameIdentities(w, x) ==
  /\ x.id = w.id
  /\ DOMAIN x.identities = DOMAIN w.identities
  /\ \A e \in DOMAIN w.identities : x.identities[e].identity = w.identities[e].identity

(* A suspended call points to a wallet and to an identity of its reach. *)
LEMMA SuspendedCall ==
  ASSUME KeyringTypeOK, NEW c \in Calls, calls[c].stage \in {"preview", "create"}
  PROVE  /\ calls[c] \in [stage : {"preview", "create"}, wallet : Nat, identity : Identity]
         /\ calls[c].wallet \in DOMAIN wallets
         /\ calls[c].identity \in Reach[wallets[calls[c].wallet].id]
         /\ calls[c].identity \in Identity
<1>1. calls[c] # Idle /\ calls[c] \in Call
  BY DEF Idle, KeyringTypeOK
<1> QED
  BY <1>1 DEF KeyringTypeOK, Call

(* Setting labels preserves the invariant. *)
LEMMA LabelsKeepInv ==
  ASSUME KeyringInv, wallets' \in Seq(Wallet), Len(wallets') = Len(wallets), calls' = calls,
         \A n \in DOMAIN wallets : SameIdentities(wallets[n], wallets'[n])
  PROVE  KeyringInv' /\ Extends(wallets', wallets)
<1>1. DOMAIN wallets' = DOMAIN wallets
  BY DEF KeyringInv, KeyringTypeOK
<1>2. \A n \in DOMAIN wallets :
        /\ wallets'[n].id = wallets[n].id
        /\ IdentitiesOf(wallets'[n]) = IdentitiesOf(wallets[n])
        /\ HasUniqueIdentities(wallets[n]) => HasUniqueIdentities(wallets'[n])
  BY DEF SameIdentities, IdentitiesOf, HasUniqueIdentities
<1>3. KeyringTypeOK'
  BY <1>1, <1>2 DEF KeyringInv, KeyringTypeOK
<1>4. OnlyHdWalletsAwait'
  BY <1>2, SuspendedCall DEF KeyringInv, OnlyHdWalletsAwait
<1>5. WalletIdentitiesUnique'
  BY <1>1, <1>2 DEF KeyringInv, WalletIdentitiesUnique
<1>6. PlainWalletsDisjoint'
  BY <1>1, <1>2 DEF KeyringInv, PlainWalletsDisjoint
<1>7. Extends(wallets', wallets)
  <2>1. \A n \in DOMAIN wallets : wallets[n] \in Wallet /\ wallets'[n] \in Wallet
    BY <1>1 DEF KeyringInv, KeyringTypeOK
  <2>2. \A n \in DOMAIN wallets : Len(wallets[n].identities) = Len(wallets'[n].identities)
    BY <2>1 DEF SameIdentities, Wallet
  <2>3. \A n \in DOMAIN wallets : Len(wallets[n].identities) \in Nat
    BY <2>1 DEF Wallet
  <2> QED
    BY <2>2, <2>3 DEF SameIdentities, Extends, KeyringInv, KeyringTypeOK
<1> QED
  BY <1>3, <1>4, <1>5, <1>6, <1>7 DEF KeyringInv

(* Storing a new identity preserves the invariant: the wallet must not have *)
(* it, and no other wallet either unless this one is an HD wallet.          *)
LEMMA PushKeepsInv ==
  ASSUME KeyringInv, NEW c \in Calls, NEW n \in DOMAIN wallets, NEW i \in Identity,
         i \notin IdentitiesOf(wallets[n]),
         wallets[n].id \in HdWallets \/ NoIdentityCollision(wallets, {i}),
         wallets' = PushIdentity(wallets, n, i),
         calls' = [calls EXCEPT ![c] = Idle]
  PROVE  KeyringInv' /\ Extends(wallets', wallets)
<1> DEFINE e == [identity |-> i, label |-> NoLabel]
<1>0. wallets \in Seq(Wallet) /\ wallets[n] \in Wallet
  BY DEF KeyringInv, KeyringTypeOK
<1>1. /\ wallets' \in Seq(Wallet)
      /\ DOMAIN wallets' = DOMAIN wallets
      /\ Len(wallets') = Len(wallets)
      /\ wallets'[n].id = wallets[n].id
      /\ wallets'[n].identities = Append(wallets[n].identities, e)
      /\ \A m \in DOMAIN wallets : m # n => wallets'[m] = wallets[m]
  BY <1>0, PushedWallets
<1>2. \A m \in DOMAIN wallets : wallets'[m].id = wallets[m].id
  BY <1>1
<1>3. wallets'[n] \in Wallet
  BY <1>1
<1>4. IdentitiesOf(wallets'[n]) = IdentitiesOf(wallets[n]) \cup {i}
  BY <1>0, <1>1, <1>3, PushedIdentities
<1>5. wallets[n].identities \in Seq(Entry) /\ e.identity = i
  BY <1>0 DEF Wallet
<1> HIDE DEF e
<1>6. \A d \in Calls : calls'[d] = Idle \/ calls'[d] = calls[d]
  BY DEF KeyringInv, KeyringTypeOK
<1>7. KeyringTypeOK'
  <2>1. calls' \in [Calls -> Call]
    BY DEF KeyringInv, KeyringTypeOK, Call
  <2> QED
    BY <1>1, <1>2, <1>6, <2>1 DEF KeyringInv, KeyringTypeOK
<1>8. OnlyHdWalletsAwait'
  <2> SUFFICES ASSUME NEW d \in Calls, calls'[d].stage = "create"
               PROVE  wallets'[calls'[d].wallet].id \in HdWallets
    BY DEF OnlyHdWalletsAwait
  <2>1. calls'[d] = calls[d] /\ calls[d].stage = "create"
    BY <1>6 DEF Idle
  <2> QED
    BY <1>2, <2>1, SuspendedCall DEF KeyringInv, OnlyHdWalletsAwait
<1>9. WalletIdentitiesUnique'
  <2>1. HasUniqueIdentities(wallets'[n])
    <3>1. HasUniqueIdentities(wallets[n])
      BY DEF KeyringInv, WalletIdentitiesUnique
    <3>2. \A k \in DOMAIN wallets[n].identities : wallets[n].identities[k].identity # i
      BY DEF IdentitiesOf
    <3>3. /\ DOMAIN wallets'[n].identities = DOMAIN wallets[n].identities \cup {Len(wallets[n].identities) + 1}
          /\ wallets'[n].identities[Len(wallets[n].identities) + 1].identity = i
          /\ \A k \in DOMAIN wallets[n].identities :
               wallets'[n].identities[k].identity = wallets[n].identities[k].identity
      BY <1>1, <1>5
    <3> QED
      BY <3>1, <3>2, <3>3 DEF HasUniqueIdentities
  <2> QED
    BY <1>1, <2>1 DEF KeyringInv, WalletIdentitiesUnique
<1>10. PlainWalletsDisjoint'
  <2> SUFFICES ASSUME NEW k \in DOMAIN wallets, NEW m \in DOMAIN wallets, k # m,
                      {wallets'[k].id, wallets'[m].id} \cap HdWallets = {}
               PROVE  IdentitiesOf(wallets'[k]) \cap IdentitiesOf(wallets'[m]) = {}
    BY <1>1 DEF PlainWalletsDisjoint
  <2>1. {wallets[k].id, wallets[m].id} \cap HdWallets = {}
    BY <1>2
  <2>2. IdentitiesOf(wallets[k]) \cap IdentitiesOf(wallets[m]) = {}
    BY <2>1 DEF KeyringInv, PlainWalletsDisjoint
  <2>3. CASE k # n /\ m # n
    BY <1>1, <2>2, <2>3
  <2>4. CASE k = n \/ m = n
    <3>1. NoIdentityCollision(wallets, {i})
      BY <2>1, <2>4
    <3>2. i \notin IdentitiesOf(wallets[k]) /\ i \notin IdentitiesOf(wallets[m])
      BY <3>1 DEF NoIdentityCollision, getAllIdentities
    <3> QED
      BY <1>1, <1>4, <2>2, <2>4, <3>2
  <2> QED
    BY <2>3, <2>4
<1>11. Extends(wallets', wallets)
  <2>1. \A m \in DOMAIN wallets : wallets[m] \in Wallet
    BY <1>0
  <2>2. \A m \in DOMAIN wallets : Len(wallets[m].identities) \in Nat
    BY <2>1 DEF Wallet
  <2>3. /\ Len(wallets[n].identities) <= Len(wallets'[n].identities)
        /\ \A k \in DOMAIN wallets[n].identities :
             wallets'[n].identities[k] = wallets[n].identities[k]
    BY <1>1, <1>5
  <2>4. \A m \in DOMAIN wallets \ {n} : wallets'[m] = wallets[m]
    BY <1>1
  <2>5. Len(wallets') = Len(wallets) /\ Len(wallets) \in Nat
    BY <1>0, <1>1
  <2>6. ASSUME NEW m \in DOMAIN wallets
        PROVE  /\ wallets'[m].id = wallets[m].id
               /\ Len(wallets[m].identities) <= Len(wallets'[m].identities)
               /\ \A k \in DOMAIN wallets[m].identities :
                    wallets'[m].identities[k].identity = wallets[m].identities[k].identity
    BY <1>2, <2>2, <2>3, <2>4
  <2> QED
    BY <2>5, <2>6 DEF Extends
<1> QED
  BY <1>7, <1>8, <1>9, <1>10, <1>11 DEF KeyringInv
-----------------------------------------------------------------------------
(* Keyring.add *)
LEMMA AddKeepsInv ==
  ASSUME KeyringInv, NEW w \in NewWallets, Add(w)
  PROVE  KeyringInv' /\ Extends(wallets', wallets)
<1>0. wallets \in Seq(Wallet) /\ w \in Wallet
  BY NewWalletType DEF KeyringInv, KeyringTypeOK
<1>1. wallets' = Append(wallets, w) /\ calls' = calls
  BY DEF Add
<1>2. /\ wallets' \in Seq(Wallet)
      /\ Len(wallets') = Len(wallets) + 1
      /\ DOMAIN wallets' = DOMAIN wallets \cup {Len(wallets) + 1}
      /\ \A n \in DOMAIN wallets : wallets'[n] = wallets[n]
      /\ wallets'[Len(wallets) + 1] = w
  BY <1>0, <1>1
<1>3. KeyringTypeOK'
  BY <1>1, <1>2 DEF KeyringInv, KeyringTypeOK
<1>4. OnlyHdWalletsAwait'
  BY <1>1, <1>2, SuspendedCall DEF KeyringInv, OnlyHdWalletsAwait
<1>5. WalletIdentitiesUnique'
  <2>1. HasUniqueIdentities(w)
    BY DEF NewWallets, OutsideWallet
  <2> QED
    BY <1>2, <2>1 DEF KeyringInv, WalletIdentitiesUnique
<1>6. PlainWalletsDisjoint'
  <2>1. \A n \in DOMAIN wallets : IdentitiesOf(wallets[n]) \cap IdentitiesOf(w) = {}
    BY DEF Add, NoIdentityCollision, getAllIdentities
  <2> QED
    BY <1>2, <2>1 DEF KeyringInv, PlainWalletsDisjoint
<1>7. Extends(wallets', wallets)
  <2>1. \A n \in DOMAIN wallets : Len(wallets[n].identities) \in Nat
    BY <1>0 DEF Wallet
  <2> QED
    BY <1>0, <1>2, <2>1 DEF Extends
<1> QED
  BY <1>3, <1>4, <1>5, <1>6, <1>7 DEF KeyringInv

(* Keyring.setWalletLabel *)
LEMMA SetWalletLabelKeepsInv ==
  ASSUME KeyringInv, NEW id \in WalletId, NEW l \in Label, SetWalletLabel(id, l)
  PROVE  KeyringInv' /\ Extends(wallets', wallets)
<1>1. PICK n \in DOMAIN wallets : wallets' = [wallets EXCEPT ![n].label = l]
  BY DEF SetWalletLabel
<1> DEFINE x == [wallets[n] EXCEPT !.label = l]
<1>2. wallets \in Seq(Wallet) /\ wallets[n] \in Wallet
  BY DEF KeyringInv, KeyringTypeOK
<1>3. x \in Wallet /\ x.id = wallets[n].id /\ x.identities = wallets[n].identities
  BY <1>2 DEF Wallet
<1>4. wallets' = [wallets EXCEPT ![n] = x]
  BY <1>1
<1> HIDE DEF x
<1>5. /\ wallets' \in Seq(Wallet)
      /\ Len(wallets') = Len(wallets)
      /\ \A m \in DOMAIN wallets : wallets'[m] = IF m = n THEN x ELSE wallets[m]
  BY <1>2, <1>3, <1>4
<1>6. \A m \in DOMAIN wallets : SameIdentities(wallets[m], wallets'[m])
  BY <1>3, <1>5 DEF SameIdentities
<1> QED
  BY <1>5, <1>6, LabelsKeepInv DEF SetWalletLabel

(* Relabelling keeps the number, the order and the types of the entries. *)
LEMMA RelabelledEntries ==
  ASSUME NEW entries \in Seq(Entry), NEW i \in Identity, NEW l \in Label
  PROVE  /\ RelabelIdentity(entries, i, l) \in Seq(Entry)
         /\ DOMAIN RelabelIdentity(entries, i, l) = DOMAIN entries
         /\ \A e \in DOMAIN entries : RelabelIdentity(entries, i, l)[e].identity = entries[e].identity
<1> DEFINE New(e) == IF entries[e].identity = i THEN [entries[e] EXCEPT !.label = l] ELSE entries[e]
<1>1. ASSUME NEW e \in DOMAIN entries
      PROVE  New(e) \in Entry /\ New(e).identity = entries[e].identity
  <2>1. entries[e] \in Entry
    OBVIOUS
  <2> QED
    BY <2>1 DEF Entry
<1>2. RelabelIdentity(entries, i, l) = [e \in DOMAIN entries |-> New(e)]
  BY DEF RelabelIdentity
<1> HIDE DEF New
<1>3. [e \in DOMAIN entries |-> New(e)] \in Seq(Entry)
  <2>1. DOMAIN entries = 1 .. Len(entries) /\ Len(entries) \in Nat
    OBVIOUS
  <2> QED
    BY <1>1, <2>1
<1> QED
  BY <1>1, <1>2, <1>3

(* Keyring.setIdentityLabel *)
LEMMA SetIdentityLabelKeepsInv ==
  ASSUME KeyringInv, NEW i \in Identity, NEW l \in Label, SetIdentityLabel(i, l)
  PROVE  KeyringInv' /\ Extends(wallets', wallets)
<1>1. PICK n \in DOMAIN wallets :
        wallets' = [wallets EXCEPT ![n].identities = RelabelIdentity(@, i, l)]
  BY DEF SetIdentityLabel
<1> DEFINE entries == RelabelIdentity(wallets[n].identities, i, l)
           x == [wallets[n] EXCEPT !.identities = entries]
<1>2. wallets \in Seq(Wallet) /\ wallets[n] \in Wallet
  BY DEF KeyringInv, KeyringTypeOK
<1>3. wallets[n].identities \in Seq(Entry)
  BY <1>2 DEF Wallet
<1>4. /\ entries \in Seq(Entry)
      /\ DOMAIN entries = DOMAIN wallets[n].identities
      /\ \A e \in DOMAIN wallets[n].identities : entries[e].identity = wallets[n].identities[e].identity
  BY <1>3, RelabelledEntries
<1>5. wallets' = [wallets EXCEPT ![n] = x]
  BY <1>1
<1> HIDE DEF entries
<1>6. x \in Wallet /\ x.id = wallets[n].id /\ x.identities = entries
  BY <1>2, <1>4 DEF Wallet
<1> HIDE DEF x
<1>7. /\ wallets' \in Seq(Wallet)
      /\ Len(wallets') = Len(wallets)
      /\ \A m \in DOMAIN wallets : wallets'[m] = IF m = n THEN x ELSE wallets[m]
  BY <1>2, <1>5, <1>6
<1>8. \A m \in DOMAIN wallets : SameIdentities(wallets[m], wallets'[m])
  BY <1>4, <1>6, <1>7 DEF SameIdentities
<1> QED
  BY <1>7, <1>8, LabelsKeepInv DEF SetIdentityLabel

(* A step that changes calls only. *)
LEMMA CallsKeepInv ==
  ASSUME KeyringInv, wallets' = wallets, NEW c \in Calls, NEW new \in Call,
         calls' = [calls EXCEPT ![c] = new],
         new # Idle => /\ new.wallet \in DOMAIN wallets
                       /\ new.identity \in Reach[wallets[new.wallet].id]
                       /\ new.stage = "create" => wallets[new.wallet].id \in HdWallets
  PROVE  KeyringInv' /\ Extends(wallets', wallets)
<1>1. calls' \in [Calls -> Call] /\ \A d \in Calls : calls'[d] = IF d = c THEN new ELSE calls[d]
  BY DEF KeyringInv, KeyringTypeOK
<1>2. KeyringTypeOK'
  BY <1>1 DEF KeyringInv, KeyringTypeOK
<1>3. OnlyHdWalletsAwait'
  <2>1. new.stage = "create" => new # Idle
    BY DEF Idle
  <2> QED
    BY <1>1, <2>1 DEF KeyringInv, OnlyHdWalletsAwait
<1>4. WalletIdentitiesUnique' /\ PlainWalletsDisjoint'
  BY DEF KeyringInv, WalletIdentitiesUnique, PlainWalletsDisjoint
<1>5. Extends(wallets', wallets)
  <2>1. \A n \in DOMAIN wallets : Len(wallets[n].identities) \in Nat
    BY DEF KeyringInv, KeyringTypeOK, Wallet
  <2> QED
    BY <2>1 DEF Extends, KeyringInv, KeyringTypeOK
<1> QED
  BY <1>2, <1>3, <1>4, <1>5 DEF KeyringInv

(* Keyring.createIdentity up to its first await *)
LEMMA CreateIdentityKeepsInv ==
  ASSUME KeyringInv, NEW c \in Calls, NEW id \in WalletId, NEW i \in Identity,
         CreateIdentity(c, id, i)
  PROVE  KeyringInv' /\ Extends(wallets', wallets)
<1>1. PICK n \in DOMAIN wallets :
        /\ getMutableWallet(wallets, id, n)
        /\ calls' = [calls EXCEPT ![c] = [stage |-> "preview", wallet |-> n, identity |-> i]]
  BY DEF CreateIdentity
<1> DEFINE new == [stage |-> "preview", wallet |-> n, identity |-> i]
<1>2. n \in Nat /\ wallets[n].id = id /\ i \in Reach[id]
  BY <1>1 DEF KeyringInv, KeyringTypeOK, getMutableWallet, CreateIdentity, previewIdentity
<1>3. new \in Call /\ new.wallet = n /\ new.identity = i /\ new.stage # "create"
  BY <1>2 DEF Call
<1>4. wallets' = wallets
  BY DEF CreateIdentity
<1> HIDE DEF new
<1> QED
  BY <1>1, <1>2, <1>3, <1>4, CallsKeepInv DEF new

(* Keyring.createIdentity after its awaits *)
LEMMA ResumeKeepsInv ==
  ASSUME KeyringInv, NEW c \in Calls, CreateIdentityResumes(c)
  PROVE  KeyringInv' /\ Extends(wallets', wallets)
<1> DEFINE n == calls[c].wallet
           i == calls[c].identity
<1>0. KeyringTypeOK /\ Idle \in Call
  BY DEF KeyringInv, Call
<1>1. CASE CreatePlainIdentity(c)
  <2>1. n \in DOMAIN wallets /\ i \in Identity
    BY <1>0, <1>1, SuspendedCall DEF CreatePlainIdentity
  <2>2. i \notin IdentitiesOf(wallets[n])
    BY <1>1, <2>1 DEF CreatePlainIdentity, NoIdentityCollision, getAllIdentities
  <2> QED
    BY <1>1, <2>1, <2>2, PushKeepsInv DEF CreatePlainIdentity
<1>2. CASE CreateIdentityChecked(c)
  <2> DEFINE new == [calls[c] EXCEPT !.stage = "create"]
  <2>1. /\ calls[c] \in [stage : {"preview", "create"}, wallet : Nat, identity : Identity]
        /\ n \in DOMAIN wallets /\ i \in Reach[wallets[n].id]
    BY <1>0, <1>2, SuspendedCall DEF CreateIdentityChecked
  <2>2. new \in Call /\ new.wallet = n /\ new.identity = i
    BY <2>1 DEF Call
  <2>3. calls' = [calls EXCEPT ![c] = new] /\ wallets' = wallets /\ wallets[n].id \in HdWallets
    BY <1>2 DEF CreateIdentityChecked
  <2> HIDE DEF new
  <2> QED
    BY <2>1, <2>2, <2>3, CallsKeepInv
<1>3. CASE CreateIdentityStored(c)
  <2>1. n \in DOMAIN wallets /\ i \in Identity
    BY <1>0, <1>3, SuspendedCall DEF CreateIdentityStored
  <2>2. wallets[n].id \in HdWallets
    BY <1>3 DEF CreateIdentityStored, KeyringInv, OnlyHdWalletsAwait
  <2> QED
    BY <1>3, <2>1, <2>2, PushKeepsInv DEF CreateIdentityStored
<1>4. CASE CreateIdentityRejected(c)
  BY <1>0, <1>4, CallsKeepInv DEF CreateIdentityRejected
<1> QED
  BY <1>1, <1>2, <1>3, <1>4 DEF CreateIdentityResumes
-----------------------------------------------------------------------------
(* KeyringInv is inductive, and every step only adds to the keyring. *)
LEMMA KeyringInvInit == KeyringInit => KeyringInv
<1> SUFFICES ASSUME KeyringInit PROVE KeyringInv
  OBVIOUS
<1>1. wallets = <<>> /\ DOMAIN wallets = {}
  BY DEF KeyringInit
<1>2. \A c \in Calls : calls[c] = Idle /\ calls[c].stage # "create"
  BY DEF KeyringInit, Idle
<1>3. calls \in [Calls -> Call]
  BY DEF KeyringInit, Call
<1>4. wallets \in Seq(Wallet)
  BY <1>1
<1> QED
  BY <1>1, <1>2, <1>3, <1>4
  DEF KeyringInv, KeyringTypeOK, OnlyHdWalletsAwait, WalletIdentitiesUnique, PlainWalletsDisjoint

(* One case for each operation of the keyring. *)
LEMMA KeyringStep ==
  ASSUME KeyringInv, KeyringNext
  PROVE  KeyringInv' /\ Extends(wallets', wallets)
<1>1. CASE \E w \in NewWallets : Add(w)
  BY <1>1, AddKeepsInv
<1>2. CASE \E id \in WalletId, l \in Label : SetWalletLabel(id, l)
  BY <1>2, SetWalletLabelKeepsInv
<1>3. CASE \E i \in Identity, l \in Label : SetIdentityLabel(i, l)
  BY <1>3, SetIdentityLabelKeepsInv
<1>4. CASE \E c \in Calls, id \in WalletId, i \in Identity : CreateIdentity(c, id, i)
  BY <1>4, CreateIdentityKeepsInv
<1>5. CASE \E c \in Calls : CreateIdentityResumes(c)
  BY <1>5, ResumeKeepsInv
<1> QED
  BY <1>1, <1>2, <1>3, <1>4, <1>5 DEF KeyringNext

(* A step that leaves the keyring alone keeps the invariant. *)
LEMMA KeyringStutter == KeyringInv /\ UNCHANGED keyringVars => KeyringInv'
BY DEF keyringVars, KeyringInv, KeyringTypeOK, OnlyHdWalletsAwait, WalletIdentitiesUnique,
       PlainWalletsDisjoint

(* KeyringInv holds in every reachable state. *)
LEMMA KeyringInvHolds == KeyringSpec => []KeyringInv
<1>1. KeyringInv /\ [KeyringNext]_keyringVars => KeyringInv'
  BY KeyringStep, KeyringStutter
<1> QED
  BY <1>1, KeyringInvInit, PTL DEF KeyringSpec

(* Suspended calls always refer to a wallet of the keyring that can yield    *)
(* their identity (keyring.ts:162-175).                                      *)
THEOREM KeyringTypeCorrect == KeyringSpec => []KeyringTypeOK
<1>1. KeyringInv => KeyringTypeOK
  BY DEF KeyringInv
<1> QED
  BY <1>1, KeyringInvHolds, PTL

(* No wallet ever holds an identity twice, for any number of overlapping     *)
(* createIdentity() calls (slip10wallet.ts:274-294).                         *)
THEOREM IdentitiesStayUnique == KeyringSpec => []WalletIdentitiesUnique
<1>1. KeyringInv => WalletIdentitiesUnique
  BY DEF KeyringInv
<1> QED
  BY <1>1, KeyringInvHolds, PTL

(* Ed25519Wallets never share an identity (ed25519wallet.ts:188-207 stores   *)
(* it without an await after the check of keyring.ts:173).                   *)
THEOREM PlainWalletsStayDisjoint == KeyringSpec => []PlainWalletsDisjoint
<1>1. KeyringInv => PlainWalletsDisjoint
  BY DEF KeyringInv
<1> QED
  BY <1>1, KeyringInvHolds, PTL

(* Nothing is ever removed from a keyring or reordered in it.                *)
THEOREM KeyringGrows == KeyringSpec => KeyringOnlyGrows
<1>1. KeyringInv /\ [KeyringNext]_keyringVars => [Extends(wallets', wallets)]_keyringVars
  BY KeyringStep
<1> QED
  BY <1>1, KeyringInvHolds, PTL DEF KeyringSpec, KeyringOnlyGrows

-----------------------------------------------------------------------------
(* The profile (UserProfile). *)

(* What KeyringInv says of the wallets alone: it holds of the keyrings that  *)
(* are stored as well.                                                       *)
GoodWallets(ws) ==
  /\ ws \in Seq(Wallet)
  /\ \A n \in DOMAIN ws : HasUniqueIdentities(ws[n])
  /\ \A m, n \in DOMAIN ws :
       m # n /\ {ws[m].id, ws[n].id} \cap HdWallets = {} =>
         IdentitiesOf(ws[m]) \cap IdentitiesOf(ws[n]) = {}

GoodData(k) == k \in SerializedKeyring /\ GoodWallets(deserializeWallets(k))

(* The keyring in the database is a good one, of the version next to it. *)
DbInv ==
  /\ db.keyring # <<>> => GoodData(db.keyring[1].keyring)
  /\ VersionMatchesKeyring

(* So is the keyring that was read, into a profile that is not there yet. *)
LoadInv ==
  /\ load.stage = "decrypt" => GoodData(load.data[1].keyring)
  /\ load # NoLoad => profile # "unlocked"

(* A value that an older release has stored. *)
IsOld(k) ==
  \/ k = "format_version" /\ db.format_version = <<1>>
  \/ k = "keyring" /\ db.keyring # <<>> /\ db.keyring[1].version = 1

PutOrder == {<<"format_version", "created_at", "keyring">>, <<"created_at", "keyring">>, <<"keyring">>}

(* Old values are on the list of keys to delete, and gone when the version   *)
(* is written.                                                               *)
ErasesOld(s) ==
  \A k \in DbKey : IsOld(k) =>
    /\ store[s].stage = "delete" => k \in Range(store[s].todo)
    /\ store[s].stage # "put"

(* A store that nothing overlaps with is the only one, and nothing was       *)
(* promised since it started.                                                *)
RunsAlone(s) ==
  InProgress(s) =>
    /\ durable = <<>>
    /\ store[s].alone => \A t \in Stores \ {s} : ~InProgress(t)

(* A store whose profile is not locked will write every identity that was    *)
(* there when it was called.                                                 *)
WillWrite(s) ==
  store[s].stage \in {"list", "delete"} /\ store[s].keyring =>
    profile = "unlocked" /\ store[s].identities \subseteq getAllIdentities(wallets)

(* It has them and writes the keys in order. *)
Writes(s) ==
  store[s].stage = "put" =>
    /\ store[s].todo \in PutOrder
    /\ GoodData(store[s].serialized[1])
    /\ store[s].identities \subseteq getAllIdentities(deserializeWallets(store[s].serialized[1]))
    /\ store[s].alone => \A k \in DbKey \ Range(store[s].todo) : db[k] # <<>>

StoreInv(s) == ErasesOld(s) /\ RunsAlone(s) /\ WillWrite(s) /\ Writes(s)

ProfileInv ==
  /\ ProfileTypeOK
  /\ KeyringInv
  /\ PublishedWalletsAreCurrent
  /\ DbInv
  /\ LoadInv
  /\ \A s \in Stores : StoreInv(s)
  /\ ResolvedStoreIsDurable

-----------------------------------------------------------------------------
(* A serialized keyring is read back as it was. *)
LEMMA SerializeFacts ==
  ASSUME NEW ws, GoodWallets(ws)
  PROVE  GoodData(serialize(ws)) /\ deserializeWallets(serialize(ws)) = ws
<1> DEFINE data == [n \in DOMAIN ws |-> [implementationId |-> implementationId(ws[n]), data |-> ws[n]]]
           D == [implementationId : {"hd", "ed25519"}, data : Wallet]
<1>1. ws \in Seq(Wallet) /\ DOMAIN ws = 1 .. Len(ws) /\ Len(ws) \in Nat /\ ws = [n \in DOMAIN ws |-> ws[n]]
  BY DEF GoodWallets
<1>2. \A n \in DOMAIN ws : [implementationId |-> implementationId(ws[n]), data |-> ws[n]] \in D
  BY <1>1 DEF implementationId
<1>3. data \in Seq(D)
  <2> HIDE DEF D
  <2> QED
    BY <1>1, <1>2
<1>4. serialize(ws) = [formatVersion |-> 1, wallets |-> data]
  BY DEF serialize
<1>5. serialize(ws) \in SerializedKeyring
  BY <1>3, <1>4 DEF SerializedKeyring
<1>6. deserializeWallets(serialize(ws)) = [n \in DOMAIN ws |-> ws[n]]
  BY <1>4 DEF deserializeWallets
<1> QED
  BY <1>1, <1>5, <1>6 DEF GoodData

(* KeyringInv is about the wallets and about the calls. *)
LEMMA KeyringIsGood ==
  KeyringInv => GoodWallets(wallets)
BY DEF KeyringInv, KeyringTypeOK, WalletIdentitiesUnique, PlainWalletsDisjoint, GoodWallets

(* A profile that starts with a good keyring has KeyringInv. *)
LEMMA FreshKeyring ==
  ASSUME GoodWallets(wallets'), calls' = [c \in Calls |-> Idle]
  PROVE  KeyringInv'
<1>1. /\ calls' \in [Calls -> Call] /\ \A c \in Calls : calls'[c] = Idle
      /\ Idle.stage # "create"
  BY DEF Call, Idle
<1> QED
  BY <1>1 DEF KeyringInv, KeyringTypeOK, OnlyHdWalletsAwait, WalletIdentitiesUnique, PlainWalletsDisjoint, GoodWallets

(* The empty keyring and the keyring of a wallet from the outside are good. *)
LEMMA SmallKeyrings ==
  GoodWallets(<<>>) /\ \A w \in NewWallets : GoodWallets(<<w>>)
<1>1. GoodWallets(<<>>)
  BY DEF GoodWallets
<1>2. ASSUME NEW w \in NewWallets PROVE GoodWallets(<<w>>)
  <2>1. w \in Wallet /\ HasUniqueIdentities(w)
    BY NewWalletType DEF NewWallets, OutsideWallet
  <2>2. <<w>> \in Seq(Wallet) /\ DOMAIN <<w>> = {1} /\ <<w>>[1] = w
    BY <2>1
  <2> QED
    BY <2>1, <2>2 DEF GoodWallets
<1> QED
  BY <1>1, <1>2

(* A keyring that has grown still has the identities it had. *)
LEMMA GrownIdentities ==
  ASSUME NEW ws \in Seq(Wallet), NEW xs \in Seq(Wallet), Extends(xs, ws)
  PROVE  getAllIdentities(ws) \subseteq getAllIdentities(xs)
<1> SUFFICES ASSUME NEW i \in getAllIdentities(ws) PROVE i \in getAllIdentities(xs)
  OBVIOUS
<1>1. PICK n \in DOMAIN ws : i \in IdentitiesOf(ws[n])
  BY DEF getAllIdentities
<1>2. PICK e \in DOMAIN ws[n].identities : i = ws[n].identities[e].identity
  BY <1>1 DEF IdentitiesOf
<1>3. n \in DOMAIN xs
  BY DEF Extends
<1>4. ws[n].identities \in Seq(Entry) /\ xs[n].identities \in Seq(Entry)
  <2>1. ws[n] \in Wallet /\ xs[n] \in Wallet
    BY <1>3, ElementOfSeq, LenProperties
  <2> QED
    BY <2>1 DEF Wallet
<1>5. e \in DOMAIN xs[n].identities /\ xs[n].identities[e].identity = i
  BY <1>2, <1>4 DEF Extends
<1>6. i \in IdentitiesOf(xs[n])
  BY <1>5 DEF IdentitiesOf
<1> QED
  BY <1>3, <1>6 DEF getAllIdentities

(* What is published depends on the ids and labels of the wallets. *)
LEMMA SameInfos ==
  ASSUME NEW ws \in Seq(Wallet), NEW xs \in Seq(Wallet), DOMAIN xs = DOMAIN ws,
         \A n \in DOMAIN ws : xs[n].id = ws[n].id /\ xs[n].label = ws[n].label
  PROVE  walletInfos(xs) = walletInfos(ws)
BY DEF walletInfos
-----------------------------------------------------------------------------
(* A store in progress has all its members. *)
LEMMA StoreFacts ==
  ASSUME ProfileTypeOK, NEW s \in Stores
  PROVE  /\ InProgress(s) <=> store[s] \in Store
         /\ NoStore.stage = "none"
         /\ store[s] \in Store \cup {NoStore, [stage |-> "hung"]}
BY DEF ProfileTypeOK, StoreTypeOK, InProgress, Store, NoStore

(* A step that leaves the database and the stores alone, and the keyring of  *)
(* an unlocked profile where it is.                                          *)
LEMMA StorageStays ==
  ASSUME ProfileInv, KeyringInv', PublishedWalletsAreCurrent', UNCHANGED <<db, store, durable>>,
         profile' \in {"none", "unlocked", "locked"}, LoadTypeOK', LoadInv',
         profile = "unlocked" =>
           profile' = "unlocked" /\ getAllIdentities(wallets) \subseteq getAllIdentities(wallets')
  PROVE  ProfileInv'
<1>1. ProfileTypeOK'
  BY DEF ProfileInv, ProfileTypeOK, DbTypeOK, StoreTypeOK, KeyringInv
<1>2. DbInv' /\ ResolvedStoreIsDurable'
  BY DEF ProfileInv, DbInv, VersionMatchesKeyring, ResolvedStoreIsDurable
<1>3. ASSUME NEW s \in Stores PROVE StoreInv(s)'
  <2>1. StoreInv(s)
    BY DEF ProfileInv
  <2>2. ErasesOld(s)' /\ RunsAlone(s)' /\ Writes(s)'
    BY <2>1 DEF StoreInv, ErasesOld, IsOld, RunsAlone, InProgress, Writes
  <2>3. WillWrite(s)'
    BY <2>1 DEF StoreInv, WillWrite
  <2> QED
    BY <2>2, <2>3 DEF StoreInv
<1> QED
  BY <1>1, <1>2, <1>3 DEF ProfileInv

(* An operation on the keyring of an unlocked profile, or what is left of    *)
(* createIdentity().                                                         *)
LEMMA KeyringOperation ==
  ASSUME ProfileInv, KeyringNext, PublishedWalletsAreCurrent', UNCHANGED <<profile, storageVars>>
  PROVE  ProfileInv'
<1>1. KeyringInv' /\ Extends(wallets', wallets)
  BY KeyringStep DEF ProfileInv
<1>2. getAllIdentities(wallets) \subseteq getAllIdentities(wallets')
  BY <1>1, GrownIdentities DEF ProfileInv, KeyringInv, KeyringTypeOK
<1>3. LoadTypeOK' /\ LoadInv'
  BY DEF ProfileInv, ProfileTypeOK, LoadTypeOK, LoadInv, storageVars
<1> QED
  BY <1>1, <1>2, <1>3, StorageStays DEF ProfileInv, ProfileTypeOK, storageVars

(* addWallet() and setWalletLabel() publish the new list. *)
LEMMA PublishingStep ==
  ASSUME ProfileInv,
         \/ \E w \in NewWallets : AddWallet(w)
         \/ \E id \in WalletId, l \in Label : ProfileSetWalletLabel(id, l)
  PROVE  ProfileInv'
<1>1. KeyringNext /\ published' = walletInfos(wallets') /\ UNCHANGED <<profile, storageVars>>
  BY DEF AddWallet, ProfileSetWalletLabel, KeyringNext
<1>2. PublishedWalletsAreCurrent'
  BY <1>1 DEF PublishedWalletsAreCurrent
<1> QED
  BY <1>1, <1>2, KeyringOperation

(* Labels of identities are not published. *)
LEMMA IdentityLabelStep ==
  ASSUME ProfileInv, NEW i \in Identity, NEW l \in Label, ProfileSetIdentityLabel(i, l)
  PROVE  ProfileInv'
<1>1. SetIdentityLabel(i, l) /\ KeyringNext /\ UNCHANGED <<memoryVars, storageVars>>
  BY DEF ProfileSetIdentityLabel, KeyringNext
<1>2. PICK n \in DOMAIN wallets : wallets' = [wallets EXCEPT ![n].identities = RelabelIdentity(@, i, l)]
  BY <1>1 DEF SetIdentityLabel
<1> DEFINE x == [wallets[n] EXCEPT !.identities = RelabelIdentity(@, i, l)]
<1>3. wallets \in Seq(Wallet) /\ wallets[n] \in Wallet
  BY DEF ProfileInv, KeyringInv, KeyringTypeOK
<1>4. x.id = wallets[n].id /\ x.label = wallets[n].label /\ wallets' = [wallets EXCEPT ![n] = x]
  BY <1>2, <1>3 DEF Wallet
<1> HIDE DEF x
<1>5. /\ DOMAIN wallets' = DOMAIN wallets
      /\ \A m \in DOMAIN wallets : wallets'[m].id = wallets[m].id /\ wallets'[m].label = wallets[m].label
  BY <1>3, <1>4
<1>6. wallets' \in Seq(Wallet)
  BY <1>1, KeyringStep DEF ProfileInv, KeyringInv, KeyringTypeOK
<1>7. walletInfos(wallets') = walletInfos(wallets)
  BY <1>3, <1>5, <1>6, SameInfos
<1>8. PublishedWalletsAreCurrent'
  BY <1>1, <1>7 DEF ProfileInv, PublishedWalletsAreCurrent, memoryVars
<1> QED
  BY <1>1, <1>8, KeyringOperation DEF memoryVars

(* createIdentity() adds identities, which are not published either. *)
LEMMA CreateIdentityStep ==
  ASSUME ProfileInv, NEW c \in Calls, ProfileCreateIdentity(c)
  PROVE  ProfileInv'
<1>1. KeyringNext /\ UNCHANGED <<memoryVars, storageVars>>
  BY DEF ProfileCreateIdentity, KeyringNext
<1>2. KeyringTypeOK /\ wallets \in Seq(Wallet)
  BY DEF ProfileInv, KeyringInv, KeyringTypeOK
<1>3. walletInfos(wallets') = walletInfos(wallets)
  <2>1. CASE wallets' = wallets
    BY <2>1
  <2>2. CASE CreatePlainIdentity(c) \/ CreateIdentityStored(c)
    <3> DEFINE n == calls[c].wallet
               i == calls[c].identity
    <3>1. n \in DOMAIN wallets /\ i \in Identity /\ wallets' = PushIdentity(wallets, n, i)
      BY <1>2, <2>2, SuspendedCall DEF CreatePlainIdentity, CreateIdentityStored
    <3> HIDE DEF n, i
    <3>2. /\ wallets' \in Seq(Wallet) /\ DOMAIN wallets' = DOMAIN wallets
          /\ wallets'[n].id = wallets[n].id /\ wallets'[n].label = wallets[n].label
          /\ \A m \in DOMAIN wallets : m # n => wallets'[m] = wallets[m]
      BY <1>2, <3>1, PushedWallets
    <3>3. \A m \in DOMAIN wallets : wallets'[m].id = wallets[m].id /\ wallets'[m].label = wallets[m].label
      BY <3>2
    <3> QED
      BY <1>2, <3>2, <3>3, SameInfos
  <2> QED
    BY <2>1, <2>2 DEF ProfileCreateIdentity, CreateIdentity, CreateIdentityResumes, CreateIdentityChecked,
                      CreateIdentityRejected
<1>4. PublishedWalletsAreCurrent'
  BY <1>1, <1>3 DEF ProfileInv, PublishedWalletsAreCurrent, memoryVars
<1> QED
  BY <1>1, <1>4, KeyringOperation DEF memoryVars

(* A new profile, empty or loaded, replaces one that is not unlocked. *)
LEMMA StartStep ==
  ASSUME ProfileInv, NewProfile \/ LoadDone
  PROVE  ProfileInv'
<1>1. \E ws : StartProfile(ws) /\ GoodWallets(ws)
  <2>1. CASE NewProfile
    BY <2>1, SmallKeyrings DEF NewProfile
  <2>2. CASE LoadDone
    BY <2>2 DEF LoadDone, ProfileInv, LoadInv, GoodData
  <2> QED
    BY <2>1, <2>2
<1>2. GoodWallets(wallets') /\ calls' = [c \in Calls |-> Idle] /\ profile' = "unlocked"
      /\ published' = walletInfos(wallets')
  BY <1>1 DEF StartProfile
<1>3. profile # "unlocked" /\ load' = NoLoad /\ UNCHANGED <<db, store, durable>>
  <2>1. CASE NewProfile
    BY <2>1 DEF NewProfile, storageVars
  <2>2. CASE LoadDone
    BY <2>2 DEF LoadDone, ProfileInv, LoadInv, NoLoad
  <2> QED
    BY <2>1, <2>2
<1>4. LoadTypeOK' /\ LoadInv'
  BY <1>3 DEF LoadTypeOK, LoadInv, NoLoad
<1> QED
  BY <1>2, <1>3, <1>4, FreshKeyring, StorageStays DEF PublishedWalletsAreCurrent

(* loadFrom() reads the database and may fail. *)
LEMMA LoadStep ==
  ASSUME ProfileInv,
         \/ \E secret \in Secret : LoadFrom(secret)
         \/ LoadVersion \/ LoadCreatedAt \/ LoadKeyring \/ LoadRejected
  PROVE  ProfileInv'
<1>u. UNCHANGED <<keyringVars, memoryVars, db, store, durable>>
  BY DEF LoadFrom, LoadVersion, LoadCreatedAt, LoadKeyring, LoadRejected
<1>d. DbTypeOK /\ LoadTypeOK /\ DbInv /\ LoadInv
  BY DEF ProfileInv, ProfileTypeOK
<1>n. NoLoad.stage = "none"
  BY DEF NoLoad
<1>1. LoadTypeOK' /\ LoadInv'
  <2>1. CASE \E secret \in Secret : LoadFrom(secret)
    <3>1. PICK secret \in Secret :
            /\ load' = [stage |-> "format_version", password |-> secret.password,
                        version |-> secret.version, data |-> <<>>]
            /\ profile' # "unlocked"
      BY <1>u, <2>1 DEF LoadFrom, memoryVars
    <3>2. <<>> \in Seq(StoredKeyring)
      OBVIOUS
    <3>3. load' \in Load /\ load'.stage # "decrypt"
      BY <3>1, <3>2 DEF Load, Secret, DbKey
    <3> QED
      BY <3>1, <3>3 DEF LoadTypeOK, LoadInv
  <2>2. ASSUME load.stage # "none" PROVE load \in Load /\ profile' # "unlocked"
    BY <1>d, <1>n, <1>u, <2>2 DEF LoadTypeOK, LoadInv, memoryVars
  <2>3. CASE LoadVersion
    <3> DEFINE v == db.format_version[1]
    <3>1. v \in 0 .. storageFormatVersion
      BY <1>d, <2>3 DEF LoadVersion, VersionAccepted, DbTypeOK, storageFormatVersion
    <3>2. load \in Load /\ profile' # "unlocked" /\ load' = [load EXCEPT !.stage = "created_at", !.version = v]
      BY <2>2, <2>3 DEF LoadVersion
    <3> HIDE DEF v
    <3>3. load' \in Load /\ load'.stage # "decrypt"
      BY <3>1, <3>2 DEF Load, DbKey
    <3> QED
      BY <3>2, <3>3 DEF LoadTypeOK, LoadInv
  <2>4. CASE LoadCreatedAt
    <3>1. load \in Load /\ profile' # "unlocked" /\ load' = [load EXCEPT !.stage = "keyring"]
      BY <2>2, <2>4 DEF LoadCreatedAt
    <3>2. load' \in Load /\ load'.stage # "decrypt"
      BY <3>1 DEF Load, DbKey
    <3> QED
      BY <3>1, <3>2 DEF LoadTypeOK, LoadInv
  <2>5. CASE LoadKeyring
    <3> DEFINE data == db.keyring
    <3>1. load \in Load /\ profile' # "unlocked" /\ load' = [load EXCEPT !.stage = "decrypt", !.data = data]
      BY <2>2, <2>5 DEF LoadKeyring
    <3>2. data \in Seq(StoredKeyring) /\ data # <<>> /\ GoodData(data[1].keyring)
      BY <1>d, <2>5 DEF LoadKeyring, DbTypeOK, DbInv
    <3> HIDE DEF data
    <3>3. load' \in Load /\ load'.data = data
      BY <3>1, <3>2 DEF Load
    <3> QED
      BY <3>1, <3>2, <3>3 DEF LoadTypeOK, LoadInv
  <2>6. CASE LoadRejected
    BY <1>n, <2>6 DEF LoadRejected, LoadTypeOK, LoadInv
  <2> QED
    BY <2>1, <2>3, <2>4, <2>5, <2>6
<1>2. KeyringInv' /\ PublishedWalletsAreCurrent'
  BY <1>u, KeyringStutter DEF ProfileInv, PublishedWalletsAreCurrent, memoryVars, keyringVars
<1> QED
  BY <1>u, <1>1, <1>2, StorageStays DEF ProfileInv, ProfileTypeOK, memoryVars, keyringVars

(* The process ends: the database and what was promised stay. *)
LEMMA CrashStep ==
  ASSUME ProfileInv, Crash
  PROVE  ProfileInv'
<1>1. /\ wallets' = <<>> /\ calls' = [c \in Calls |-> Idle] /\ profile' = "none"
      /\ store' = [s \in Stores |-> NoStore] /\ load' = NoLoad /\ UNCHANGED <<db, durable>>
  BY DEF Crash
<1>2. NoStore.stage = "none" /\ NoLoad.stage = "none"
  BY DEF NoStore, NoLoad
<1>3. KeyringInv' /\ KeyringTypeOK'
  BY <1>1, SmallKeyrings, FreshKeyring DEF KeyringInv
<1>4. ProfileTypeOK'
  BY <1>1, <1>2, <1>3 DEF ProfileInv, ProfileTypeOK, DbTypeOK, StoreTypeOK, LoadTypeOK
<1>5. PublishedWalletsAreCurrent' /\ DbInv' /\ LoadInv' /\ ResolvedStoreIsDurable'
  BY <1>1, <1>2 DEF ProfileInv, PublishedWalletsAreCurrent, DbInv, VersionMatchesKeyring, LoadInv,
                    ResolvedStoreIsDurable
<1>6. ASSUME NEW s \in Stores PROVE StoreInv(s)'
  BY <1>1, <1>2 DEF StoreInv, ErasesOld, RunsAlone, InProgress, WillWrite, Writes
<1> QED
  BY <1>3, <1>4, <1>5, <1>6 DEF ProfileInv

(* lock() takes the keyring away from the stores that have not serialized it. *)
LEMMA LockStep ==
  ASSUME ProfileInv, Lock
  PROVE  ProfileInv'
<1>1. /\ profile' = "locked" /\ UNCHANGED <<keyringVars, published, db, load, durable>>
      /\ store' = [s \in Stores |-> IF store[s].stage \in {"list", "delete"}
                                  THEN [store[s] EXCEPT !.keyring = FALSE] ELSE store[s]]
  BY DEF Lock
<1>2. ASSUME NEW s \in Stores
      PROVE  /\ store'[s] \in Store \cup {NoStore, [stage |-> "hung"]}
             /\ store'[s].stage = store[s].stage
             /\ InProgress(s) =>
                  /\ store[s].stage \in {"list", "delete"} => store'[s].keyring = FALSE
                  /\ store'[s].todo = store[s].todo
                  /\ store'[s].serialized = store[s].serialized /\ store'[s].alone = store[s].alone
                  /\ store'[s].identities = store[s].identities
  <2>1. CASE store[s].stage \in {"list", "delete"}
    <3>1. store[s] \in Store /\ store'[s] = [store[s] EXCEPT !.keyring = FALSE]
      BY <1>1, <2>1, StoreFacts DEF ProfileInv, InProgress
    <3> QED
      BY <3>1 DEF Store
  <2>2. CASE store[s].stage \notin {"list", "delete"}
    BY <1>1, <2>2, StoreFacts DEF ProfileInv
  <2> QED
    BY <2>1, <2>2
<1>3. \A s \in Stores : InProgress(s)' <=> InProgress(s)
  BY <1>2 DEF InProgress
<1>4. KeyringInv' /\ KeyringTypeOK'
  BY <1>1, KeyringStutter DEF ProfileInv, KeyringInv
<1>5. ASSUME NEW s \in Stores PROVE StoreInv(s)' /\ StoreTypeOK(s)'
  <2>1. StoreInv(s) /\ StoreTypeOK(s)
    BY DEF ProfileInv, ProfileTypeOK
  <2>2. StoreTypeOK(s)'
    BY <1>2, <2>1 DEF StoreTypeOK, InProgress
  <2>3. ErasesOld(s)'
    BY <1>1, <1>2, <2>1 DEF StoreInv, ErasesOld, IsOld, InProgress
  <2>4. RunsAlone(s)'
    BY <1>1, <1>2, <1>3, <2>1 DEF StoreInv, RunsAlone
  <2>5. WillWrite(s)'
    BY <1>2 DEF WillWrite, InProgress
  <2>6. Writes(s)'
    BY <1>1, <1>2, <2>1 DEF StoreInv, Writes, InProgress
  <2> QED
    BY <2>2, <2>3, <2>4, <2>5, <2>6 DEF StoreInv
<1>6. PublishedWalletsAreCurrent' /\ DbInv' /\ LoadInv' /\ ResolvedStoreIsDurable'
  BY <1>1 DEF ProfileInv, PublishedWalletsAreCurrent, DbInv, VersionMatchesKeyring, LoadInv,
              ResolvedStoreIsDurable
<1>7. ProfileTypeOK'
  BY <1>1, <1>4, <1>5 DEF ProfileInv, ProfileTypeOK, DbTypeOK, LoadTypeOK
<1> QED
  BY <1>4, <1>5, <1>6, <1>7 DEF ProfileInv

-----------------------------------------------------------------------------
(* A step of storeIn() is only in question for itself: a store that runs at  *)
(* the same time is not alone and was not promised anything.                 *)
LEMMA StoreStepKeeps ==
  ASSUME ProfileInv, NEW s \in Stores, InProgress(s), UNCHANGED <<keyringVars, memoryVars, load>>,
         NEW x, store' = [store EXCEPT ![s] = x],
         DbTypeOK', DbInv', \A k \in DbKey : IsOld(k)' => IsOld(k), StoreTypeOK(s)', StoreInv(s)',
         durable' = durable \/ store[s].alone,
         durable' \in Seq([password : Password, identities : SUBSET Identity]), ResolvedStoreIsDurable'
  PROVE  ProfileInv'
<1>1. KeyringInv' /\ KeyringTypeOK'
  BY KeyringStutter DEF ProfileInv, KeyringInv
<1>2. /\ store = [t \in Stores |-> store[t]] /\ store' = [t \in Stores |-> store'[t]]
      /\ \A t \in Stores \ {s} : store'[t] = store[t]
  BY DEF ProfileInv, ProfileTypeOK
<1>3. ASSUME NEW t \in Stores \ {s} PROVE StoreTypeOK(t)' /\ StoreInv(t)'
  <2>1. StoreInv(t) /\ StoreTypeOK(t) /\ StoreInv(s) /\ store'[t] = store[t]
    BY <1>2 DEF ProfileInv, ProfileTypeOK
  <2>2. InProgress(t) => ~store[t].alone /\ durable = <<>> /\ durable' = durable
    BY <2>1 DEF StoreInv, RunsAlone
  <2>3. StoreTypeOK(t)' /\ ErasesOld(t)' /\ WillWrite(t)'
    BY <2>1 DEF StoreTypeOK, StoreInv, ErasesOld, WillWrite, memoryVars, keyringVars
  <2>4. RunsAlone(t)'
    BY <2>1, <2>2 DEF RunsAlone, InProgress
  <2>5. Writes(t)'
    BY <2>1, <2>2 DEF StoreInv, Writes, InProgress
  <2> QED
    BY <2>3, <2>4, <2>5 DEF StoreInv
<1>4. ProfileTypeOK'
  BY <1>1, <1>2, <1>3 DEF ProfileInv, ProfileTypeOK, LoadTypeOK, memoryVars
<1>5. PublishedWalletsAreCurrent' /\ LoadInv'
  BY DEF ProfileInv, PublishedWalletsAreCurrent, LoadInv, memoryVars, keyringVars
<1> QED
  BY <1>1, <1>3, <1>4, <1>5 DEF ProfileInv

(* A store rejects, or its promise never settles. *)
LEMMA StoreEnds ==
  ASSUME ProfileInv, NEW s \in Stores, DeleteFails(s) \/ SerializeThrows(s) \/ DatabaseFails(s)
  PROVE  ProfileInv'
<1>1. /\ UNCHANGED <<keyringVars, memoryVars, db, load, durable>> /\ InProgress(s)
      /\ \E x \in {NoStore, [stage |-> "hung"]} : store' = [store EXCEPT ![s] = x]
  BY DEF DeleteFails, SerializeThrows, DatabaseFails, InProgress
<1>2. PICK x \in {NoStore, [stage |-> "hung"]} : store' = [store EXCEPT ![s] = x]
  BY <1>1
<1>3. store'[s] = x
  BY <1>2 DEF ProfileInv, ProfileTypeOK
<1>4. x.stage \notin {"list", "delete", "put"}
  BY DEF NoStore
<1>5. StoreTypeOK(s)' /\ StoreInv(s)'
  BY <1>3, <1>4 DEF StoreTypeOK, StoreInv, ErasesOld, RunsAlone, InProgress, WillWrite, Writes
<1>6. DbTypeOK' /\ DbInv' /\ ResolvedStoreIsDurable' /\ \A k \in DbKey : IsOld(k)' => IsOld(k)
  BY <1>1 DEF ProfileInv, ProfileTypeOK, DbTypeOK, DbInv, VersionMatchesKeyring, ResolvedStoreIsDurable, IsOld
<1>7. durable' \in Seq([password : Password, identities : SUBSET Identity])
  BY <1>1 DEF ProfileInv, ProfileTypeOK
<1> QED
  BY <1>1, <1>2, <1>5, <1>6, <1>7, StoreStepKeeps

(* Only what is there can be old. *)
LEMMA OldIsThere ==
  ASSUME NEW k \in DbKey, IsOld(k)
  PROVE  db[k] # <<>>
<1>1. CASE k = "format_version" /\ db.format_version = <<1>>
  BY <1>1
<1>2. CASE k = "keyring" /\ db.keyring # <<>>
  BY <1>2
<1> QED
  BY <1>1, <1>2 DEF IsOld

(* The list of a key stream has every key that is there. *)
LEMMA ListedKeys ==
  ASSUME DbTypeOK
  PROVE  LET keys == IfPresent("created_at") \o IfPresent("format_version") \o IfPresent("keyring")
         IN  keys \in Seq(DbKey) /\ \A k \in DbKey : db[k] # <<>> => k \in Range(keys)
<1> DEFINE a == IfPresent("created_at")
           b == IfPresent("format_version")
           c == IfPresent("keyring")
<1>1. ASSUME NEW k \in DbKey
      PROVE  IfPresent(k) \in Seq(DbKey) /\ (db[k] # <<>> => k \in Range(IfPresent(k)))
  <2>1. <<k>> \in Seq(DbKey) /\ <<>> \in Seq(DbKey) /\ k \in Range(<<k>>)
    BY DEF Range
  <2> QED
    BY <2>1 DEF IfPresent
<1>2. /\ a \in Seq(DbKey) /\ b \in Seq(DbKey) /\ c \in Seq(DbKey)
      /\ db["created_at"] # <<>> => "created_at" \in Range(a)
      /\ db["format_version"] # <<>> => "format_version" \in Range(b)
      /\ db["keyring"] # <<>> => "keyring" \in Range(c)
  BY <1>1 DEF DbKey
<1> HIDE DEF a, b, c
<1>3. a \o b \in Seq(DbKey) /\ Range(a \o b) = Range(a) \cup Range(b)
  BY <1>2, ConcatProperties, RangeConcatenation
<1> DEFINE ab == a \o b
<1>4. ab \in Seq(DbKey)
  BY <1>3
<1> HIDE DEF ab
<1>5. ab \o c \in Seq(DbKey) /\ Range(ab \o c) = Range(ab) \cup Range(c)
  BY <1>2, <1>4, ConcatProperties, RangeConcatenation
<1> QED
  BY <1>2, <1>3, <1>5 DEF DbKey, a, b, c, ab

(* The key stream closes. *)
LEMMA ListKeysStep ==
  ASSUME ProfileInv, NEW s \in Stores, ListKeys(s)
  PROVE  ProfileInv'
<1> DEFINE keys == IfPresent("created_at") \o IfPresent("format_version") \o IfPresent("keyring")
           x == [store[s] EXCEPT !.stage = "delete", !.todo = keys]
<1>1. UNCHANGED <<keyringVars, memoryVars, db, load, durable>> /\ InProgress(s) /\ store[s].stage = "list"
  BY DEF ListKeys, InProgress
<1>2. store[s] \in Store /\ DbTypeOK /\ StoreInv(s) /\ store = [t \in Stores |-> store[t]]
  BY <1>1, StoreFacts DEF ProfileInv, ProfileTypeOK
<1>3. store' = [store EXCEPT ![s] = x] /\ store'[s] = x
  BY <1>2 DEF ListKeys
<1>4. keys \in Seq(DbKey) /\ \A k \in DbKey : db[k] # <<>> => k \in Range(keys)
  BY <1>2, ListedKeys
<1> HIDE DEF keys
<1>5. /\ x \in Store /\ x.stage = "delete" /\ x.todo = keys /\ x.keyring = store[s].keyring
      /\ x.alone = store[s].alone /\ x.identities = store[s].identities
  BY <1>2, <1>4 DEF Store
<1> HIDE DEF x
<1>6. StoreTypeOK(s)'
  BY <1>3, <1>5 DEF StoreTypeOK
<1>7. StoreInv(s)'
  <2>1. ErasesOld(s)'
    <3>1. ASSUME NEW k \in DbKey, IsOld(k)' PROVE k \in Range(keys)
      <4>1. IsOld(k)
        BY <1>1, <3>1 DEF IsOld
      <4> QED
        BY <1>4, <4>1, OldIsThere
    <3> QED
      BY <1>3, <1>5, <3>1 DEF ErasesOld
  <2>2. RunsAlone(s)'
    BY <1>1, <1>2, <1>3, <1>5 DEF StoreInv, RunsAlone, InProgress
  <2>3. WillWrite(s)' /\ Writes(s)'
    BY <1>1, <1>2, <1>3, <1>5 DEF StoreInv, WillWrite, Writes, keyringVars, memoryVars
  <2> QED
    BY <2>1, <2>2, <2>3 DEF StoreInv
<1>8. DbTypeOK' /\ DbInv' /\ ResolvedStoreIsDurable' /\ \A k \in DbKey : IsOld(k)' => IsOld(k)
  BY <1>1 DEF ProfileInv, ProfileTypeOK, DbTypeOK, DbInv, VersionMatchesKeyring, ResolvedStoreIsDurable, IsOld
<1>9. durable' \in Seq([password : Password, identities : SUBSET Identity])
  BY <1>1 DEF ProfileInv, ProfileTypeOK
<1> QED
  BY <1>1, <1>3, <1>6, <1>7, <1>8, <1>9, StoreStepKeeps

(* The rest of a list. *)
LEMMA TailFacts ==
  ASSUME NEW S, NEW todo \in Seq(S), todo # <<>>
  PROVE  /\ Head(todo) \in S /\ Tail(todo) \in Seq(S)
         /\ \A k \in Range(todo) : k = Head(todo) \/ k \in Range(Tail(todo))
         /\ Range(Tail(todo)) \subseteq Range(todo)
<1>1. /\ Head(todo) = todo[1] /\ Head(todo) \in S
      /\ Tail(todo) \in Seq(S) /\ Len(Tail(todo)) = Len(todo) - 1
      /\ Len(todo) \in Nat /\ Len(todo) > 0 /\ DOMAIN todo = 1 .. Len(todo)
      /\ DOMAIN Tail(todo) = 1 .. Len(todo) - 1
      /\ \A n \in 1 .. Len(todo) - 1 : Tail(todo)[n] = todo[n + 1]
  BY HeadTailProperties, LenProperties
<1>2. ASSUME NEW n \in DOMAIN todo, n # 1 PROVE todo[n] \in Range(Tail(todo))
  <2>1. n - 1 \in 1 .. Len(todo) - 1 /\ (n - 1) + 1 = n
    BY <1>1, <1>2
  <2> QED
    BY <1>1, <2>1 DEF Range
<1>3. ASSUME NEW n \in DOMAIN Tail(todo) PROVE Tail(todo)[n] \in Range(todo)
  <2>1. n + 1 \in DOMAIN todo /\ Tail(todo)[n] = todo[n + 1]
    BY <1>1
  <2> QED
    BY <2>1 DEF Range
<1> QED
  BY <1>1, <1>2, <1>3 DEF Range

(* db.del(): what is gone is not old. *)
LEMMA DeleteKeyStep ==
  ASSUME ProfileInv, NEW s \in Stores, DeleteKey(s)
  PROVE  ProfileInv'
<1> DEFINE todo == store[s].todo
           key == Head(todo)
           rest == Tail(todo)
           x == [store[s] EXCEPT !.todo = rest]
<1>1. /\ UNCHANGED <<keyringVars, memoryVars, load, durable>> /\ InProgress(s) /\ store[s].stage = "delete"
      /\ todo # <<>> /\ db' = [db EXCEPT ![key] = <<>>]
  BY DEF DeleteKey, InProgress
<1>2. store[s] \in Store /\ DbTypeOK /\ DbInv /\ StoreInv(s) /\ store = [t \in Stores |-> store[t]]
  BY <1>1, StoreFacts DEF ProfileInv, ProfileTypeOK
<1>3. store' = [store EXCEPT ![s] = x] /\ store'[s] = x
  BY <1>2 DEF DeleteKey
<1>4. todo \in Seq(DbKey)
  BY <1>2 DEF Store
<1> HIDE DEF todo
<1>5. key \in DbKey /\ rest \in Seq(DbKey) /\ \A k \in Range(todo) : k = key \/ k \in Range(rest)
  BY <1>1, <1>4, TailFacts
<1> HIDE DEF key, rest
<1>6. /\ x \in Store /\ x.stage = "delete" /\ x.todo = rest /\ x.keyring = store[s].keyring
      /\ x.alone = store[s].alone /\ x.identities = store[s].identities
  BY <1>1, <1>2, <1>5 DEF Store
<1> HIDE DEF x
<1>7. DOMAIN db' = DbKey /\ \A k \in DbKey : db'[k] = IF k = key THEN <<>> ELSE db[k]
  BY <1>1, <1>2, <1>5 DEF DbTypeOK
<1>8. /\ db'.created_at \in {<<>>, db.created_at} /\ db'.format_version \in {<<>>, db.format_version}
      /\ db'.keyring \in {<<>>, db.keyring}
  BY <1>7 DEF DbKey
<1>9. DbTypeOK'
  <2>1. <<>> \in Seq(StoredKeyring) /\ Len(<<>>) = 0
    OBVIOUS
  <2>2. db'.keyring \in Seq(StoredKeyring) /\ Len(db'.keyring) <= 1
    <3>1. CASE db'.keyring = <<>>
      <4>1. Len(db'.keyring) = 0
        BY <3>1
      <4> QED
        BY <2>1, <3>1, <4>1
    <3>2. CASE db'.keyring = db.keyring
      BY <1>2, <3>2 DEF DbTypeOK
    <3> QED
      BY <1>8, <3>1, <3>2
  <2>3. db'.created_at \in {<<>>, <<"date">>} /\ db'.format_version \in {<<>>, <<1>>, <<storageFormatVersion>>}
    BY <1>2, <1>8 DEF DbTypeOK
  <2> QED
    BY <1>7, <2>2, <2>3 DEF DbTypeOK
<1>10. DbInv'
  BY <1>2, <1>8 DEF DbInv, VersionMatchesKeyring
<1>11. ASSUME NEW k \in DbKey, IsOld(k)' PROVE IsOld(k) /\ k # key
  <2>1. IsOld(k)
    BY <1>8, <1>11 DEF IsOld
  <2>2. db'[k] # <<>>
    <3>1. CASE k = "format_version" /\ db'.format_version = <<1>>
      BY <3>1
    <3>2. CASE k = "keyring" /\ db'.keyring # <<>>
      BY <3>2
    <3> QED
      BY <1>11, <3>1, <3>2 DEF IsOld
  <2> QED
    BY <1>7, <2>1, <2>2
<1>12. StoreTypeOK(s)'
  BY <1>3, <1>6 DEF StoreTypeOK
<1>13. StoreInv(s)'
  <2>1. ErasesOld(s)'
    <3>1. ASSUME NEW k \in DbKey, IsOld(k)' PROVE k \in Range(rest)
      BY <1>1, <1>2, <1>5, <1>11, <3>1 DEF StoreInv, ErasesOld, todo
    <3> QED
      BY <1>3, <1>6, <3>1 DEF ErasesOld
  <2>2. RunsAlone(s)'
    BY <1>1, <1>2, <1>3, <1>6 DEF StoreInv, RunsAlone, InProgress
  <2>3. WillWrite(s)' /\ Writes(s)'
    BY <1>1, <1>2, <1>3, <1>6 DEF StoreInv, WillWrite, Writes, keyringVars, memoryVars
  <2> QED
    BY <2>1, <2>2, <2>3 DEF StoreInv
<1>14. /\ ResolvedStoreIsDurable'
       /\ durable' \in Seq([password : Password, identities : SUBSET Identity])
  BY <1>1, <1>2 DEF ProfileInv, ProfileTypeOK, StoreInv, RunsAlone, ResolvedStoreIsDurable
<1> QED
  BY <1>1, <1>3, <1>9, <1>10, <1>11, <1>12, <1>13, <1>14, StoreStepKeeps

(* The keyring is serialized: nothing old is left in the database. *)
LEMMA SerializeStep ==
  ASSUME ProfileInv, NEW s \in Stores, Serialize(s)
  PROVE  ProfileInv'
<1> DEFINE data == <<serialize(wallets)>>
           order == <<"format_version", "created_at", "keyring">>
           x == [store[s] EXCEPT !.stage = "put", !.serialized = data, !.todo = order]
<1>1. /\ UNCHANGED <<keyringVars, memoryVars, db, load, durable>> /\ InProgress(s)
      /\ store[s].stage = "delete" /\ store[s].todo = <<>> /\ store[s].keyring
  BY DEF Serialize, InProgress
<1>2. store[s] \in Store /\ StoreInv(s) /\ store = [t \in Stores |-> store[t]]
  BY <1>1, StoreFacts DEF ProfileInv, ProfileTypeOK
<1>3. store' = [store EXCEPT ![s] = x] /\ store'[s] = x
  BY <1>2 DEF Serialize
<1>4. /\ data[1] = serialize(wallets) /\ GoodData(data[1]) /\ deserializeWallets(data[1]) = wallets
      /\ data # <<>>
  BY KeyringIsGood, SerializeFacts DEF ProfileInv
<1>5. data \in Seq(SerializedKeyring)
  BY <1>4 DEF GoodData
<1>6. order \in Seq(DbKey) /\ order # <<>> /\ Range(order) = DbKey
  <2>1. order \in Seq(DbKey) /\ order # <<>> /\ DOMAIN order = 1 .. 3
    BY DEF DbKey
  <2> QED
    BY <2>1 DEF Range, DbKey
<1>o. order \in PutOrder
  BY DEF PutOrder
<1> HIDE DEF data, order
<1>7. /\ x \in Store /\ x.stage = "put" /\ x.todo = order /\ x.serialized = data
      /\ x.alone = store[s].alone /\ x.identities = store[s].identities
  BY <1>2, <1>5, <1>6 DEF Store
<1> HIDE DEF x
<1>8. StoreTypeOK(s)'
  BY <1>3, <1>4, <1>6, <1>7 DEF StoreTypeOK
<1>9. StoreInv(s)'
  <2>1. ErasesOld(s)'
    <3>1. Range(<<>>) = {}
      BY DEF Range
    <3>2. \A k \in DbKey : ~IsOld(k)
      BY <1>1, <1>2, <3>1 DEF StoreInv, ErasesOld
    <3>3. \A k \in DbKey : ~IsOld(k)'
      BY <1>1, <3>2 DEF IsOld
    <3> QED
      BY <3>3 DEF ErasesOld
  <2>2. RunsAlone(s)'
    BY <1>1, <1>2, <1>3, <1>7 DEF StoreInv, RunsAlone, InProgress
  <2>3. WillWrite(s)'
    BY <1>3, <1>7 DEF WillWrite
  <2>4. store[s].identities \subseteq getAllIdentities(wallets)
    BY <1>1, <1>2 DEF StoreInv, WillWrite
  <2>5. Writes(s)'
    BY <1>3, <1>4, <1>6, <1>7, <1>o, <2>4 DEF Writes
  <2> QED
    BY <2>1, <2>2, <2>3, <2>5 DEF StoreInv
<1>10. DbTypeOK' /\ DbInv' /\ ResolvedStoreIsDurable' /\ \A k \in DbKey : IsOld(k)' => IsOld(k)
  BY <1>1 DEF ProfileInv, ProfileTypeOK, DbTypeOK, DbInv, VersionMatchesKeyring, ResolvedStoreIsDurable, IsOld
<1>11. durable' \in Seq([password : Password, identities : SUBSET Identity])
  BY <1>1 DEF ProfileInv, ProfileTypeOK
<1> QED
  BY <1>1, <1>3, <1>8, <1>9, <1>10, <1>11, StoreStepKeeps

(* A db.put() replaces one value by a new one, next to which nothing is old. *)
LEMMA PutDb ==
  ASSUME ProfileInv, NEW s \in Stores, store[s].stage = "put", NEW key \in DbKey,
         db' = [db EXCEPT ![key] = <<ValueFor(s, key)>>]
  PROVE  /\ DbTypeOK' /\ DbInv' /\ \A k \in DbKey : ~IsOld(k)'
         /\ db'[key] = <<ValueFor(s, key)>> /\ \A k \in DbKey \ {key} : db'[k] = db[k]
<1> DEFINE enc == EncryptedKeyring(store[s].password, storageFormatVersion, store[s].serialized[1])
<1>1. DbTypeOK /\ DbInv /\ StoreInv(s) /\ StoreTypeOK(s) /\ store[s] \in Store
  BY StoreFacts DEF ProfileInv, ProfileTypeOK, InProgress
<1>2. /\ DOMAIN db' = DbKey /\ db'[key] = <<ValueFor(s, key)>>
      /\ \A k \in DbKey \ {key} : db'[k] = db[k]
  BY <1>1 DEF DbTypeOK
<1>3. \A k \in DbKey : ~IsOld(k)
  BY <1>1 DEF StoreInv, ErasesOld
<1>4. db.format_version # <<1>> /\ (db.keyring # <<>> => db.keyring[1].version # 1)
  BY <1>3 DEF IsOld, DbKey
<1>5. GoodData(store[s].serialized[1])
  BY <1>1 DEF StoreInv, Writes
<1>6. enc \in StoredKeyring /\ enc.version = 2 /\ enc.keyring = store[s].serialized[1]
  BY <1>1, <1>5 DEF EncryptedKeyring, StoredKeyring, Store, GoodData, storageFormatVersion
<1>7. db'.created_at \in {<<>>, <<"date">>}
  <2>1. CASE key = "created_at"
    BY <1>2, <2>1 DEF ValueFor
  <2>2. CASE key # "created_at"
    BY <1>1, <1>2, <2>2 DEF DbTypeOK, DbKey
  <2> QED
    BY <2>1, <2>2
<1>8. db'.format_version \in {<<>>, <<2>>}
  <2>1. CASE key = "format_version"
    BY <1>2, <2>1 DEF ValueFor, storageFormatVersion
  <2>2. CASE key # "format_version"
    BY <1>1, <1>2, <1>4, <2>2 DEF DbTypeOK, DbKey, storageFormatVersion
  <2> QED
    BY <2>1, <2>2
<1> HIDE DEF enc
<1>9. /\ db'.keyring \in Seq(StoredKeyring) /\ Len(db'.keyring) <= 1
      /\ db'.keyring # <<>> => db'.keyring[1].version = 2 /\ GoodData(db'.keyring[1].keyring)
  <2>1. CASE key = "keyring"
    <3>1. db'.keyring = <<enc>>
      BY <1>2, <2>1 DEF ValueFor, enc
    <3>2. <<enc>> \in Seq(StoredKeyring) /\ Len(<<enc>>) = 1 /\ <<enc>>[1] = enc
      BY <1>6
    <3>3. db'.keyring \in Seq(StoredKeyring) /\ Len(db'.keyring) <= 1
      <4>1. db'.keyring \in Seq(StoredKeyring)
        BY <3>1, <3>2, Zenon
      <4>2. Len(db'.keyring) = 1
        BY <3>1, <3>2, Zenon
      <4>3. 1 <= 1
        OBVIOUS
      <4> QED
        BY <4>1, <4>2, <4>3, Zenon
    <3>4. db'.keyring[1] = enc
      BY <3>1, <3>2
    <3> QED
      BY <1>5, <1>6, <3>3, <3>4
  <2>2. CASE key # "keyring"
    <3>1. db'.keyring = db.keyring
      BY <1>2, <2>2 DEF DbKey
    <3>2. db.keyring # <<>> => db.keyring[1] \in StoredKeyring
      BY <1>1, ElementOfSeq, LenProperties, EmptySeq DEF DbTypeOK
    <3>3. db.keyring # <<>> => db.keyring[1].version = 2
      BY <1>4, <3>2 DEF StoredKeyring, storageFormatVersion
    <3> QED
      BY <1>1, <3>1, <3>3 DEF DbTypeOK, DbInv
  <2> QED
    BY <2>1, <2>2
<1>10. DbTypeOK'
  BY <1>2, <1>7, <1>8, <1>9 DEF DbTypeOK, storageFormatVersion
<1>11. DbInv'
  BY <1>8, <1>9 DEF DbInv, VersionMatchesKeyring
<1>12. \A k \in DbKey : ~IsOld(k)'
  <2>1. <<1>> # <<2>> /\ <<1>> # <<>>
    OBVIOUS
  <2>2. db'.format_version # <<1>> /\ (db'.keyring # <<>> => db'.keyring[1].version # 1)
    BY <1>8, <1>9, <2>1
  <2> QED
    BY <2>2 DEF IsOld
<1> QED
  BY <1>2, <1>10, <1>11, <1>12

(* The first and the second db.put(). *)
LEMMA PutStep ==
  ASSUME ProfileInv, NEW s \in Stores, Put(s), store[s].todo # <<"keyring">>
  PROVE  ProfileInv'
<1> DEFINE todo == store[s].todo
           key == Head(todo)
           rest == Tail(todo)
           x == [store[s] EXCEPT !.todo = rest]
<1>1. store[s].stage = "put" /\ InProgress(s)
  BY DEF Put, InProgress
<1>2. store[s] \in Store /\ StoreInv(s) /\ StoreTypeOK(s) /\ store = [t \in Stores |-> store[t]]
  BY <1>1, StoreFacts DEF ProfileInv, ProfileTypeOK
<1>3. todo \in {<<"format_version", "created_at", "keyring">>, <<"created_at", "keyring">>}
  BY <1>1, <1>2 DEF StoreInv, Writes, PutOrder
<1>4. Len(todo) # 1 /\ rest \in PutOrder
  <2>1. CASE todo = <<"format_version", "created_at", "keyring">>
    <3>1. Tail(<<"format_version", "created_at", "keyring">>) = <<"created_at", "keyring">>
      OBVIOUS
    <3> QED
      BY <2>1, <3>1 DEF PutOrder
  <2>2. CASE todo = <<"created_at", "keyring">>
    <3>1. Tail(<<"created_at", "keyring">>) = <<"keyring">>
      OBVIOUS
    <3> QED
      BY <2>2, <3>1 DEF PutOrder
  <2> QED
    BY <1>3, <2>1, <2>2
<1>5. todo \in Seq(DbKey) /\ todo # <<>>
  BY <1>1, <1>2 DEF Store, StoreTypeOK
<1>6. /\ UNCHANGED <<keyringVars, memoryVars, load, durable>> /\ db' = [db EXCEPT ![key] = <<ValueFor(s, key)>>]
      /\ store' = [store EXCEPT ![s] = x] /\ store'[s] = x
  BY <1>2, <1>4 DEF Put
<1> HIDE DEF todo
<1>7. key \in DbKey /\ rest \in Seq(DbKey) /\ \A k \in Range(todo) : k = key \/ k \in Range(rest)
  BY <1>5, TailFacts
<1>8. rest # <<>>
  BY <1>4 DEF PutOrder
<1> HIDE DEF key, rest
<1>9. /\ x \in Store /\ x.stage = "put" /\ x.todo = rest /\ x.serialized = store[s].serialized
      /\ x.alone = store[s].alone /\ x.identities = store[s].identities
  BY <1>1, <1>2, <1>7 DEF Store
<1> HIDE DEF x
<1>10. /\ DbTypeOK' /\ DbInv' /\ \A k \in DbKey : ~IsOld(k)'
       /\ db'[key] # <<>> /\ \A k \in DbKey \ {key} : db'[k] = db[k]
  <2> DEFINE value == ValueFor(s, key)
  <2>1. <<value>> # <<>>
    <3> HIDE DEF value
    <3> QED
      OBVIOUS
  <2>2. /\ DbTypeOK' /\ DbInv' /\ \A k \in DbKey : ~IsOld(k)'
        /\ db'[key] = <<value>> /\ \A k \in DbKey \ {key} : db'[k] = db[k]
    BY <1>1, <1>6, <1>7, PutDb
  <2> HIDE DEF value
  <2> QED
    BY <2>1, <2>2
<1>11. StoreTypeOK(s)'
  BY <1>1, <1>2, <1>6, <1>8, <1>9 DEF StoreTypeOK
<1>12. StoreInv(s)'
  <2>1. ErasesOld(s)' /\ WillWrite(s)'
    BY <1>6, <1>9, <1>10 DEF ErasesOld, WillWrite
  <2>2. RunsAlone(s)'
    BY <1>1, <1>2, <1>6, <1>9 DEF StoreInv, RunsAlone, InProgress
  <2>3. Writes(s)'
    <3>1. ASSUME store[s].alone, NEW k \in DbKey \ Range(rest) PROVE db'[k] # <<>>
      BY <1>1, <1>2, <1>7, <1>10, <3>1 DEF StoreInv, Writes, todo
    <3>2. /\ GoodData(store[s].serialized[1])
          /\ store[s].identities \subseteq getAllIdentities(deserializeWallets(store[s].serialized[1]))
      BY <1>1, <1>2 DEF StoreInv, Writes
    <3> QED
      BY <1>4, <1>6, <1>9, <3>1, <3>2 DEF Writes
  <2> QED
    BY <2>1, <2>2, <2>3 DEF StoreInv
<1>13. /\ ResolvedStoreIsDurable'
       /\ durable' \in Seq([password : Password, identities : SUBSET Identity])
  BY <1>1, <1>2, <1>6 DEF ProfileInv, ProfileTypeOK, StoreInv, RunsAlone, ResolvedStoreIsDurable
<1> QED
  BY <1>1, <1>6, <1>10, <1>11, <1>12, <1>13, StoreStepKeeps

(* The last db.put(): storeIn() resolves. *)
LEMMA ResolveStep ==
  ASSUME ProfileInv, NEW s \in Stores, Put(s), store[s].todo = <<"keyring">>
  PROVE  ProfileInv'
<1> DEFINE promise == [password |-> store[s].password, identities |-> store[s].identities]
           enc == EncryptedKeyring(store[s].password, storageFormatVersion, store[s].serialized[1])
<1>1. store[s].stage = "put" /\ InProgress(s)
  BY DEF Put, InProgress
<1>2. store[s] \in Store /\ StoreInv(s) /\ StoreTypeOK(s) /\ store = [t \in Stores |-> store[t]]
  BY <1>1, StoreFacts DEF ProfileInv, ProfileTypeOK
<1>3. Len(store[s].todo) = 1 /\ Head(store[s].todo) = "keyring" /\ "keyring" \in DbKey
  BY DEF DbKey
<1>4. /\ UNCHANGED <<keyringVars, memoryVars, load>> /\ db' = [db EXCEPT !["keyring"] = <<ValueFor(s, "keyring")>>]
      /\ store' = [store EXCEPT ![s] = NoStore]
      /\ durable' = IF store[s].alone THEN <<promise>> ELSE durable
  BY <1>3 DEF Put, Resolve
<1>5. store'[s] = NoStore /\ NoStore.stage = "none"
  BY <1>2, <1>4 DEF NoStore
<1>6. /\ DbTypeOK' /\ DbInv' /\ \A k \in DbKey : ~IsOld(k)'
      /\ db'["keyring"] = <<ValueFor(s, "keyring")>> /\ \A k \in DbKey \ {"keyring"} : db'[k] = db[k]
  BY <1>1, <1>3, <1>4, PutDb
<1>7. StoreTypeOK(s)' /\ StoreInv(s)'
  BY <1>5 DEF StoreTypeOK, StoreInv, ErasesOld, RunsAlone, InProgress, WillWrite, Writes
<1>8. ValueFor(s, "keyring") = enc /\ enc.password = store[s].password /\ enc.keyring = store[s].serialized[1]
  BY DEF ValueFor, EncryptedKeyring
<1>9. db'.keyring # <<>> /\ db'.keyring[1].password = store[s].password
      /\ db'.keyring[1].keyring = store[s].serialized[1]
  <2> HIDE DEF enc
  <2>1. db'.keyring = <<enc>>
    BY <1>6, <1>8
  <2> QED
    BY <1>8, <2>1
<1>10. promise \in [password : Password, identities : SUBSET Identity]
       /\ promise.password = store[s].password /\ promise.identities = store[s].identities
  BY <1>2 DEF Store
<1> HIDE DEF promise
<1>11. durable' \in Seq([password : Password, identities : SUBSET Identity])
  <2>1. <<promise>> \in Seq([password : Password, identities : SUBSET Identity])
    BY <1>10
  <2>2. durable' = <<promise>> \/ durable' = durable
    BY <1>4
  <2> QED
    BY <2>1, <2>2 DEF ProfileInv, ProfileTypeOK
<1>12. ResolvedStoreIsDurable'
  <2>1. CASE store[s].alone
    <3>1. durable' = <<promise>> /\ durable'[1] = promise
      BY <1>4, <2>1
    <3>2. \A k \in DOMAIN db' : db'[k] # <<>>
      <4>1. Range(<<"keyring">>) = {"keyring"}
        BY DEF Range
      <4>2. \A k \in DbKey \ {"keyring"} : db[k] # <<>>
        BY <1>1, <1>2, <2>1, <4>1 DEF StoreInv, Writes
      <4>3. DOMAIN db' = DbKey
        BY <1>6 DEF DbTypeOK
      <4> QED
        BY <1>6, <1>9, <4>2, <4>3
    <3>3. store[s].identities \subseteq getAllIdentities(deserializeWallets(store[s].serialized[1]))
      BY <1>1, <1>2 DEF StoreInv, Writes
    <3> QED
      BY <1>9, <1>10, <3>1, <3>2, <3>3 DEF ResolvedStoreIsDurable
  <2>2. CASE ~store[s].alone
    BY <1>1, <1>2, <1>4, <2>2 DEF StoreInv, RunsAlone, ResolvedStoreIsDurable
  <2> QED
    BY <2>1, <2>2
<1>13. durable' = durable \/ store[s].alone
  BY <1>4
<1> QED
  BY <1>1, <1>4, <1>6, <1>7, <1>11, <1>12, <1>13, StoreStepKeeps

(* storeIn() is called: nothing is promised any more, and no store that is   *)
(* in progress is alone.                                                     *)
LEMMA StoreInStep ==
  ASSUME ProfileInv, NEW s \in Stores, NEW secret \in Secret, StoreIn(s, secret)
  PROVE  ProfileInv'
<1> DEFINE v == IF secret.version = 0 THEN storageFormatVersion ELSE secret.version
           free == ~\E u \in Stores : InProgress(u)
           ids == IF \E u \in Stores : InProgress(u) THEN {} ELSE getAllIdentities(wallets)
           x == [stage |-> "list", todo |-> <<>>, keyring |-> TRUE, serialized |-> <<>>,
                 password |-> secret.password, version |-> v, alone |-> free, identities |-> ids]
<1>1. /\ UNCHANGED <<keyringVars, memoryVars, db, load>> /\ profile = "unlocked" /\ store[s] = NoStore
      /\ durable' = <<>>
      /\ store' = [t \in Stores |-> IF t = s THEN x
                                    ELSE IF InProgress(t)
                                         THEN [store[t] EXCEPT !.alone = FALSE, !.identities = {}]
                                    ELSE store[t]]
  BY DEF StoreIn
<1>2. ids \subseteq Identity
  <2>1. wallets \in Seq(Wallet)
    BY DEF ProfileInv, KeyringInv, KeyringTypeOK
  <2>2. ASSUME NEW n \in DOMAIN wallets PROVE IdentitiesOf(wallets[n]) \subseteq Identity
    <3>1. wallets[n] \in Wallet
      BY <2>1, ElementOfSeq, LenProperties
    <3>2. wallets[n].identities \in Seq(Entry)
      BY <3>1 DEF Wallet
    <3>3. \A e \in DOMAIN wallets[n].identities : wallets[n].identities[e] \in Entry
      BY <3>2, ElementOfSeq, LenProperties
    <3> QED
      BY <3>3 DEF IdentitiesOf, Entry
  <2> QED
    BY <2>2 DEF getAllIdentities
<1>3. free \in BOOLEAN /\ v \in 1 .. storageFormatVersion /\ secret.password \in Password
  BY DEF Secret, storageFormatVersion
<1> HIDE DEF v, free, ids
<1>4. <<>> \in Seq(DbKey) /\ <<>> \in Seq(SerializedKeyring)
  OBVIOUS
<1>5. x \in Store /\ x.stage = "list" /\ x.keyring = TRUE /\ x.alone = free /\ x.identities = ids
  BY <1>2, <1>3, <1>4 DEF Store
<1> HIDE DEF x
<1>6. store'[s] = x /\ store' = [t \in Stores |-> store'[t]]
  BY <1>1
<1>7. ASSUME NEW t \in Stores \ {s}
      PROVE  /\ store'[t] \in Store \cup {NoStore, [stage |-> "hung"]}
             /\ store'[t].stage = store[t].stage
             /\ InProgress(t) =>
                  /\ store'[t].todo = store[t].todo /\ store'[t].keyring = store[t].keyring
                  /\ store'[t].serialized = store[t].serialized /\ store'[t].alone = FALSE
                  /\ store'[t].identities = {}
  <2>1. CASE InProgress(t)
    <3>1. store[t] \in Store /\ store'[t] = [store[t] EXCEPT !.alone = FALSE, !.identities = {}]
      BY <1>1, <2>1, StoreFacts DEF ProfileInv
    <3> QED
      BY <3>1 DEF Store
  <2>2. CASE ~InProgress(t)
    BY <1>1, <2>2, StoreFacts DEF ProfileInv
  <2> QED
    BY <2>1, <2>2
<1>8. StoreTypeOK(s)' /\ StoreInv(s)'
  <2>1. StoreTypeOK(s)' /\ ErasesOld(s)' /\ Writes(s)'
    BY <1>5, <1>6 DEF StoreTypeOK, ErasesOld, Writes
  <2>2. WillWrite(s)'
    BY <1>1, <1>5, <1>6 DEF WillWrite, ids, memoryVars, keyringVars
  <2>3. RunsAlone(s)'
    BY <1>1, <1>5, <1>6, <1>7 DEF RunsAlone, InProgress, free
  <2> QED
    BY <2>1, <2>2, <2>3 DEF StoreInv
<1>9. ASSUME NEW t \in Stores \ {s} PROVE StoreTypeOK(t)' /\ StoreInv(t)'
  <2>1. StoreInv(t) /\ StoreTypeOK(t)
    BY DEF ProfileInv, ProfileTypeOK
  <2>2. StoreTypeOK(t)'
    BY <1>7, <2>1 DEF StoreTypeOK, InProgress
  <2>3. ErasesOld(t)'
    BY <1>1, <1>7, <2>1 DEF StoreInv, ErasesOld, IsOld, InProgress
  <2>4. RunsAlone(t)'
    BY <1>1, <1>7 DEF RunsAlone, InProgress
  <2>5. WillWrite(t)' /\ Writes(t)'
    BY <1>1, <1>7, <2>1 DEF StoreInv, WillWrite, Writes, InProgress, memoryVars, keyringVars
  <2> QED
    BY <2>2, <2>3, <2>4, <2>5 DEF StoreInv
<1>10. KeyringInv' /\ KeyringTypeOK'
  BY <1>1, KeyringStutter DEF ProfileInv, KeyringInv
<1>11. durable' \in Seq([password : Password, identities : SUBSET Identity]) /\ ResolvedStoreIsDurable'
  <2>1. durable' = <<>>
    BY <1>1
  <2>2. <<>> \in Seq([password : Password, identities : SUBSET Identity])
    OBVIOUS
  <2> QED
    BY <2>1, <2>2 DEF ResolvedStoreIsDurable
<1>12. ProfileTypeOK'
  BY <1>1, <1>6, <1>8, <1>9, <1>10, <1>11 DEF ProfileInv, ProfileTypeOK, DbTypeOK, LoadTypeOK, memoryVars
<1>13. PublishedWalletsAreCurrent' /\ DbInv' /\ LoadInv'
  BY <1>1 DEF ProfileInv, PublishedWalletsAreCurrent, DbInv, VersionMatchesKeyring, LoadInv, memoryVars, keyringVars
<1> QED
  BY <1>8, <1>9, <1>10, <1>11, <1>12, <1>13 DEF ProfileInv
-----------------------------------------------------------------------------
(* The initial state: an empty database, or one of an older release. *)
LEMMA ProfileStart ==
  ProfileInit => ProfileInv
<1> SUFFICES ASSUME ProfileInit PROVE ProfileInv
  OBVIOUS
<1>1. /\ KeyringInit /\ profile = "none" /\ store = [s \in Stores |-> NoStore] /\ load = NoLoad
      /\ durable = <<>> /\ (db = EmptyDb \/ db \in Version1Db)
  BY DEF ProfileInit
<1>2. NoStore.stage = "none" /\ NoLoad.stage = "none"
  BY DEF NoStore, NoLoad
<1>3. KeyringInv /\ KeyringTypeOK
  BY <1>1, KeyringInvInit DEF KeyringInv
<1>4. DbTypeOK /\ DbInv
  <2>1. CASE db = EmptyDb
    <3>1. DOMAIN db = DbKey /\ db.created_at = <<>> /\ db.format_version = <<>> /\ db.keyring = <<>>
      BY <2>1 DEF EmptyDb, DbKey
    <3>2. <<>> \in Seq(StoredKeyring) /\ Len(<<>>) = 0
      OBVIOUS
    <3>3. db.keyring \in Seq(StoredKeyring) /\ Len(db.keyring) <= 1
      <4>1. Len(db.keyring) = 0
        BY <3>1
      <4> QED
        BY <3>1, <3>2, <4>1
    <3> QED
      BY <3>1, <3>3 DEF DbTypeOK, DbInv, VersionMatchesKeyring
  <2>2. CASE db \in Version1Db
    <3>1. PICK p \in Password, w \in NewWallets :
            db = [created_at |-> <<"date">>, format_version |-> <<1>>,
                  keyring |-> <<EncryptedKeyring(p, 1, serialize(<<w>>))>>]
      BY <2>2 DEF Version1Db
    <3> DEFINE data == serialize(<<w>>)
               enc == EncryptedKeyring(p, 1, data)
    <3>2. GoodData(data)
      BY SmallKeyrings, SerializeFacts
    <3> HIDE DEF data
    <3>3. enc \in StoredKeyring /\ enc.version = 1 /\ enc.keyring = data
      BY <3>2 DEF EncryptedKeyring, StoredKeyring, GoodData, storageFormatVersion
    <3>4. /\ DOMAIN db = {"created_at", "format_version", "keyring"}
          /\ db.created_at = <<"date">> /\ db.format_version = <<1>> /\ db.keyring = <<enc>>
      BY <3>1 DEF data
    <3> HIDE DEF enc
    <3>5. <<enc>> \in Seq(StoredKeyring) /\ Len(<<enc>>) = 1 /\ <<enc>>[1] = enc
      BY <3>3
    <3>6. db.keyring \in Seq(StoredKeyring) /\ Len(db.keyring) = 1 /\ db.keyring[1] = enc
      BY <3>4, <3>5, Zenon
    <3>7. db.format_version[1] = 1
      BY <3>4
    <3> QED
      BY <3>2, <3>3, <3>4, <3>6, <3>7 DEF DbTypeOK, DbKey, DbInv, VersionMatchesKeyring
  <2> QED
    BY <1>1, <2>1, <2>2
<1>5. ProfileTypeOK
  BY <1>1, <1>2, <1>3, <1>4 DEF ProfileTypeOK, StoreTypeOK, LoadTypeOK
<1>6. PublishedWalletsAreCurrent /\ LoadInv /\ ResolvedStoreIsDurable
  BY <1>1, <1>2 DEF PublishedWalletsAreCurrent, LoadInv, ResolvedStoreIsDurable
<1>7. ASSUME NEW s \in Stores PROVE StoreInv(s)
  BY <1>1, <1>2 DEF StoreInv, ErasesOld, RunsAlone, InProgress, WillWrite, Writes
<1> QED
  BY <1>3, <1>4, <1>5, <1>6, <1>7 DEF ProfileInv

(* ProfileInv is inductive: one case for each operation. *)
LEMMA ProfileStep ==
  ASSUME ProfileInv, [ProfileNext]_profileVars
  PROVE  ProfileInv'
<1>1. CASE NewProfile \/ LoadDone
  BY <1>1, StartStep
<1>2. CASE Lock
  BY <1>2, LockStep
<1>3. CASE \/ \E w \in NewWallets : AddWallet(w)
           \/ \E id \in WalletId, l \in Label : ProfileSetWalletLabel(id, l)
  BY <1>3, PublishingStep
<1>4. CASE \E i \in Identity, l \in Label : ProfileSetIdentityLabel(i, l)
  BY <1>4, IdentityLabelStep
<1>5. CASE \E c \in Calls : ProfileCreateIdentity(c)
  BY <1>5, CreateIdentityStep
<1>6. ASSUME NEW s \in Stores, StoreSteps(s) PROVE ProfileInv'
  BY <1>6, StoreInStep, ListKeysStep, DeleteKeyStep, StoreEnds, SerializeStep, PutStep, ResolveStep DEF StoreSteps
<1>7. CASE LoadSteps /\ ~LoadDone
  BY <1>7, LoadStep DEF LoadSteps
<1>8. CASE Crash
  BY <1>8, CrashStep
<1>9. CASE UNCHANGED profileVars
  <2>1. UNCHANGED <<wallets, calls, profile, published, db, store, load, durable>>
    BY <1>9 DEF profileVars, keyringVars, memoryVars, storageVars
  <2>2. KeyringInv' /\ PublishedWalletsAreCurrent' /\ LoadTypeOK' /\ LoadInv'
    BY <2>1, KeyringStutter DEF ProfileInv, ProfileTypeOK, PublishedWalletsAreCurrent, LoadTypeOK, LoadInv, keyringVars
  <2> QED
    BY <2>1, <2>2, StorageStays DEF ProfileInv, ProfileTypeOK
<1> QED
  BY <1>1, <1>2, <1>3, <1>4, <1>5, <1>6, <1>7, <1>8, <1>9 DEF ProfileNext

(* ProfileInv holds in every reachable state. *)
LEMMA ProfileAlways ==
  ProfileSpec => []ProfileInv
<1>1. ProfileInv /\ [ProfileNext]_profileVars => ProfileInv'
  BY ProfileStep
<1> QED
  BY <1>1, ProfileStart, PTL DEF ProfileSpec

(* The memory, the database and every suspended storeIn() and loadFrom()     *)
(* keep their types: what a step reads is there.                             *)
THEOREM ProfileTypeCorrect ==
  ProfileSpec => []ProfileTypeOK
<1>1. ProfileInv => ProfileTypeOK
  BY DEF ProfileInv
<1> QED
  BY <1>1, ProfileAlways, PTL

(* UserProfile.wallets shows the wallets of the keyring of an unlocked       *)
(* profile, for any number of suspended createIdentity() calls.              *)
THEOREM PublishedStaysCurrent ==
  ProfileSpec => []PublishedWalletsAreCurrent
<1>1. ProfileInv => PublishedWalletsAreCurrent
  BY DEF ProfileInv
<1> QED
  BY <1>1, ProfileAlways, PTL

(* The format version in the database is the one of the keyring next to it,  *)
(* with any number of storeIn() calls that overlap, fail or are cut off by a *)
(* crash, also over a database of an older release.                          *)
THEOREM VersionStaysRight ==
  ProfileSpec => []VersionMatchesKeyring
<1>1. ProfileInv => VersionMatchesKeyring
  BY DEF ProfileInv, DbInv
<1> QED
  BY <1>1, ProfileAlways, PTL

(* A storeIn() that no other one overlapped with and that has resolved keeps *)
(* its promise until the next one starts, over locks, loads and crashes.     *)
THEOREM ResolvedStoreStays ==
  ProfileSpec => []ResolvedStoreIsDurable
<1>1. ProfileInv => ResolvedStoreIsDurable
  BY DEF ProfileInv
<1> QED
  BY <1>1, ProfileAlways, PTL

(* The keyring of a profile has what is shown above of a keyring, also       *)
(* when it was stored and loaded again.                                      *)
THEOREM ProfileKeyringStaysGood ==
  ProfileSpec => [](WalletIdentitiesUnique /\ PlainWalletsDisjoint)
<1>1. ProfileInv => WalletIdentitiesUnique /\ PlainWalletsDisjoint
  BY DEF ProfileInv, KeyringInv
<1> QED
  BY <1>1, ProfileAlways, PTL

=============================================================================
