---------------------------- MODULE UserProfile ----------------------------
(***************************************************************************)
(* UserProfile of iov-keycontrol: the keyring of an unlocked profile, the  *)
(* database it is stored in, and the asynchronous operations on both.      *)
(*                                                                         *)
(* The application uses one profile object at a time.  storeIn() and       *)
(* loadFrom() are suspended at every access to the database, so a store of *)
(* a profile that was locked meanwhile, another store and a load may       *)
(* interleave; the process may crash between any two steps, after which    *)
(* only the database is left.  An encryption secret is a password with the *)
(* format version of the key derived from it, version 0 standing for the   *)
(* password itself, from which the code derives the version it needs.      *)
(* Signing reads the keyring and changes nothing, and is left out.         *)
(***************************************************************************)
EXTENDS Keyring

CONSTANTS
  Password,
  Stores        \* slots for concurrent calls of storeIn

VARIABLES
  profile,      \* "none", "unlocked" or "locked"
  published,    \* current value of `wallets`, the infos shown to the user
  db,           \* the LevelUp database: <<>> or <<value>> for every key
  store,        \* store[s]: a storeIn in progress, or NoStore
  load,         \* a loadFrom in progress, or NoLoad
  durable       \* <<what a resolved storeIn promised>>, or <<>>

memoryVars == <<profile, published>>
storageVars == <<db, store, load, durable>>
profileVars == <<keyringVars, memoryVars, storageVars>>

storageFormatVersion == 2
Secret == [password : Password, version : 0 .. storageFormatVersion]

DbKey == {"created_at", "format_version", "keyring"}
EmptyDb == [k \in DbKey |-> <<>>]

(* The keyring encrypted with the key derived from password and version. *)
EncryptedKeyring(p, v, ks) == [password |-> p, version |-> v, keyring |-> ks]

walletInfos(ws) == [n \in DOMAIN ws |-> [id |-> ws[n].id, label |-> ws[n].label]]

NoStore == [stage |-> "none"]
NoLoad == [stage |-> "none"]
InProgress(s) == store[s].stage \in {"list", "delete", "put"}

(* What an application with an older release may have stored. *)
Version1Db ==
  {[created_at |-> <<"date">>, format_version |-> <<1>>,
    keyring |-> <<EncryptedKeyring(p, 1, serialize(<<w>>))>>] : p \in Password, w \in NewWallets}
-----------------------------------------------------------------------------
ProfileInit ==
  /\ KeyringInit
  /\ profile = "none"
  /\ published = <<>>
  /\ db \in {EmptyDb} \cup Version1Db
  /\ store = [s \in Stores |-> NoStore]
  /\ load = NoLoad
  /\ durable = <<>>

(* A new profile object: what was in progress on the old keyring goes on,   *)
(* but nobody can see that keyring any more.                                *)
StartProfile(ws) ==
  /\ wallets' = ws
  /\ calls' = [c \in Calls |-> Idle]
  /\ profile' = "unlocked"
  /\ published' = walletInfos(ws)

(* The constructor without options. *)
NewProfile ==
  /\ profile # "unlocked"
  /\ load = NoLoad
  /\ StartProfile(<<>>)
  /\ UNCHANGED storageVars

(* lock(): this.keyring is dropped, also for the stores that have not       *)
(* serialized it yet.                                                       *)
Lock ==
  /\ profile = "unlocked"
  /\ profile' = "locked"
  /\ store' = [s \in Stores |-> IF store[s].stage \in {"list", "delete"}
                                THEN [store[s] EXCEPT !.keyring = FALSE] ELSE store[s]]
  /\ UNCHANGED <<keyringVars, published, db, load, durable>>

(* Mutant: the list of wallets is not published again. *)
AddWalletMutant(w) ==
  /\ profile = "unlocked"
  /\ Add(w)
  /\ UNCHANGED <<published, profile, storageVars>>

AddWallet(w) ==
  /\ profile = "unlocked"
  /\ Add(w)
  /\ published' = walletInfos(wallets')
  /\ UNCHANGED <<profile, storageVars>>

ProfileSetWalletLabel(id, l) ==
  /\ profile = "unlocked"
  /\ SetWalletLabel(id, l)
  /\ published' = walletInfos(wallets')
  /\ UNCHANGED <<profile, storageVars>>

ProfileSetIdentityLabel(i, l) ==
  /\ profile = "unlocked"
  /\ SetIdentityLabel(i, l)
  /\ UNCHANGED <<memoryVars, storageVars>>

(* createIdentity needs an unlocked profile to start and none to go on. *)
ProfileCreateIdentity(c) ==
  /\ \/ profile = "unlocked" /\ \E id \in WalletId, i \in Identity : CreateIdentity(c, id, i)
     \/ CreateIdentityResumes(c)
  /\ UNCHANGED <<memoryVars, storageVars>>
-----------------------------------------------------------------------------
(* storeIn() up to the key stream of DatabaseUtils.clear.  What it promises *)
(* is kept in `identities` as long as it is the only one.                   *)
StoreIn(s, secret) ==
  /\ profile = "unlocked"
  /\ store[s] = NoStore
  /\ store' = [t \in Stores |->
       IF t = s
       THEN [stage |-> "list", todo |-> <<>>, keyring |-> TRUE, serialized |-> <<>>,
             password |-> secret.password,
             version |-> IF secret.version = 0 THEN storageFormatVersion ELSE secret.version,
             alone |-> ~\E u \in Stores : InProgress(u),
             identities |-> IF \E u \in Stores : InProgress(u) THEN {}
                            ELSE getAllIdentities(wallets)]
       ELSE IF InProgress(t) THEN [store[t] EXCEPT !.alone = FALSE, !.identities = {}]
       ELSE store[t]]
  /\ durable' = <<>>
  /\ UNCHANGED <<keyringVars, memoryVars, db, load>>

IfPresent(k) == IF db[k] = <<>> THEN <<>> ELSE <<k>>

(* Mutant: the keyring is not erased, it will be overwritten anyway. *)
ListKeysMutant(s) ==
  /\ store[s].stage = "list"
  /\ store' = [store EXCEPT ![s].stage = "delete",
                 ![s].todo = IfPresent("created_at") \o IfPresent("format_version")]
  /\ UNCHANGED <<keyringVars, memoryVars, db, load, durable>>

(* The key stream closes: the keys that are there now will be deleted, in   *)
(* the order of the stream.                                                 *)
ListKeys(s) ==
  /\ store[s].stage = "list"
  /\ store' = [store EXCEPT ![s].stage = "delete",
                 ![s].todo = IfPresent("created_at") \o IfPresent("format_version")
                               \o IfPresent("keyring")]
  /\ UNCHANGED <<keyringVars, memoryVars, db, load, durable>>

DeleteKey(s) ==
  /\ store[s].stage = "delete"
  /\ store[s].todo # <<>>
  /\ db' = [db EXCEPT ![Head(store[s].todo)] = <<>>]
  /\ store' = [store EXCEPT ![s].todo = Tail(@)]
  /\ UNCHANGED <<keyringVars, memoryVars, load, durable>>

(* A rejected db.del() is thrown in an event handler: the promise of        *)
(* clear(), and with it the one of storeIn(), never settles.                *)
DeleteFails(s) ==
  /\ store[s].stage = "delete"
  /\ store[s].todo # <<>>
  /\ store' = [store EXCEPT ![s] = [stage |-> "hung"]]
  /\ UNCHANGED <<keyringVars, memoryVars, db, load, durable>>

(* The database is clear and the key derived: this.keyring is serialized.   *)
Serialize(s) ==
  /\ store[s].stage = "delete"
  /\ store[s].todo = <<>>
  /\ store[s].version = storageFormatVersion
  /\ store[s].keyring
  /\ store' = [store EXCEPT ![s].stage = "put", ![s].serialized = <<serialize(wallets)>>,
                 ![s].todo = <<"format_version", "created_at", "keyring">>]
  /\ UNCHANGED <<keyringVars, memoryVars, db, load, durable>>

(* UnexpectedFormatVersionError, or a TypeError because the profile was     *)
(* locked; the database stays empty.                                        *)
SerializeThrows(s) ==
  /\ store[s].stage = "delete"
  /\ store[s].todo = <<>>
  /\ store[s].version # storageFormatVersion \/ ~store[s].keyring
  /\ store' = [store EXCEPT ![s] = NoStore]
  /\ UNCHANGED <<keyringVars, memoryVars, db, load, durable>>

ValueFor(s, k) ==
  CASE k = "format_version" -> storageFormatVersion
    [] k = "created_at" -> "date"
    [] k = "keyring" ->
         EncryptedKeyring(store[s].password, storageFormatVersion, store[s].serialized[1])

Resolve(s) ==
  /\ store' = [store EXCEPT ![s] = NoStore]
  /\ durable' = IF store[s].alone
                THEN <<[password |-> store[s].password, identities |-> store[s].identities]>>
                ELSE durable

(* Mutant: the last put is not awaited, a crash may still lose it. *)
PutMutant(s) ==
  /\ store[s].stage = "put"
  /\ LET k == Head(store[s].todo)
     IN /\ db' = [db EXCEPT ![k] = <<ValueFor(s, k)>>]
        /\ IF Len(store[s].todo) = 2 THEN Resolve(s)
           ELSE store' = [store EXCEPT ![s].todo = Tail(@)] /\ UNCHANGED durable
  /\ UNCHANGED <<keyringVars, memoryVars, load>>

(* The next db.put(), after the last of which storeIn() resolves. *)
Put(s) ==
  /\ store[s].stage = "put"
  /\ LET k == Head(store[s].todo)
     IN /\ db' = [db EXCEPT ![k] = <<ValueFor(s, k)>>]
        /\ IF Len(store[s].todo) = 1 THEN Resolve(s)
           ELSE store' = [store EXCEPT ![s].todo = Tail(@)] /\ UNCHANGED durable
  /\ UNCHANGED <<keyringVars, memoryVars, load>>

(* The key stream or a db.put() fails and storeIn() rejects. *)
DatabaseFails(s) ==
  /\ store[s].stage \in {"list", "put"}
  /\ store' = [store EXCEPT ![s] = NoStore]
  /\ UNCHANGED <<keyringVars, memoryVars, db, load, durable>>

StoreSteps(s) ==
  \/ \E secret \in Secret : StoreIn(s, secret)
  \/ ListKeys(s)
  \/ DeleteKey(s)
  \/ DeleteFails(s)
  \/ Serialize(s)
  \/ SerializeThrows(s)
  \/ Put(s)
  \/ DatabaseFails(s)
-----------------------------------------------------------------------------
(* loadFrom() up to the first db.get(). *)
LoadFrom(secret) ==
  /\ profile # "unlocked"
  /\ load = NoLoad
  /\ load' = [stage |-> "format_version", password |-> secret.password,
              version |-> secret.version, data |-> <<>>]
  /\ UNCHANGED <<keyringVars, memoryVars, db, store, durable>>

(* A password is turned into a key of the version found, a key must have it. *)
VersionAccepted ==
  db.format_version # <<>> /\ load.version \in {0, db.format_version[1]}

LoadVersion ==
  /\ load.stage = "format_version"
  /\ VersionAccepted
  /\ load' = [load EXCEPT !.stage = "created_at", !.version = db.format_version[1]]
  /\ UNCHANGED <<keyringVars, memoryVars, db, store, durable>>

LoadCreatedAt ==
  /\ load.stage = "created_at"
  /\ db.created_at # <<>>
  /\ load' = [load EXCEPT !.stage = "keyring"]
  /\ UNCHANGED <<keyringVars, memoryVars, db, store, durable>>

LoadKeyring ==
  /\ load.stage = "keyring"
  /\ db.keyring # <<>>
  /\ load' = [load EXCEPT !.stage = "decrypt", !.data = db.keyring]
  /\ UNCHANGED <<keyringVars, memoryVars, db, store, durable>>

(* KeyringEncryptor.decrypt and new Keyring() accept the data that was read. *)
Decrypts(data, p, v) ==
  /\ data.password = p
  /\ data.version = v
  /\ CanDeserialize(data.keyring)

LoadDone ==
  /\ load.stage = "decrypt"
  /\ Decrypts(load.data[1], load.password, load.version)
  /\ StartProfile(deserializeWallets(load.data[1].keyring))
  /\ load' = NoLoad
  /\ UNCHANGED <<db, store, durable>>

(* A key is missing, the version is another one, decryption fails or two    *)
(* wallets of the data share an identity.                                   *)
LoadRejected ==
  /\ \/ load.stage = "format_version" /\ ~VersionAccepted
     \/ load.stage = "created_at" /\ db.created_at = <<>>
     \/ load.stage = "keyring" /\ db.keyring = <<>>
     \/ load.stage = "decrypt" /\ ~Decrypts(load.data[1], load.password, load.version)
  /\ load' = NoLoad
  /\ UNCHANGED <<keyringVars, memoryVars, db, store, durable>>

LoadSteps ==
  \/ \E secret \in Secret : LoadFrom(secret)
  \/ LoadVersion
  \/ LoadCreatedAt
  \/ LoadKeyring
  \/ LoadDone
  \/ LoadRejected

(* The process ends and is started again. *)
Crash ==
  /\ profile # "none" \/ load # NoLoad
  /\ wallets' = <<>>
  /\ calls' = [c \in Calls |-> Idle]
  /\ profile' = "none"
  /\ published' = <<>>
  /\ store' = [s \in Stores |-> NoStore]
  /\ load' = NoLoad
  /\ UNCHANGED <<db, durable>>
-----------------------------------------------------------------------------
ProfileNext ==
  \/ NewProfile
  \/ Lock
  \/ \E w \in NewWallets : AddWallet(w)
  \/ \E id \in WalletId, l \in Label : ProfileSetWalletLabel(id, l)
  \/ \E i \in Identity, l \in Label : ProfileSetIdentityLabel(i, l)
  \/ \E c \in Calls : ProfileCreateIdentity(c)
  \/ \E s \in Stores : StoreSteps(s)
  \/ LoadSteps
  \/ Crash

ProfileSpec == ProfileInit /\ [][ProfileNext]_profileVars
-----------------------------------------------------------------------------
(* The values in the database and the calls in progress. *)
SerializedKeyring ==
  [formatVersion : {1}, wallets : Seq([implementationId : {"hd", "ed25519"}, data : Wallet])]
StoredKeyring ==
  [password : Password, version : 1 .. storageFormatVersion, keyring : SerializedKeyring]
Store ==
  [stage : {"list", "delete", "put"}, todo : Seq(DbKey), keyring : BOOLEAN,
   serialized : Seq(SerializedKeyring), password : Password, version : 1 .. storageFormatVersion,
   alone : BOOLEAN, identities : SUBSET Identity]
Load ==
  [stage : DbKey \cup {"decrypt"}, password : Password, version : 0 .. storageFormatVersion,
   data : Seq(StoredKeyring)]

DbTypeOK ==
  /\ DOMAIN db = DbKey
  /\ db.created_at \in {<<>>, <<"date">>}
  /\ db.format_version \in {<<>>, <<1>>, <<storageFormatVersion>>}
  /\ db.keyring \in Seq(StoredKeyring) /\ Len(db.keyring) <= 1

StoreTypeOK(s) ==
  /\ store[s] \in Store \cup {NoStore, [stage |-> "hung"]}
  /\ store[s].stage = "put" => store[s].todo # <<>> /\ store[s].serialized # <<>>

LoadTypeOK ==
  /\ load \in Load \cup {NoLoad}
  /\ load.stage = "decrypt" => load.data # <<>>

(* Types of the memory, of the database and of the operations in progress: *)
(* what is written, read or promised is there when it is used.             *)
ProfileTypeOK ==
  /\ KeyringTypeOK
  /\ profile \in {"none", "unlocked", "locked"}
  /\ DbTypeOK
  /\ store = [s \in Stores |-> store[s]] /\ \A s \in Stores : StoreTypeOK(s)
  /\ LoadTypeOK
  /\ durable \in Seq([password : Password, identities : SUBSET Identity])

(* While the profile is unlocked, the list of wallets that UserProfile.wallets *)
(* shows to the application is the one in the keyring, whatever operations on  *)
(* the keyring are suspended and whether the profile was created or loaded.    *)
PublishedWalletsAreCurrent ==
  profile = "unlocked" => published = walletInfos(wallets)

(* The format version in the database is the one the keyring next to it was    *)
(* encrypted with, in the middle of a store, after a crash or a failed store   *)
(* and with two stores interleaved: storeIn() erases everything before it      *)
(* writes the version.                                                         *)
VersionMatchesKeyring ==
  db.format_version # <<>> /\ db.keyring # <<>> =>
    db.keyring[1].version = db.format_version[1]

(* What a storeIn() that no other overlapped has promised by resolving: until  *)
(* the next one starts, the database holds all three keys, encrypted with the  *)
(* secret given, and every identity that existed when storeIn() was called,    *)
(* over locks, loads and crashes.                                              *)
ResolvedStoreIsDurable ==
  durable # <<>> =>
    /\ \A k \in DOMAIN db : db[k] # <<>>
    /\ db.keyring[1].password = durable[1].password
    /\ durable[1].identities \subseteq getAllIdentities(deserializeWallets(db.keyring[1].keyring))
=============================================================================
