-------------------------- MODULE MultiChainSigner --------------------------
(***************************************************************************)
(* MultiChainSigner of iov-multichain: the chains an application connects  *)
(* to, and the calls of signAndPost() that read a nonce, have the profile  *)
(* sign and post the transaction, suspended at every one of these awaits.  *)
(*                                                                         *)
(* Every call r signs a transaction of its own, so r also names the        *)
(* transaction.  The nodes are external: a nonce is answered from the      *)
(* committed state, a transaction is checked against the mempool, and the  *)
(* network may lose an answer.                                             *)
(***************************************************************************)
EXTENDS Naturals, Sequences, SequencesExt

CONSTANTS
  ChainId,
  Identity,
  ChainOf,      \* ChainOf[i]: the chain of identity i
  Requests,     \* calls of signAndPost
  Adds,         \* calls of addChain; a call names its connection
  NoChain       \* no connection, no expected chain ID

ASSUME ChainAssumption ==
  /\ ChainOf \in [Identity -> ChainId]
  /\ NoChain \notin Adds \cup ChainId

VARIABLES
  knownChains,  \* knownChains[c]: the connection registered for chain c
  adding,       \* adding[a]: the connector of an addChain in progress
  connection,   \* connection[a]: "none", "open" or "closed"
  profile,      \* "unlocked" or "locked"
  call,         \* call[r]: a signAndPost
  nonces,       \* nonces[i]: committed transactions of i, by any device
  mempool,      \* mempool[i]: transactions of i that wait for a block
  accepted      \* history: transactions a node has accepted

chainVars == <<knownChains, adding, connection>>
nodeVars == <<nonces, mempool, accepted>>
signerVars == <<chainVars, profile, call, nodeVars>>

Connector == [actual : ChainId, expectedChainId : ChainId \cup {NoChain}]
NotAdding == [actual |-> NoChain, expectedChainId |-> NoChain]
NoCall == [stage |-> "none"]
Call == [stage : {"auth", "nonce", "answered", "sign", "post", "accepted", "rejected",
                  "posted", "failed"},
         identity : Identity, nonce : Nat, overlap : BOOLEAN]

SignerTypeOK ==
  /\ knownChains \in [ChainId -> Adds \cup {NoChain}]
  /\ adding \in [Adds -> Connector \cup {NotAdding}]
  /\ connection \in [Adds -> {"none", "open", "closed"}]
  /\ profile \in {"unlocked", "locked"}
  /\ call \in [Requests -> Call \cup {NoCall}]
  /\ nonces \in [Identity -> Nat]
  /\ mempool \in [Identity -> Seq(Requests)]
  /\ accepted \subseteq Requests

SignerInit ==
  /\ knownChains = [c \in ChainId |-> NoChain]
  /\ adding = [a \in Adds |-> NotAdding]
  /\ connection = [a \in Adds |-> "none"]
  /\ profile = "unlocked"
  /\ call = [r \in Requests |-> NoCall]
  /\ nonces = [i \in Identity |-> 0]
  /\ mempool = [i \in Identity |-> <<>>]
  /\ accepted = {}
-----------------------------------------------------------------------------
(* addChain up to the await of establishConnection(). *)
AddChain(a, connector) ==
  /\ adding[a] = NotAdding
  /\ connection[a] = "none"
  /\ adding' = [adding EXCEPT ![a] = connector]
  /\ UNCHANGED <<knownChains, connection, profile, call, nodeVars>>

(* The rest of addChain.  The two errors are thrown with the connection     *)
(* open; the map is only changed when neither is.                           *)
Connected(a) ==
  LET c == adding[a].actual IN
  /\ adding[a] # NotAdding
  /\ connection' = [connection EXCEPT ![a] = "open"]
  /\ adding' = [adding EXCEPT ![a] = NotAdding]
  /\ knownChains' =
       IF adding[a].expectedChainId \in {NoChain, c} /\ knownChains[c] = NoChain
       THEN [knownChains EXCEPT ![c] = a]
       ELSE knownChains
  /\ UNCHANGED <<profile, call, nodeVars>>

ConnectFails(a) ==
  /\ adding[a] # NotAdding
  /\ adding' = [adding EXCEPT ![a] = NotAdding]
  /\ UNCHANGED <<knownChains, connection, profile, call, nodeVars>>

(* shutdown(): the connections of the chains known now. *)
DisconnectAll ==
  connection' = [a \in Adds |-> IF \E c \in ChainId : knownChains[c] = a THEN "closed"
                                ELSE connection[a]]
-----------------------------------------------------------------------------
At(r, stage) == call[r].stage = stage
To(r, stage) == call' = [call EXCEPT ![r].stage = stage]

(* A call the user has not authorized yet. *)
Asked(i) == [stage |-> "auth", identity |-> i, nonce |-> 0, overlap |-> FALSE]

(* getChain() throws for an unknown chain, otherwise getNonce() is awaited. *)
StartCall(r) ==
  To(r, IF knownChains[ChainOf[call[r].identity]] = NoChain THEN "failed" ELSE "nonce")

(* Mutant: the nonce of a call made before is used again. *)
AnswerNonceMutant(r) ==
  LET i == call[r].identity
      earlier == {q \in Requests \ {r} : call[q].stage \notin {"none", "auth"} /\ call[q].identity = i}
  IN
  /\ At(r, "nonce")
  /\ call' = [call EXCEPT ![r].stage = "answered",
                          ![r].nonce = IF earlier = {} THEN nonces[i]
                                       ELSE call[CHOOSE q \in earlier : TRUE].nonce,
                          ![r].overlap = mempool[i] # <<>>]
  /\ UNCHANGED <<chainVars, profile, nodeVars>>

(* The node answers getNonce() from the committed state. *)
AnswerNonce(r) ==
  LET i == call[r].identity IN
  /\ At(r, "nonce")
  /\ call' = [call EXCEPT ![r].stage = "answered", ![r].nonce = nonces[i],
                          ![r].overlap = mempool[i] # <<>>]
  /\ UNCHANGED <<chainVars, profile, nodeVars>>

(* profile.signTransaction() finds the wallet, which throws when the        *)
(* profile is locked, and awaits the signature.                             *)
SignTransaction(r) ==
  /\ At(r, "answered")
  /\ To(r, IF profile = "locked" THEN "failed" ELSE "sign")
  /\ UNCHANGED <<chainVars, profile, nodeVars>>

(* The signature is there: bytesToPost(), and postTx() is awaited. *)
PostTx(r) ==
  /\ At(r, "sign")
  /\ To(r, "post")
  /\ UNCHANGED <<chainVars, profile, nodeVars>>

(* External: the node checks the transaction against its mempool; from then *)
(* on, calls of the same identity that have read a nonce overlap with it.   *)
CheckTx(r) ==
  LET i == call[r].identity
      ok == call[r].nonce = nonces[i] + Len(mempool[i])
  IN
  /\ At(r, "post")
  /\ mempool' = IF ok THEN [mempool EXCEPT ![i] = Append(@, r)] ELSE mempool
  /\ accepted' = IF ok THEN accepted \cup {r} ELSE accepted
  /\ call' = [q \in Requests |->
       IF q = r THEN [call[q] EXCEPT !.stage = IF ok THEN "accepted" ELSE "rejected"]
       ELSE IF ok /\ call[q].stage \in {"answered", "sign", "post"} /\ call[q].identity = i
            THEN [call[q] EXCEPT !.overlap = TRUE]
            ELSE call[q]]
  /\ UNCHANGED <<chainVars, profile, nonces>>

(* External: a block with the oldest transaction of i. *)
Commit(i) ==
  /\ mempool[i] # <<>>
  /\ mempool' = [mempool EXCEPT ![i] = Tail(@)]
  /\ nonces' = [nonces EXCEPT ![i] = @ + 1]
  /\ UNCHANGED <<chainVars, profile, call, accepted>>

(* The answer of the node: postTx() resolves or throws. *)
PostReturns(r) ==
  /\ call[r].stage \in {"accepted", "rejected"}
  /\ To(r, IF At(r, "accepted") THEN "posted" ELSE "failed")

(* A request or its answer is lost, or the connection has been closed. *)
RequestFails(r) ==
  /\ call[r].stage \in {"nonce", "post", "accepted", "rejected"}
  /\ To(r, "failed")

(* lock() of the profile the signer uses. *)
LockProfile ==
  /\ profile = "unlocked"
  /\ profile' = "locked"
  /\ UNCHANGED <<chainVars, call, nodeVars>>
-----------------------------------------------------------------------------
(* The node refuses a transaction only if another one of the same identity  *)
(* was in the mempool when the nonce was read, or came in after that: a     *)
(* signAndPost() that overlaps with no other one always has a good nonce.   *)
RefusedOnlyByOverlap ==
  \A r \in Requests : At(r, "rejected") => call[r].overlap
=============================================================================
