--------------------------- MODULE SigningServer ---------------------------
(***************************************************************************)
(* SigningServerCore and JsonRpcSigningServer of iov-multichain, with the  *)
(* JsonRpcClient of iov-jsonrpc on the other side of the messages.         *)
(*                                                                         *)
(* A request is what handleUnchecked() looks at of a message: whether it   *)
(* is a dictionary, whether its members have the right form, its method.   *)
(* The user decides every request in a callback that may also throw.       *)
(***************************************************************************)
EXTENDS MultiChainSigner

VARIABLES
  stage,          \* stage[r]: how far the handling of message r is
  response,       \* response[r]: what was answered, "none" before
  client,         \* client[r]: JsonRpcClient.run()
  authorized,     \* history: requests the user has authorized
  signedAndPosted \* the list shown to the user

serverVars == <<stage, response, client, authorized, signedAndPosted>>
vars == <<signerVars, serverVars>>

Message == [dictionary : BOOLEAN, version : BOOLEAN, id : BOOLEAN,
            method : {"getIdentities", "signAndPost", "other", "none"},
            params : {"dictionary", "array", "none"}, typesOK : BOOLEAN,
            identity : Identity]

Response == {"none", "identities", "null", "transactionId", "invalidRequest", "methodNotFound",
             "invalidParams", "serverError", "internalServerError", "unhandled"}

TypeOK ==
  /\ SignerTypeOK
  /\ stage \in [Requests -> {"none", "identities", "transaction", "done"}]
  /\ response \in [Requests -> Response]
  /\ client \in [Requests -> {"none", "pending", "resolved", "rejected"}]
  /\ authorized \subseteq Requests
  /\ signedAndPosted \in Seq(Requests)

Init ==
  /\ SignerInit
  /\ stage = [r \in Requests |-> "none"]
  /\ response = [r \in Requests |-> "none"]
  /\ client = [r \in Requests |-> "none"]
  /\ authorized = {}
  /\ signedAndPosted = <<>>
-----------------------------------------------------------------------------
(* parseJsonRpcRequest: the first error in the order of its checks. *)
parseJsonRpcRequest(m) ==
  IF /\ m.dictionary /\ m.version /\ m.id
     /\ m.method # "none" /\ m.params # "none"
  THEN "ok" ELSE "error"

(* The answer to a message that is no request.  parseJsonRpcId() throws     *)
(* again for what is no dictionary: handleUnchecked() rejects.              *)
InvalidRequest(m) == IF m.dictionary THEN "invalidRequest" ELSE "unhandled"

(* parseRpcCall: the name of the call, or the code of the error it throws.  *)
parseRpcCall(m) ==
  CASE m.params = "array" -> "serverError"
    [] m.params = "dictionary" /\ m.method = "other" -> "methodNotFound"
    [] m.params = "dictionary" /\ m.method # "other" ->
         IF m.typesOK THEN m.method ELSE "invalidParams"

Respond(r, answer) ==
  /\ stage' = [stage EXCEPT ![r] = "done"]
  /\ response' = [response EXCEPT ![r] = answer]

Await(r, s) ==
  /\ stage' = [stage EXCEPT ![r] = s]
  /\ UNCHANGED response

(* handleUnchecked up to the user's callback. getAllIdentities() throws     *)
(* when the profile is locked.                                              *)
Handle(r, m) ==
  \/ /\ parseJsonRpcRequest(m) = "error"
     /\ Respond(r, InvalidRequest(m))
     /\ UNCHANGED call
  \/ /\ parseJsonRpcRequest(m) = "ok"
     /\ parseRpcCall(m) \in {"serverError", "methodNotFound", "invalidParams"}
     /\ Respond(r, parseRpcCall(m))
     /\ UNCHANGED call
  \/ /\ parseJsonRpcRequest(m) = "ok"
     /\ parseRpcCall(m) = "getIdentities"
     /\ IF profile = "locked" THEN Respond(r, "serverError") ELSE Await(r, "identities")
     /\ UNCHANGED call
  \/ /\ parseJsonRpcRequest(m) = "ok"
     /\ parseRpcCall(m) = "signAndPost"
     /\ Await(r, "transaction")
     /\ call' = [call EXCEPT ![r] = Asked(m.identity)]

(* JsonRpcClient.run sends a request it has made itself; anything may come  *)
(* from elsewhere.                                                          *)
Receive(r, m) ==
  /\ stage[r] = "none"
  /\ client' = [client EXCEPT ![r] = IF parseJsonRpcRequest(m) = "ok" THEN "pending" ELSE "none"]
  /\ Handle(r, m)
  /\ UNCHANGED <<chainVars, profile, nodeVars, authorized, signedAndPosted>>

(* The user selects identities, or the callback throws: the client is told  *)
(* "Internal server error", whatever the error was.                         *)
AuthorizeGetIdentities(r) ==
  /\ stage[r] = "identities"
  /\ \E answer \in {"identities", "internalServerError"} : Respond(r, answer)
  /\ UNCHANGED <<signerVars, client, authorized, signedAndPosted>>

(* The user authorizes the transaction: MultiChainSigner.signAndPost. *)
Authorize(r) ==
  /\ stage[r] = "transaction"
  /\ At(r, "auth")
  /\ StartCall(r)
  /\ authorized' = authorized \cup {r}
  /\ UNCHANGED <<chainVars, profile, nodeVars, stage, response, client, signedAndPosted>>

(* Mutant: a callback that throws does not stop the transaction. *)
RejectMutant(r) ==
  /\ stage[r] = "transaction"
  /\ At(r, "auth")
  /\ \/ Respond(r, "null") /\ UNCHANGED call
     \/ StartCall(r) /\ UNCHANGED <<stage, response>>
  /\ UNCHANGED <<chainVars, profile, nodeVars, client, authorized, signedAndPosted>>

(* The user rejects the transaction, or the callback throws. *)
Reject(r) ==
  /\ stage[r] = "transaction"
  /\ At(r, "auth")
  /\ \E answer \in {"null", "internalServerError"} : Respond(r, answer)
  /\ UNCHANGED <<signerVars, client, authorized, signedAndPosted>>

(* Mutant: a refused transaction is answered like an accepted one. *)
PostTxReturnsMutant(r) ==
  /\ stage[r] = "transaction"
  /\ PostReturns(r)
  /\ signedAndPosted' = Append(signedAndPosted, r)
  /\ Respond(r, "transactionId")
  /\ UNCHANGED <<chainVars, profile, nodeVars, client, authorized>>

(* postTx() returns to MultiChainSigner, to the core, which appends to the  *)
(* current value of its list, and to the JSON-RPC server.                   *)
PostTxReturns(r) ==
  /\ stage[r] = "transaction"
  /\ PostReturns(r)
  /\ IF At(r, "accepted")
     THEN /\ signedAndPosted' = Append(signedAndPosted, r)
          /\ Respond(r, "transactionId")
     ELSE /\ Respond(r, "serverError")
          /\ UNCHANGED signedAndPosted
  /\ UNCHANGED <<chainVars, profile, nodeVars, client, authorized>>

(* A request to a node fails.  It may also stay pending for ever: a WebSocket *)
(* client whose connection is lost settles its calls only at disconnect()   *)
(* (websocketclient.ts:171), so this step is never assumed to happen.       *)
NodeRequestFails(r) ==
  /\ stage[r] = "transaction"
  /\ RequestFails(r)
  /\ Respond(r, "serverError")
  /\ UNCHANGED <<chainVars, profile, nodeVars, client, authorized, signedAndPosted>>

(* Mutant: the error is not caught. *)
SigningThrowsMutant(r) ==
  /\ stage[r] = "transaction"
  /\ At(r, "failed")
  /\ Respond(r, "unhandled")
  /\ UNCHANGED <<signerVars, client, authorized, signedAndPosted>>

(* What signAndPost() throws without waiting for a node: an unknown chain   *)
(* or a locked profile.                                                     *)
SigningThrows(r) ==
  /\ stage[r] = "transaction"
  /\ At(r, "failed")
  /\ Respond(r, "serverError")
  /\ UNCHANGED <<signerVars, client, authorized, signedAndPosted>>

(* The promise of JsonRpcClient.run settles. *)
ClientReceives(r) ==
  /\ client[r] = "pending"
  /\ response[r] \notin {"none", "unhandled"}
  /\ client' = [client EXCEPT ![r] =
       IF response[r] \in {"identities", "null", "transactionId"} THEN "resolved" ELSE "rejected"]
  /\ UNCHANGED <<signerVars, stage, response, authorized, signedAndPosted>>

Shutdown ==
  /\ DisconnectAll
  /\ UNCHANGED <<knownChains, adding, profile, call, nodeVars, serverVars>>

Next ==
  \/ \E a \in Adds : /\ \/ \E c \in Connector : AddChain(a, c)
                        \/ Connected(a)
                        \/ ConnectFails(a)
                     /\ UNCHANGED serverVars
  \/ \E r \in Requests : /\ AnswerNonce(r) \/ SignTransaction(r) \/ PostTx(r) \/ CheckTx(r)
                         /\ UNCHANGED serverVars
  \/ \E i \in Identity : Commit(i) /\ UNCHANGED serverVars
  \/ LockProfile /\ UNCHANGED serverVars
  \/ \E r \in Requests : \/ \E m \in Message : Receive(r, m)
                         \/ AuthorizeGetIdentities(r)
                         \/ Authorize(r)
                         \/ Reject(r)
                         \/ PostTxReturns(r)
                         \/ NodeRequestFails(r)
                         \/ SigningThrows(r)
                         \/ ClientReceives(r)
  \/ Shutdown

Spec == Init /\ [][Next]_vars

(* Promises of the process settle: the signature is computed, messages      *)
(* between client and server are delivered.  Neither the user nor a node    *)
(* need answer.                                                             *)
FairSpec ==
  /\ Spec
  /\ \A r \in Requests :
       /\ WF_vars(SignTransaction(r) /\ UNCHANGED serverVars)
       /\ WF_vars(PostTx(r) /\ UNCHANGED serverVars)
       /\ WF_vars(SigningThrows(r))
       /\ WF_vars(ClientReceives(r))
-----------------------------------------------------------------------------
(* No transaction reaches a node that the user has not authorized, with any *)
(* number of requests waiting for the user and for nodes at the same time.  *)
OnlyAuthorizedIsAccepted ==
  accepted \subseteq authorized

(* The answer tells what happened: a transaction ID stands for a            *)
(* transaction that a node accepted; null, or an error of the request or of *)
(* the user's callback, for one that no node has seen.  Only a server error *)
(* leaves it open, because the answer of the node may be lost.  The list    *)
(* shown to the user has every transaction whose ID was returned exactly    *)
(* once, although calls end in any order.                                   *)
AnswersAreTruthful ==
  /\ \A r \in Requests :
       /\ response[r] = "transactionId" => r \in accepted
       /\ response[r] \notin {"none", "transactionId", "serverError"} => r \notin accepted
  /\ IsInjective(signedAndPosted)
  /\ Range(signedAndPosted) = {r \in Requests : response[r] = "transactionId"}

AwaitsUser(r) == stage[r] = "identities" \/ (stage[r] = "transaction" /\ At(r, "auth"))

AwaitsNode(r) ==
  stage[r] = "transaction" /\ call[r].stage \in {"nonce", "post", "accepted", "rejected"}

(* Only the user or a node can leave a call of JsonRpcClient.run open: when *)
(* neither is waited for the call settles, or signAndPost() goes on to wait *)
(* for a node again.  Each error path of the server ends in a response with *)
(* the ID of the request, also those after an answer of the user or a node. *)
CallsAreAnswered ==
  \A r \in Requests :
    (client[r] = "pending" /\ ~AwaitsUser(r) /\ ~AwaitsNode(r))
      ~> (client[r] \in {"resolved", "rejected"} \/ AwaitsNode(r))

(* What shutdown() promises: the connections are disconnected.  It misses   *)
(* those that addChain() refused, and those made after it.                  *)
ShutdownDisconnects ==
  [][(\E a \in Adds : connection[a] = "open" /\ connection'[a] = "closed")
       => \A a \in Adds : connection'[a] # "open"]_vars
=============================================================================
