------------------------- MODULE SigningServerProofs -------------------------
(***************************************************************************)
(* Proofs about the signing server for any number of requests, identities, *)
(* chains and connections.                                                 *)
(***************************************************************************)
EXTENDS SigningServer, SequenceTheorems, TLAPS

(* The stages between the user's authorization and the answer. *)
Running == {"nonce", "answered", "sign", "post", "accepted", "rejected"}

(* How the handling of a message, its signAndPost() and its answer go        *)
(* together: what runs was authorized and is not answered, and a transaction *)
(* that a node has accepted waits for that answer, has it or has lost it.    *)
RequestInv(r) ==
  /\ stage[r] \in {"none", "identities"} => call[r] = NoCall
  /\ stage[r] = "transaction" => call[r] # NoCall
  /\ call[r].stage \in Running => stage[r] = "transaction"
  /\ stage[r] = "done" <=> response[r] # "none"
  /\ call[r].stage \notin {"none", "auth"} => r \in authorized
  /\ r \in accepted => call[r].stage \in {"accepted", "posted", "failed"} /\ r \in authorized
  /\ call[r].stage \in {"accepted", "posted"} => r \in accepted
  /\ response[r] = "transactionId" => call[r].stage = "posted"
  /\ r \in accepted /\ call[r].stage = "failed" => response[r] = "serverError"
  /\ call[r].stage = "posted" => response[r] = "transactionId"

(* The list of the core has the transactions whose ID was returned. *)
ListInv ==
  /\ IsInjective(signedAndPosted)
  /\ Range(signedAndPosted) = {r \in Requests : response[r] = "transactionId"}

ServerInv == ListInv /\ \A r \in Requests : RequestInv(r)

(* A call that overlaps with no other one has a nonce that is still good. *)
NonceGood(r) ==
  /\ At(r, "rejected") => call[r].overlap
  /\ call[r].stage \in {"answered", "sign", "post"} /\ ~call[r].overlap =>
       mempool[call[r].identity] = <<>> /\ call[r].nonce = nonces[call[r].identity]

NonceInv == \A r \in Requests : NonceGood(r)

-----------------------------------------------------------------------------
CallStages == {"auth", "nonce", "answered", "sign", "post", "accepted", "rejected", "posted", "failed"}

(* A call that was made has a stage of its own. *)
LEMMA CallFacts ==
  ASSUME NEW c \in Call \cup {NoCall}
  PROVE  /\ c.stage = "none" <=> c = NoCall
         /\ c.stage # "none" => c \in Call
         /\ c.stage \in CallStages \cup {"none"}
BY DEF Call, NoCall, CallStages

(* A call that goes on keeps its identity and its nonce, and leaves the      *)
(* others alone.                                                             *)
LEMMA ToFacts ==
  ASSUME SignerTypeOK, NEW r \in Requests, call[r].stage # "none", NEW s \in CallStages, To(r, s)
  PROVE  /\ call' \in [Requests -> Call \cup {NoCall}]
         /\ call'[r].stage = s /\ call'[r].identity = call[r].identity
         /\ call'[r].nonce = call[r].nonce /\ call'[r].overlap = call[r].overlap
         /\ \A q \in Requests \ {r} : call'[q] = call[q]
<1>1. call \in [Requests -> Call \cup {NoCall}]
  BY DEF SignerTypeOK
<1>2. call[r] \in Call
  BY <1>1, CallFacts
<1> DEFINE c == [call[r] EXCEPT !.stage = s]
<1>3. call' = [call EXCEPT ![r] = c]
  BY DEF To
<1>4. c \in Call /\ c.stage = s /\ c.identity = call[r].identity /\ c.nonce = call[r].nonce /\ c.overlap = call[r].overlap
  BY <1>2 DEF Call, CallStages
<1> HIDE DEF c
<1> QED
  BY <1>1, <1>3, <1>4

(* getNonce() fills in the nonce. *)
LEMMA AnswerFacts ==
  ASSUME SignerTypeOK, NEW r \in Requests, AnswerNonce(r)
  PROVE  /\ call' \in [Requests -> Call \cup {NoCall}]
         /\ call'[r].stage = "answered" /\ call'[r].identity = call[r].identity /\ call[r].identity \in Identity
         /\ call'[r].nonce = nonces[call[r].identity] /\ call'[r].overlap = (mempool[call[r].identity] # <<>>)
         /\ \A q \in Requests \ {r} : call'[q] = call[q]
<1>1. call \in [Requests -> Call \cup {NoCall}] /\ nonces \in [Identity -> Nat]
  BY DEF SignerTypeOK
<1>2. call[r] \in Call
  BY <1>1, CallFacts DEF AnswerNonce, At
<1> DEFINE i == call[r].identity
           busy == mempool[i] # <<>>
           c == [call[r] EXCEPT !.stage = "answered", !.nonce = nonces[i], !.overlap = busy]
<1>3. call' = [call EXCEPT ![r] = c]
  BY DEF AnswerNonce
<1>4. i \in Identity /\ nonces[i] \in Nat /\ busy \in BOOLEAN
  BY <1>1, <1>2 DEF Call
<1> HIDE DEF busy
<1>5. c \in Call /\ c.stage = "answered" /\ c.identity = i /\ c.nonce = nonces[i] /\ c.overlap = busy
  BY <1>2, <1>4 DEF Call
<1> HIDE DEF c
<1>6. call' \in [Requests -> Call \cup {NoCall}] /\ call'[r] = c /\ \A q \in Requests \ {r} : call'[q] = call[q]
  BY <1>1, <1>3, <1>5
<1> QED
  BY <1>4, <1>5, <1>6 DEF busy

(* CheckTx() moves its own call and marks the ones it overlaps with. *)
LEMMA CheckFacts ==
  ASSUME SignerTypeOK, NEW r \in Requests, CheckTx(r)
  PROVE  LET i == call[r].identity
             ok == call[r].nonce = nonces[i] + Len(mempool[i])
         IN  /\ i \in Identity
             /\ call' \in [Requests -> Call \cup {NoCall}]
             /\ call'[r].stage = (IF ok THEN "accepted" ELSE "rejected") /\ call'[r].overlap = call[r].overlap
             /\ \A q \in Requests \ {r} :
                  /\ call'[q].stage = call[q].stage
                  /\ call[q].stage \in {"none"} => call'[q] = call[q]
                  /\ call[q].stage # "none" =>
                       /\ call'[q].identity = call[q].identity /\ call'[q].nonce = call[q].nonce
                       /\ call'[q].overlap = (call[q].overlap \/ (ok /\ call[q].stage \in {"answered", "sign", "post"} /\ call[q].identity = i))
<1> DEFINE i == call[r].identity
           ok == call[r].nonce = nonces[i] + Len(mempool[i])
<1>1. call \in [Requests -> Call \cup {NoCall}]
  BY DEF SignerTypeOK
<1>2. call[r] \in Call /\ i \in Identity
  BY <1>1, CallFacts DEF CheckTx, At, Call
<1>3. call' = [q \in Requests |->
        IF q = r THEN [call[q] EXCEPT !.stage = IF ok THEN "accepted" ELSE "rejected"]
        ELSE IF ok /\ call[q].stage \in {"answered", "sign", "post"} /\ call[q].identity = i
             THEN [call[q] EXCEPT !.overlap = TRUE]
             ELSE call[q]]
  BY DEF CheckTx
<1> HIDE DEF i, ok
<1>4. call'[r] \in Call /\ call'[r].stage = (IF ok THEN "accepted" ELSE "rejected") /\ call'[r].overlap = call[r].overlap
  BY <1>2, <1>3 DEF Call
<1>5. ASSUME NEW q \in Requests \ {r}
      PROVE  /\ call'[q] \in Call \cup {NoCall} /\ call'[q].stage = call[q].stage
             /\ call[q].stage = "none" => call'[q] = call[q]
             /\ call[q].stage # "none" =>
                  /\ call'[q].identity = call[q].identity /\ call'[q].nonce = call[q].nonce
                  /\ call'[q].overlap = (call[q].overlap \/ (ok /\ call[q].stage \in {"answered", "sign", "post"} /\ call[q].identity = i))
  <2>1. call[q] \in Call \cup {NoCall} /\ (call[q].stage # "none" => call[q] \in Call)
    BY <1>1, CallFacts
  <2>2. CASE ok /\ call[q].stage \in {"answered", "sign", "post"} /\ call[q].identity = i
    <3>1. call[q] \in Call /\ call'[q] = [call[q] EXCEPT !.overlap = TRUE]
      BY <1>3, <2>1, <2>2
    <3>2. call'[q] \in Call /\ call'[q].stage = call[q].stage /\ call'[q].identity = call[q].identity
          /\ call'[q].nonce = call[q].nonce /\ call'[q].overlap = TRUE
      BY <3>1 DEF Call
    <3> QED
      BY <2>2, <3>2
  <2>3. CASE ~(ok /\ call[q].stage \in {"answered", "sign", "post"} /\ call[q].identity = i)
    <3>1. call'[q] = call[q]
      BY <1>3, <2>3
    <3>2. call[q].stage # "none" => call[q].overlap \in BOOLEAN
      BY <2>1 DEF Call
    <3> QED
      BY <2>1, <2>3, <3>1, <3>2
  <2> QED
    BY <2>2, <2>3
<1>6. call' \in [Requests -> Call \cup {NoCall}]
  <2>1. \A q \in Requests : call'[q] \in Call \cup {NoCall}
    BY <1>4, <1>5
  <2> QED
    BY <1>3, <2>1
<1> QED
  BY <1>2, <1>4, <1>5, <1>6 DEF i, ok

-----------------------------------------------------------------------------
(* The steps that concern the connections and the profile. *)
ChainStep ==
  \/ \E a \in Adds : (\E c \in Connector : AddChain(a, c)) \/ Connected(a) \/ ConnectFails(a)
  \/ LockProfile
  \/ DisconnectAll /\ UNCHANGED <<knownChains, adding, profile, call, nodeVars>>

(* They keep the types, and addChain() registers a chain only once. *)
LEMMA ChainStepFacts ==
  ASSUME SignerTypeOK, ChainStep
  PROVE  /\ SignerTypeOK' /\ UNCHANGED <<call, nodeVars>>
         /\ \A c \in ChainId : knownChains[c] # NoChain => knownChains'[c] = knownChains[c]
<1> USE DEF SignerTypeOK
<1>1. ASSUME NEW a \in Adds, NEW c \in Connector, AddChain(a, c)
      PROVE  SignerTypeOK' /\ UNCHANGED <<call, nodeVars, knownChains>>
  BY <1>1 DEF AddChain, nodeVars
<1>2. ASSUME NEW a \in Adds, Connected(a)
      PROVE  /\ SignerTypeOK' /\ UNCHANGED <<call, nodeVars>>
             /\ \A c \in ChainId : knownChains[c] # NoChain => knownChains'[c] = knownChains[c]
  <2> DEFINE c == adding[a].actual
  <2>1. c \in ChainId
    BY <1>2 DEF Connected, Connector
  <2>2. knownChains' = knownChains \/ (knownChains[c] = NoChain /\ knownChains' = [knownChains EXCEPT ![c] = a])
    BY <1>2 DEF Connected
  <2> HIDE DEF c
  <2>3. /\ knownChains' \in [ChainId -> Adds \cup {NoChain}]
        /\ \A d \in ChainId : knownChains[d] # NoChain => knownChains'[d] = knownChains[d]
    BY <2>1, <2>2
  <2>4. UNCHANGED <<profile, call, nodeVars>> /\ connection' = [connection EXCEPT ![a] = "open"]
        /\ adding' = [adding EXCEPT ![a] = NotAdding]
    BY <1>2 DEF Connected
  <2> QED
    BY <2>3, <2>4 DEF nodeVars
<1>3. ASSUME NEW a \in Adds, ConnectFails(a) PROVE SignerTypeOK' /\ UNCHANGED <<call, nodeVars, knownChains>>
  BY <1>3 DEF ConnectFails, nodeVars
<1>4. CASE LockProfile
  BY <1>4 DEF LockProfile, nodeVars, chainVars
<1>5. CASE DisconnectAll /\ UNCHANGED <<knownChains, adding, profile, call, nodeVars>>
  BY <1>5 DEF DisconnectAll, nodeVars
<1> QED
  BY <1>1, <1>2, <1>3, <1>4, <1>5 DEF ChainStep

(* A step of the signer or of a node for the call r. *)
NodeStep(r) == AnswerNonce(r) \/ SignTransaction(r) \/ PostTx(r) \/ CheckTx(r)

(* It takes a call from one stage to the next and keeps the types. *)
LEMMA NodeStepFacts ==
  ASSUME SignerTypeOK, NEW r \in Requests, NodeStep(r)
  PROVE  /\ SignerTypeOK' /\ UNCHANGED <<chainVars, profile>>
         /\ \A q \in Requests \ {r} : call'[q].stage = call[q].stage /\ (call'[q] = NoCall <=> call[q] = NoCall)
         /\ call[r].stage \in {"nonce", "answered", "sign", "post"} /\ call[r] # NoCall /\ call'[r] # NoCall
         /\ \/ call[r].stage # "post" /\ call'[r].stage \in {"answered", "sign", "post", "failed"} /\ accepted' = accepted
            \/ call[r].stage = "post" /\ call'[r].stage = "accepted" /\ accepted' = accepted \cup {r}
            \/ call[r].stage = "post" /\ call'[r].stage = "rejected" /\ accepted' = accepted
<1>t. call \in [Requests -> Call \cup {NoCall}]
  BY DEF SignerTypeOK
<1>n. NoCall.stage = "none"
  BY DEF NoCall
<1>1. CASE AnswerNonce(r)
  <2>1. UNCHANGED <<chainVars, profile, nodeVars>> /\ call[r].stage = "nonce"
    BY <1>1 DEF AnswerNonce, At
  <2>2. /\ call' \in [Requests -> Call \cup {NoCall}] /\ call'[r].stage = "answered"
        /\ \A q \in Requests \ {r} : call'[q] = call[q]
    BY <1>1, AnswerFacts
  <2> QED
    BY <1>n, <2>1, <2>2 DEF SignerTypeOK, chainVars, nodeVars
<1>2. CASE SignTransaction(r) \/ PostTx(r)
  <2>1. /\ UNCHANGED <<chainVars, profile, nodeVars>> /\ call[r].stage \in {"answered", "sign"}
        /\ \E s \in {"failed", "sign", "post"} : To(r, s)
    BY <1>2 DEF SignTransaction, PostTx, At
  <2>2. /\ call' \in [Requests -> Call \cup {NoCall}] /\ call'[r].stage \in {"failed", "sign", "post"}
        /\ \A q \in Requests \ {r} : call'[q] = call[q]
    BY <2>1, ToFacts DEF CallStages
  <2> QED
    BY <1>n, <2>1, <2>2 DEF SignerTypeOK, chainVars, nodeVars
<1>3. CASE CheckTx(r)
  <2> DEFINE i == call[r].identity
             ok == call[r].nonce = nonces[i] + Len(mempool[i])
  <2>1. /\ i \in Identity /\ call' \in [Requests -> Call \cup {NoCall}]
        /\ call'[r].stage = (IF ok THEN "accepted" ELSE "rejected")
        /\ \A q \in Requests \ {r} : call'[q].stage = call[q].stage
    BY <1>3, CheckFacts
  <2>2. /\ UNCHANGED <<chainVars, profile, nonces>> /\ call[r].stage = "post"
        /\ mempool' = IF ok THEN [mempool EXCEPT ![i] = Append(@, r)] ELSE mempool
        /\ accepted' = IF ok THEN accepted \cup {r} ELSE accepted
    BY <1>3 DEF CheckTx, At
  <2> HIDE DEF i, ok
  <2>3. mempool' \in [Identity -> Seq(Requests)] /\ accepted' \subseteq Requests
    <3>1. mempool[i] \in Seq(Requests)
      BY <2>1 DEF SignerTypeOK
    <3>2. Append(mempool[i], r) \in Seq(Requests)
      BY <3>1
    <3> QED
      BY <2>1, <2>2, <3>2 DEF SignerTypeOK
  <2>4. SignerTypeOK'
    BY <2>1, <2>2, <2>3 DEF SignerTypeOK, chainVars
  <2>5. \A q \in Requests : call'[q] \in Call \cup {NoCall} /\ call[q] \in Call \cup {NoCall}
    BY <1>t, <2>1
  <2>6. \A q \in Requests \ {r} : call'[q] = NoCall <=> call[q] = NoCall
    BY <2>1, <2>5, CallFacts
  <2> QED
    BY <1>n, <2>1, <2>2, <2>4, <2>6
<1> QED
  BY <1>1, <1>2, <1>3 DEF NodeStep

(* A block. *)
LEMMA CommitFacts ==
  ASSUME SignerTypeOK, NEW i \in Identity, Commit(i)
  PROVE  SignerTypeOK' /\ UNCHANGED <<chainVars, profile, call, accepted>>
<1>1. mempool[i] \in Seq(Requests) /\ mempool[i] # <<>> /\ nonces[i] \in Nat
  BY DEF SignerTypeOK, Commit
<1>2. Tail(mempool[i]) \in Seq(Requests)
  BY <1>1
<1> QED
  BY <1>1, <1>2 DEF SignerTypeOK, Commit, chainVars

-----------------------------------------------------------------------------
(* The variables of the core and of the JSON-RPC server. *)
ServerTypeOK ==
  /\ stage \in [Requests -> {"none", "identities", "transaction", "done"}]
  /\ response \in [Requests -> Response]
  /\ client \in [Requests -> {"none", "pending", "resolved", "rejected"}]
  /\ authorized \subseteq Requests
  /\ signedAndPosted \in Seq(Requests)

(* A step for the request r leaves what belongs to the other requests alone. *)
OnlyFor(r) ==
  /\ \A q \in Requests \ {r} :
       /\ stage'[q] = stage[q] /\ response'[q] = response[q]
       /\ call'[q].stage = call[q].stage /\ (call'[q] = NoCall <=> call[q] = NoCall)
       /\ q \in authorized' <=> q \in authorized
       /\ q \in accepted' <=> q \in accepted

(* Then RequestInv is only in question for r. *)
LEMMA OtherRequests ==
  ASSUME NEW r \in Requests, NEW q \in Requests \ {r}, OnlyFor(r), RequestInv(q)
  PROVE  RequestInv(q)'
<1>1. /\ stage'[q] = stage[q] /\ response'[q] = response[q]
      /\ call'[q].stage = call[q].stage /\ (call'[q] = NoCall <=> call[q] = NoCall)
      /\ q \in authorized' <=> q \in authorized
      /\ q \in accepted' <=> q \in accepted
  BY DEF OnlyFor
<1> QED
  BY <1>1 DEF RequestInv, Running, NoCall

(* An answer ends the handling of r. *)
LEMMA RespondFacts ==
  ASSUME ServerTypeOK, NEW r \in Requests, NEW answer \in Response, Respond(r, answer)
  PROVE  /\ stage' \in [Requests -> {"none", "identities", "transaction", "done"}]
         /\ response' \in [Requests -> Response]
         /\ stage'[r] = "done" /\ response'[r] = answer
         /\ \A q \in Requests \ {r} : stage'[q] = stage[q] /\ response'[q] = response[q]
BY DEF ServerTypeOK, Respond

(* The list is left alone by every other answer. *)
LEMMA ListStays ==
  ASSUME ServerTypeOK, ListInv, NEW r \in Requests, OnlyFor(r), signedAndPosted' = signedAndPosted,
         response'[r] = "transactionId" <=> response[r] = "transactionId"
  PROVE  ListInv'
<1>1. \A q \in Requests : response'[q] = "transactionId" <=> response[q] = "transactionId"
  BY DEF OnlyFor
<1> QED
  BY <1>1 DEF ListInv

(* It grows with the answer that returns a transaction ID. *)
LEMMA ListGrows ==
  ASSUME ServerTypeOK, ListInv, NEW r \in Requests, OnlyFor(r), signedAndPosted' = Append(signedAndPosted, r),
         response[r] # "transactionId", response'[r] = "transactionId"
  PROVE  ListInv' /\ signedAndPosted' \in Seq(Requests)
<1> DEFINE old == signedAndPosted
           new == Append(signedAndPosted, r)
<1>1. /\ old \in Seq(Requests) /\ r \notin Range(old) /\ IsInjective(old)
      /\ Range(old) = {q \in Requests : response[q] = "transactionId"}
  BY DEF ServerTypeOK, ListInv
<1>2. /\ new \in Seq(Requests)
      /\ DOMAIN new = 1 .. Len(old) + 1 /\ DOMAIN old = 1 .. Len(old) /\ Len(old) \in Nat
      /\ new[Len(old) + 1] = r
      /\ \A i \in 1 .. Len(old) : new[i] = old[i]
  BY <1>1, AppendProperties, LenProperties
<1> HIDE DEF old, new
<1>3. Range(new) = Range(old) \cup {r}
  <2>1. Range(new) \subseteq Range(old) \cup {r}
    BY <1>2 DEF Range
  <2>2. Range(old) \subseteq Range(new) /\ r \in Range(new)
    BY <1>2 DEF Range
  <2> QED
    BY <2>1, <2>2
<1>4. IsInjective(new)
  BY <1>1, <1>2 DEF Range, IsInjective
<1>5. \A q \in Requests : response'[q] = "transactionId" <=> q = r \/ response[q] = "transactionId"
  BY DEF OnlyFor
<1>6. Range(new) = {q \in Requests : response'[q] = "transactionId"}
  BY <1>1, <1>3, <1>5
<1> QED
  BY <1>2, <1>4, <1>6 DEF ListInv, new

(* What holds before and after a step for the request r. *)
Typed == SignerTypeOK /\ ServerTypeOK

(* A message arrives: it is answered at once or waits for the user. *)
LEMMA ReceiveStep ==
  ASSUME Typed, ServerInv, NEW r \in Requests, NEW m \in Message, Receive(r, m)
  PROVE  Typed' /\ ServerInv' /\ UNCHANGED knownChains
<1> USE DEF Typed
<1>t. call \in [Requests -> Call \cup {NoCall}]
  BY DEF SignerTypeOK
<1>1. /\ stage[r] = "none" /\ Handle(r, m)
      /\ UNCHANGED <<chainVars, profile, nodeVars, authorized, signedAndPosted>>
  BY DEF Receive
<1>2. RequestInv(r) /\ call[r] = NoCall /\ call[r].stage = "none" /\ response[r] = "none" /\ r \notin accepted
  BY <1>1 DEF ServerInv, RequestInv, NoCall, ServerTypeOK
<1>3. client' \in [Requests -> {"none", "pending", "resolved", "rejected"}]
  BY DEF Receive, ServerTypeOK
<1>4. CASE \E answer \in Response \ {"none", "transactionId"} : Respond(r, answer) /\ call' = call
  <2>1. PICK answer \in Response \ {"none", "transactionId"} : Respond(r, answer) /\ call' = call
    BY <1>4
  <2>2. /\ stage' \in [Requests -> {"none", "identities", "transaction", "done"}]
        /\ response' \in [Requests -> Response]
        /\ stage'[r] = "done" /\ response'[r] = answer
        /\ \A q \in Requests \ {r} : stage'[q] = stage[q] /\ response'[q] = response[q]
    BY <2>1, RespondFacts
  <2>3. OnlyFor(r)
    BY <1>1, <2>1, <2>2 DEF OnlyFor, nodeVars
  <2>4. RequestInv(r)'
    BY <1>1, <1>2, <2>1, <2>2 DEF RequestInv, Running, nodeVars, NoCall
  <2>5. ListInv'
    BY <1>1, <1>2, <2>2, <2>3, ListStays DEF ServerInv
  <2>6. Typed'
    BY <1>1, <1>3, <2>1, <2>2 DEF SignerTypeOK, ServerTypeOK, chainVars, nodeVars
  <2> QED
    BY <1>1, <2>3, <2>4, <2>5, <2>6, OtherRequests DEF ServerInv, chainVars
<1>5. CASE Await(r, "identities") /\ call' = call
  <2>2. /\ stage' \in [Requests -> {"none", "identities", "transaction", "done"}]
        /\ response' = response /\ stage'[r] = "identities"
        /\ \A q \in Requests \ {r} : stage'[q] = stage[q]
    BY <1>5 DEF Await, ServerTypeOK
  <2>3. OnlyFor(r)
    BY <1>1, <1>5, <2>2 DEF OnlyFor, nodeVars
  <2>4. RequestInv(r)'
    BY <1>1, <1>2, <1>5, <2>2 DEF RequestInv, Running, nodeVars, NoCall
  <2>5. ListInv'
    BY <1>1, <1>2, <2>2, <2>3, ListStays DEF ServerInv
  <2>6. Typed'
    BY <1>1, <1>3, <1>5, <2>2 DEF SignerTypeOK, ServerTypeOK, chainVars, nodeVars
  <2> QED
    BY <1>1, <2>3, <2>4, <2>5, <2>6, OtherRequests DEF ServerInv, chainVars
<1>6. CASE Await(r, "transaction") /\ call' = [call EXCEPT ![r] = Asked(m.identity)]
  <2>1. Asked(m.identity) \in Call /\ Asked(m.identity).stage = "auth" /\ Asked(m.identity) # NoCall
    BY DEF Asked, Call, Message, NoCall
  <2>2. /\ stage' \in [Requests -> {"none", "identities", "transaction", "done"}]
        /\ response' = response /\ stage'[r] = "transaction"
        /\ \A q \in Requests \ {r} : stage'[q] = stage[q]
    BY <1>6 DEF Await, ServerTypeOK
  <2>c. /\ call' \in [Requests -> Call \cup {NoCall}] /\ call'[r].stage = "auth" /\ call'[r] # NoCall
        /\ \A q \in Requests \ {r} : call'[q] = call[q]
    BY <1>t, <1>6, <2>1
  <2>3. OnlyFor(r)
    BY <1>1, <2>2, <2>c DEF OnlyFor, nodeVars
  <2>4. RequestInv(r)'
    BY <1>1, <1>2, <2>2, <2>c DEF RequestInv, Running, nodeVars, NoCall
  <2>5. ListInv'
    BY <1>1, <1>2, <2>2, <2>3, ListStays DEF ServerInv
  <2>6. Typed'
    BY <1>1, <1>3, <2>2, <2>c DEF SignerTypeOK, ServerTypeOK, chainVars, nodeVars
  <2> QED
    BY <1>1, <2>3, <2>4, <2>5, <2>6, OtherRequests DEF ServerInv, chainVars
<1>7. \/ \E answer \in Response \ {"none", "transactionId"} : Respond(r, answer) /\ call' = call
      \/ Await(r, "identities") /\ call' = call
      \/ Await(r, "transaction") /\ call' = [call EXCEPT ![r] = Asked(m.identity)]
  BY <1>1 DEF Handle, Response, InvalidRequest
<1> QED
  BY <1>4, <1>5, <1>6, <1>7

(* An answer other than a transaction ID, for a call that has ended or was   *)
(* never started.                                                            *)
LEMMA Answered ==
  ASSUME Typed, ServerInv, NEW r \in Requests, stage[r] # "done",
         NEW answer \in Response \ {"none", "transactionId"}, Respond(r, answer),
         UNCHANGED <<chainVars, profile, nodeVars, client, authorized, signedAndPosted>>,
         call' \in [Requests -> Call \cup {NoCall}], \A q \in Requests \ {r} : call'[q] = call[q],
         call'[r].stage \notin Running \cup {"posted"},
         call'[r].stage \notin {"none", "auth"} => r \in authorized,
         r \in accepted => call'[r].stage = "failed" /\ answer = "serverError"
  PROVE  Typed' /\ ServerInv' /\ UNCHANGED knownChains
<1> USE DEF Typed
<1>1. /\ stage' \in [Requests -> {"none", "identities", "transaction", "done"}]
      /\ response' \in [Requests -> Response]
      /\ stage'[r] = "done" /\ response'[r] = answer
      /\ \A q \in Requests \ {r} : stage'[q] = stage[q] /\ response'[q] = response[q]
  BY RespondFacts
<1>2. RequestInv(r) /\ response[r] = "none"
  BY DEF ServerInv, RequestInv, ServerTypeOK
<1>3. OnlyFor(r)
  BY <1>1 DEF OnlyFor, nodeVars
<1>4. RequestInv(r)'
  BY <1>1, <1>2 DEF RequestInv, Running, nodeVars
<1>5. ListInv'
  BY <1>1, <1>2, <1>3, ListStays DEF ServerInv
<1>6. Typed'
  BY <1>1 DEF SignerTypeOK, ServerTypeOK, chainVars, nodeVars
<1> QED
  BY <1>3, <1>4, <1>5, <1>6, OtherRequests DEF ServerInv, chainVars

(* The user decides, a call ends, or the client gets its answer. *)
LEMMA AnswerStep ==
  ASSUME Typed, ServerInv, NEW r \in Requests,
         \/ AuthorizeGetIdentities(r) \/ Reject(r) \/ NodeRequestFails(r) \/ SigningThrows(r)
  PROVE  Typed' /\ ServerInv' /\ UNCHANGED knownChains
<1>t. call \in [Requests -> Call \cup {NoCall}] /\ RequestInv(r)
  BY DEF Typed, SignerTypeOK, ServerInv
<1>1. CASE AuthorizeGetIdentities(r)
  <2>1. PICK answer \in {"identities", "internalServerError"} : Respond(r, answer)
    BY <1>1 DEF AuthorizeGetIdentities
  <2>2. /\ UNCHANGED <<chainVars, profile, nodeVars, client, authorized, signedAndPosted, call>>
        /\ stage[r] = "identities" /\ call'[r].stage = "none" /\ r \notin accepted
    BY <1>1, <1>t DEF AuthorizeGetIdentities, signerVars, RequestInv, NoCall
  <2>3. answer \in Response \ {"none", "transactionId"}
    BY <2>1 DEF Response
  <2>4. call'[r].stage \notin Running \cup {"posted"}
    BY <2>2 DEF Running
  <2> QED
    BY <1>t, <2>1, <2>2, <2>3, <2>4, Answered
<1>2. CASE Reject(r)
  <2>1. PICK answer \in {"null", "internalServerError"} : Respond(r, answer)
    BY <1>2 DEF Reject
  <2>2. /\ UNCHANGED <<chainVars, profile, nodeVars, client, authorized, signedAndPosted, call>>
        /\ stage[r] = "transaction" /\ call'[r].stage = "auth" /\ r \notin accepted
    BY <1>2, <1>t DEF Reject, At, signerVars, RequestInv
  <2>3. answer \in Response \ {"none", "transactionId"}
    BY <2>1 DEF Response
  <2>4. call'[r].stage \notin Running \cup {"posted"}
    BY <2>2 DEF Running
  <2> QED
    BY <1>t, <2>1, <2>2, <2>3, <2>4, Answered
<1>3. CASE NodeRequestFails(r)
  <2>1. /\ UNCHANGED <<chainVars, profile, nodeVars, client, authorized, signedAndPosted>>
        /\ stage[r] = "transaction" /\ Respond(r, "serverError") /\ To(r, "failed")
        /\ call[r].stage \in {"nonce", "post", "accepted", "rejected"} /\ call[r].stage # "none" /\ r \in authorized
    BY <1>3, <1>t DEF NodeRequestFails, RequestFails, RequestInv
  <2>2. /\ call' \in [Requests -> Call \cup {NoCall}] /\ call'[r].stage = "failed"
        /\ \A q \in Requests \ {r} : call'[q] = call[q]
    BY <2>1, ToFacts DEF CallStages, Typed
  <2>3. "serverError" \in Response \ {"none", "transactionId"}
    BY DEF Response
  <2>4. call'[r].stage \notin Running \cup {"posted"}
    BY <2>2 DEF Running
  <2> QED
    BY <2>1, <2>2, <2>3, <2>4, Answered
<1>4. CASE SigningThrows(r)
  <2>1. /\ UNCHANGED <<chainVars, profile, nodeVars, client, authorized, signedAndPosted, call>>
        /\ stage[r] = "transaction" /\ Respond(r, "serverError") /\ call'[r].stage = "failed" /\ r \in authorized
    BY <1>4, <1>t DEF SigningThrows, At, signerVars, RequestInv
  <2>3. "serverError" \in Response \ {"none", "transactionId"}
    BY DEF Response
  <2>4. call'[r].stage \notin Running \cup {"posted"}
    BY <2>1 DEF Running
  <2> QED
    BY <1>t, <2>1, <2>3, <2>4, Answered
<1> QED
  BY <1>1, <1>2, <1>3, <1>4

(* The user authorizes the transaction. *)
LEMMA AuthorizeStep ==
  ASSUME Typed, ServerInv, NEW r \in Requests, Authorize(r)
  PROVE  Typed' /\ ServerInv' /\ UNCHANGED knownChains
<1> USE DEF Typed
<1>1. /\ UNCHANGED <<chainVars, profile, nodeVars, stage, response, client, signedAndPosted>>
      /\ authorized' = authorized \cup {r} /\ stage[r] = "transaction" /\ call[r].stage = "auth"
      /\ \E s \in {"failed", "nonce"} : To(r, s)
  BY DEF Authorize, StartCall, At
<1>2. /\ call' \in [Requests -> Call \cup {NoCall}] /\ call'[r].stage \in {"failed", "nonce"}
      /\ \A q \in Requests \ {r} : call'[q] = call[q]
  BY <1>1, ToFacts DEF CallStages
<1>3. RequestInv(r) /\ response[r] = "none"
  BY <1>1 DEF ServerInv, RequestInv, ServerTypeOK
<1>4. OnlyFor(r)
  BY <1>1, <1>2 DEF OnlyFor, nodeVars
<1>5. RequestInv(r)'
  BY <1>1, <1>2, <1>3 DEF RequestInv, Running, nodeVars, NoCall
<1>6. ListInv'
  BY <1>1, <1>4, ListStays DEF ServerInv
<1>7. Typed'
  BY <1>1, <1>2 DEF SignerTypeOK, ServerTypeOK, chainVars, nodeVars
<1> QED
  BY <1>1, <1>4, <1>5, <1>6, <1>7, OtherRequests DEF ServerInv, chainVars

(* The node has answered postTx(). *)
LEMMA PostReturnsStep ==
  ASSUME Typed, ServerInv, NEW r \in Requests, PostTxReturns(r)
  PROVE  Typed' /\ ServerInv' /\ UNCHANGED knownChains
<1>t. RequestInv(r) /\ stage[r] = "transaction" /\ response[r] = "none"
      /\ call[r].stage \in {"accepted", "rejected"} /\ call[r].stage # "none" /\ r \in authorized
  BY DEF PostTxReturns, PostReturns, ServerInv, RequestInv, Typed, ServerTypeOK
<1>u. UNCHANGED <<chainVars, profile, nodeVars, client, authorized>>
  BY DEF PostTxReturns
<1>1. CASE call[r].stage = "rejected"
  <2>1. To(r, "failed") /\ Respond(r, "serverError") /\ signedAndPosted' = signedAndPosted
    BY <1>1 DEF PostTxReturns, PostReturns, At
  <2>2. /\ call' \in [Requests -> Call \cup {NoCall}] /\ call'[r].stage = "failed"
        /\ \A q \in Requests \ {r} : call'[q] = call[q]
    BY <1>t, <2>1, ToFacts DEF CallStages, Typed
  <2>3. "serverError" \in Response \ {"none", "transactionId"} /\ call'[r].stage \notin Running \cup {"posted"}
    BY <2>2 DEF Response, Running
  <2> QED
    BY <1>t, <1>u, <2>1, <2>2, <2>3, Answered
<1>2. CASE call[r].stage = "accepted"
  <2> USE DEF Typed
  <2>1. To(r, "posted") /\ Respond(r, "transactionId") /\ signedAndPosted' = Append(signedAndPosted, r)
    BY <1>2 DEF PostTxReturns, PostReturns, At
  <2>2. /\ call' \in [Requests -> Call \cup {NoCall}] /\ call'[r].stage = "posted"
        /\ \A q \in Requests \ {r} : call'[q] = call[q]
    BY <1>t, <2>1, ToFacts DEF CallStages
  <2>3. /\ stage' \in [Requests -> {"none", "identities", "transaction", "done"}]
        /\ response' \in [Requests -> Response]
        /\ stage'[r] = "done" /\ response'[r] = "transactionId"
        /\ \A q \in Requests \ {r} : stage'[q] = stage[q] /\ response'[q] = response[q]
    BY <2>1, RespondFacts DEF Response
  <2>4. OnlyFor(r)
    BY <1>u, <2>2, <2>3 DEF OnlyFor, nodeVars
  <2>5. RequestInv(r)'
    BY <1>t, <1>u, <1>2, <2>2, <2>3 DEF RequestInv, Running, nodeVars
  <2>6. ListInv' /\ signedAndPosted' \in Seq(Requests)
    BY <1>t, <2>1, <2>3, <2>4, ListGrows DEF ServerInv
  <2>7. Typed'
    BY <1>u, <2>2, <2>3, <2>6 DEF SignerTypeOK, ServerTypeOK, chainVars, nodeVars
  <2> QED
    BY <1>u, <2>4, <2>5, <2>6, <2>7, OtherRequests DEF ServerInv, chainVars
<1> QED
  BY <1>t, <1>1, <1>2

(* The signer, a node or the profile goes on, or the client gets its answer: *)
(* the server does nothing.                                                  *)
LEMMA OutsideStep ==
  ASSUME Typed, ServerInv,
         \/ ChainStep /\ UNCHANGED serverVars
         \/ \E i \in Identity : Commit(i) /\ UNCHANGED serverVars
         \/ \E r \in Requests : ClientReceives(r)
         \/ UNCHANGED vars
  PROVE  /\ Typed' /\ ServerInv'
         /\ \A c \in ChainId : knownChains[c] # NoChain => knownChains'[c] = knownChains[c]
<1>1. /\ SignerTypeOK' /\ UNCHANGED <<call, accepted>>
      /\ \A c \in ChainId : knownChains[c] # NoChain => knownChains'[c] = knownChains[c]
  <2>1. CASE ChainStep
    BY <2>1, ChainStepFacts DEF Typed, nodeVars
  <2>2. CASE \E i \in Identity : Commit(i)
    BY <2>2, CommitFacts DEF Typed, chainVars
  <2>3. CASE UNCHANGED signerVars
    BY <2>3 DEF Typed, SignerTypeOK, signerVars, chainVars, nodeVars
  <2> QED
    BY <2>1, <2>2, <2>3 DEF ClientReceives, vars
<1>2. /\ UNCHANGED <<stage, response, authorized, signedAndPosted>>
      /\ client' = client \/ (\E r \in Requests : ClientReceives(r))
  BY DEF ClientReceives, vars, serverVars
<1>3. client' \in [Requests -> {"none", "pending", "resolved", "rejected"}]
  BY <1>2 DEF ClientReceives, Typed, ServerTypeOK
<1>4. ServerTypeOK'
  BY <1>2, <1>3 DEF Typed, ServerTypeOK
<1>5. ListInv'
  BY <1>2 DEF ServerInv, ListInv
<1>6. ASSUME NEW r \in Requests PROVE RequestInv(r)'
  BY <1>1, <1>2 DEF ServerInv, RequestInv
<1> QED
  BY <1>1, <1>4, <1>5, <1>6 DEF Typed, ServerInv

(* A step of the signer for a call that runs. *)
LEMMA NodeStepKeeps ==
  ASSUME Typed, ServerInv, NEW r \in Requests, NodeStep(r), UNCHANGED serverVars
  PROVE  Typed' /\ ServerInv' /\ UNCHANGED knownChains
<1>1. /\ SignerTypeOK' /\ UNCHANGED <<chainVars, profile>>
      /\ \A q \in Requests \ {r} : call'[q].stage = call[q].stage /\ (call'[q] = NoCall <=> call[q] = NoCall)
      /\ call[r].stage \in {"nonce", "answered", "sign", "post"} /\ call[r] # NoCall /\ call'[r] # NoCall
      /\ \/ call[r].stage # "post" /\ call'[r].stage \in {"answered", "sign", "post", "failed"} /\ accepted' = accepted
         \/ call[r].stage = "post" /\ call'[r].stage = "accepted" /\ accepted' = accepted \cup {r}
         \/ call[r].stage = "post" /\ call'[r].stage = "rejected" /\ accepted' = accepted
  BY NodeStepFacts DEF Typed
<1>2. UNCHANGED <<stage, response, client, authorized, signedAndPosted>>
  BY DEF serverVars
<1>3. RequestInv(r) /\ stage[r] = "transaction" /\ response[r] = "none" /\ r \in authorized /\ r \notin accepted
  BY <1>1 DEF ServerInv, RequestInv, Running, Typed, ServerTypeOK
<1>4. OnlyFor(r)
  BY <1>1, <1>2 DEF OnlyFor
<1>5. RequestInv(r)'
  BY <1>1, <1>2, <1>3 DEF RequestInv, Running
<1>6. Typed' /\ ListInv'
  BY <1>1, <1>2 DEF Typed, ServerTypeOK, ServerInv, ListInv
<1> QED
  BY <1>1, <1>4, <1>5, <1>6, OtherRequests DEF ServerInv, chainVars

(* The steps of the server for the request r. *)
RequestStep(r) ==
  \/ \E m \in Message : Receive(r, m)
  \/ AuthorizeGetIdentities(r) \/ Authorize(r) \/ Reject(r)
  \/ PostTxReturns(r) \/ NodeRequestFails(r) \/ SigningThrows(r)

(* Next, grouped by the lemma that is about it. *)
LEMMA NextCases ==
  ASSUME [Next]_vars
  PROVE  \/ \E r \in Requests : RequestStep(r)
         \/ \E r \in Requests : NodeStep(r) /\ UNCHANGED serverVars
         \/ ChainStep /\ UNCHANGED serverVars
         \/ \E i \in Identity : Commit(i) /\ UNCHANGED serverVars
         \/ \E r \in Requests : ClientReceives(r)
         \/ UNCHANGED vars
BY Zenon DEF Next, RequestStep, NodeStep, ChainStep, Shutdown

(* Every step keeps the types and ServerInv, and the chains that are known. *)
LEMMA ServerStep ==
  ASSUME Typed, ServerInv, [Next]_vars
  PROVE  /\ Typed' /\ ServerInv'
         /\ \A c \in ChainId : knownChains[c] # NoChain => knownChains'[c] = knownChains[c]
<1>1. ASSUME NEW r \in Requests, RequestStep(r) PROVE Typed' /\ ServerInv' /\ UNCHANGED knownChains
  BY <1>1, ReceiveStep, AnswerStep, AuthorizeStep, PostReturnsStep DEF RequestStep
<1>2. ASSUME NEW r \in Requests, NodeStep(r), UNCHANGED serverVars
      PROVE  Typed' /\ ServerInv' /\ UNCHANGED knownChains
  BY <1>2, NodeStepKeeps
<1> QED
  BY <1>1, <1>2, NextCases, OutsideStep

(* The initial state: nothing was received, nothing is known. *)
LEMMA ServerStart ==
  Init => Typed /\ ServerInv
<1> SUFFICES ASSUME Init PROVE Typed /\ ServerInv
  OBVIOUS
<1> USE DEF Init, SignerInit
<1>1. SignerTypeOK
  BY DEF SignerTypeOK
<1>2. ServerTypeOK
  BY DEF ServerTypeOK, Response
<1>3. Range(signedAndPosted) = {} /\ IsInjective(signedAndPosted)
  BY DEF Range, IsInjective
<1>4. ListInv
  BY <1>3 DEF ListInv
<1>5. ASSUME NEW r \in Requests PROVE RequestInv(r)
  BY DEF RequestInv, NoCall, Running
<1> QED
  BY <1>1, <1>2, <1>4, <1>5 DEF Typed, ServerInv

(* The types of the signer, of the nodes and of the server, and ServerInv.   *)
LEMMA ServerAlways ==
  Spec => [](Typed /\ ServerInv)
<1>1. Typed /\ ServerInv /\ [Next]_vars => (Typed /\ ServerInv)'
  BY ServerStep
<1> QED
  BY <1>1, ServerStart, PTL DEF Spec

(* TypeOK, for the whole signing server. *)
THEOREM TypeCorrect ==
  Spec => []TypeOK
<1>1. Typed => TypeOK
  BY DEF Typed, TypeOK, ServerTypeOK
<1> QED
  BY <1>1, ServerAlways, PTL

(* However the user, the nodes and any number of messages interleave, no     *)
(* node accepts a transaction that the user has not authorized: Authorize()  *)
(* is the only way into signAndPost().                                       *)
THEOREM OnlyAuthorized ==
  Spec => []OnlyAuthorizedIsAccepted
<1>1. Typed /\ ServerInv => OnlyAuthorizedIsAccepted
  BY DEF Typed, SignerTypeOK, ServerInv, RequestInv, OnlyAuthorizedIsAccepted
<1> QED
  BY <1>1, ServerAlways, PTL

(* Every answer of the JSON-RPC server is true of the transaction it is      *)
(* about, and signedAndPosted lists each posted transaction once.            *)
THEOREM AnswersStayTruthful ==
  Spec => []AnswersAreTruthful
<1>1. ASSUME Typed, ServerInv PROVE AnswersAreTruthful
  <2>1. ASSUME NEW r \in Requests
        PROVE  /\ response[r] = "transactionId" => r \in accepted
               /\ response[r] \notin {"none", "transactionId", "serverError"} => r \notin accepted
    BY <1>1 DEF ServerInv, RequestInv, Running
  <2> QED
    BY <1>1, <2>1 DEF ServerInv, ListInv, AnswersAreTruthful
<1> QED
  BY <1>1, ServerAlways, PTL

-----------------------------------------------------------------------------
(* A step that moves no call to a stage where its nonce matters. *)
LEMMA NonceUnused ==
  ASSUME NonceInv, nonces' = nonces, mempool' = mempool, NEW r \in Requests,
         \A q \in Requests \ {r} : call'[q] = call[q],
         call'[r] = call[r] \/ call'[r].stage \in {"none", "auth", "nonce", "posted", "failed"}
  PROVE  NonceInv'
<1>1. ASSUME NEW q \in Requests, call'[q] = call[q] PROVE NonceGood(q)'
  BY <1>1 DEF NonceInv, NonceGood, At
<1>2. ASSUME call'[r].stage \in {"none", "auth", "nonce", "posted", "failed"} PROVE NonceGood(r)'
  BY <1>2 DEF NonceGood, At
<1>3. \A q \in Requests : NonceGood(q)'
  BY <1>1, <1>2
<1> QED
  BY <1>3 DEF NonceInv, NonceGood, At

(* The server only starts calls and ends them. *)
LEMMA RequestStepNonce ==
  ASSUME Typed, NonceInv, NEW r \in Requests, RequestStep(r)
  PROVE  NonceInv'
<1>t. call \in [Requests -> Call \cup {NoCall}] /\ SignerTypeOK
  BY DEF Typed, SignerTypeOK
<1>1. nonces' = nonces /\ mempool' = mempool
  BY DEF RequestStep, Receive, AuthorizeGetIdentities, Authorize, Reject, PostTxReturns, NodeRequestFails,
         SigningThrows, nodeVars, signerVars
<1>2. \/ call' = call
      \/ \E m \in Message : call' = [call EXCEPT ![r] = Asked(m.identity)]
      \/ call[r].stage # "none" /\ \E s \in {"nonce", "failed", "posted"} : To(r, s)
  BY DEF RequestStep, Receive, Handle, AuthorizeGetIdentities, Authorize, StartCall, Reject, PostTxReturns,
         PostReturns, NodeRequestFails, RequestFails, SigningThrows, signerVars, At
<1>3. CASE call' = call
  BY <1>1, <1>3, NonceUnused
<1>4. CASE \E m \in Message : call' = [call EXCEPT ![r] = Asked(m.identity)]
  <2>1. call'[r].stage = "auth" /\ \A q \in Requests \ {r} : call'[q] = call[q]
    BY <1>t, <1>4 DEF Asked
  <2> QED
    BY <1>1, <2>1, NonceUnused
<1>5. CASE call[r].stage # "none" /\ \E s \in {"nonce", "failed", "posted"} : To(r, s)
  <2>1. call'[r].stage \in {"nonce", "failed", "posted"} /\ \A q \in Requests \ {r} : call'[q] = call[q]
    BY <1>t, <1>5, ToFacts DEF CallStages
  <2> QED
    BY <1>1, <2>1, NonceUnused
<1> QED
  BY <1>2, <1>3, <1>4, <1>5

(* A nonce is read, used and judged.  The node refuses a transaction whose   *)
(* nonce is not the one after the mempool; with an empty mempool and no      *)
(* commit since it was read, it is.                                          *)
LEMMA NodeStepNonce ==
  ASSUME SignerTypeOK, NonceInv, NEW r \in Requests, NodeStep(r)
  PROVE  NonceInv'
<1>t. call \in [Requests -> Call \cup {NoCall}] /\ nonces \in [Identity -> Nat]
  BY DEF SignerTypeOK
<1>q. ASSUME NEW q \in Requests, nonces' = nonces, mempool' = mempool, call'[q] = call[q] PROVE NonceGood(q)'
  BY <1>q DEF NonceInv, NonceGood, At
<1>1. CASE AnswerNonce(r)
  <2>1. nonces' = nonces /\ mempool' = mempool
    BY <1>1 DEF AnswerNonce, nodeVars
  <2>2. /\ call'[r].stage = "answered" /\ call'[r].identity = call[r].identity
        /\ call'[r].nonce = nonces[call[r].identity] /\ call'[r].overlap = (mempool[call[r].identity] # <<>>)
        /\ \A q \in Requests \ {r} : call'[q] = call[q]
    BY <1>1, AnswerFacts
  <2>3. NonceGood(r)'
    BY <2>1, <2>2 DEF NonceGood, At
  <2>4. \A q \in Requests : NonceGood(q)'
    BY <1>q, <2>1, <2>2, <2>3
  <2> QED
    BY <2>4 DEF NonceInv, NonceGood
<1>2. CASE SignTransaction(r) \/ PostTx(r)
  <2>1. /\ nonces' = nonces /\ mempool' = mempool /\ call[r].stage \in {"answered", "sign"}
        /\ \E s \in {"failed", "sign", "post"} : To(r, s)
    BY <1>2 DEF SignTransaction, PostTx, At, nodeVars
  <2>2. /\ call'[r].stage \in {"failed", "sign", "post"} /\ call'[r].identity = call[r].identity
        /\ call'[r].nonce = call[r].nonce /\ call'[r].overlap = call[r].overlap
        /\ \A q \in Requests \ {r} : call'[q] = call[q]
    BY <2>1, ToFacts DEF CallStages
  <2>3. NonceGood(r)'
    BY <2>1, <2>2 DEF NonceInv, NonceGood, At
  <2>4. \A q \in Requests : NonceGood(q)'
    BY <1>q, <2>1, <2>2, <2>3
  <2> QED
    BY <2>4 DEF NonceInv, NonceGood
<1>3. CASE CheckTx(r)
  <2> DEFINE i == call[r].identity
             ok == call[r].nonce = nonces[i] + Len(mempool[i])
  <2>1. /\ i \in Identity
        /\ call'[r].stage = (IF ok THEN "accepted" ELSE "rejected") /\ call'[r].overlap = call[r].overlap
        /\ \A q \in Requests \ {r} :
             /\ call'[q].stage = call[q].stage
             /\ call[q].stage # "none" =>
                  /\ call'[q].identity = call[q].identity /\ call'[q].nonce = call[q].nonce
                  /\ call'[q].overlap = (call[q].overlap \/ (ok /\ call[q].stage \in {"answered", "sign", "post"} /\ call[q].identity = i))
    BY <1>3, CheckFacts
  <2>2. /\ nonces' = nonces /\ call[r].stage = "post"
        /\ mempool' = IF ok THEN [mempool EXCEPT ![i] = Append(@, r)] ELSE mempool
    BY <1>3 DEF CheckTx, At
  <2>3. ~call[r].overlap => ok
    <3>1. ~call[r].overlap => mempool[i] = <<>> /\ call[r].nonce = nonces[i]
      BY <2>2 DEF NonceInv, NonceGood
    <3>2. nonces[i] \in Nat /\ Len(<<>>) = 0
      BY <1>t, <2>1
    <3> QED
      BY <3>1, <3>2
  <2> HIDE DEF ok, i
  <2>4. NonceGood(r)'
    BY <2>1, <2>2, <2>3 DEF NonceGood, At
  <2>5. ASSUME NEW q \in Requests \ {r} PROVE NonceGood(q)'
    <3>1. CASE call[q].stage = "none"
      BY <2>1, <3>1 DEF NonceGood, At
    <3>2. CASE call[q].stage # "none"
      <4>1. call'[q].stage = call[q].stage /\ call'[q].identity = call[q].identity /\ call'[q].nonce = call[q].nonce
        BY <2>1, <3>2
      <4>o. call'[q].overlap = (call[q].overlap \/ (ok /\ call[q].stage \in {"answered", "sign", "post"} /\ call[q].identity = i))
        BY <2>1, <3>2
      <4>2. (call'[q].stage = "rejected") => call'[q].overlap
        BY <4>1, <4>o DEF NonceInv, NonceGood, At
      <4>3. ASSUME call'[q].stage \in {"answered", "sign", "post"}, ~call'[q].overlap
            PROVE  mempool'[call'[q].identity] = <<>> /\ call'[q].nonce = nonces'[call'[q].identity]
        <5>1. ~call[q].overlap /\ (ok => call[q].identity # i)
          BY <4>1, <4>o, <4>3
        <5>2. mempool[call[q].identity] = <<>> /\ call[q].nonce = nonces[call[q].identity]
          BY <4>1, <4>3, <5>1 DEF NonceInv, NonceGood
        <5>3. call[q].identity \in Identity
          BY <1>t, <3>2, CallFacts DEF Call
        <5>4. mempool'[call[q].identity] = mempool[call[q].identity]
          BY <2>2, <5>1, <5>3 DEF SignerTypeOK
        <5> QED
          BY <2>2, <4>1, <5>2, <5>4
      <4> QED
        BY <4>2, <4>3 DEF NonceGood, At
    <3> QED
      BY <3>1, <3>2
  <2>6. \A q \in Requests : NonceGood(q)'
    BY <2>4, <2>5
  <2> QED
    BY <2>6 DEF NonceInv, NonceGood
<1> QED
  BY <1>1, <1>2, <1>3 DEF NodeStep

(* A block has a transaction that every call that reads on overlaps with. *)
LEMMA CommitNonce ==
  ASSUME SignerTypeOK, NonceInv, NEW i \in Identity, Commit(i)
  PROVE  NonceInv'
<1>1. /\ mempool[i] # <<>> /\ call' = call
      /\ mempool' = [mempool EXCEPT ![i] = Tail(@)] /\ nonces' = [nonces EXCEPT ![i] = @ + 1]
  BY DEF Commit
<1>2. call \in [Requests -> Call \cup {NoCall}] /\ mempool \in [Identity -> Seq(Requests)] /\ nonces \in [Identity -> Nat]
  BY DEF SignerTypeOK
<1>3. ASSUME NEW q \in Requests PROVE NonceGood(q)'
  <2>1. call[q].stage \in {"answered", "sign", "post"} => call[q].identity \in Identity
    BY <1>2, CallFacts DEF Call
  <2>2. ASSUME NEW j \in Identity \ {i} PROVE mempool'[j] = mempool[j] /\ nonces'[j] = nonces[j]
    BY <1>1, <1>2
  <2> QED
    BY <1>1, <2>1, <2>2 DEF NonceInv, NonceGood, At
<1> QED
  BY <1>3 DEF NonceInv, NonceGood

(* A node refuses a transaction of signAndPost() only when it overlaps with  *)
(* another one of its identity: the nonce that getNonce() answered is good   *)
(* until then.                                                               *)
THEOREM RefusedByOverlap ==
  Spec => []RefusedOnlyByOverlap
<1>1. Init => NonceInv
  BY DEF Init, SignerInit, NonceInv, NonceGood, NoCall, At
<1>2. Typed /\ NonceInv /\ [Next]_vars => NonceInv'
  <2> SUFFICES ASSUME Typed, NonceInv, [Next]_vars PROVE NonceInv'
    OBVIOUS
  <2>1. SignerTypeOK
    BY DEF Typed
  <2>2. ASSUME UNCHANGED <<call, nodeVars>> PROVE NonceInv'
    BY <2>2 DEF NonceInv, NonceGood, At, nodeVars
  <2>3. CASE ChainStep
    BY <2>1, <2>2, <2>3, ChainStepFacts
  <2>4. CASE \/ \E r \in Requests : ClientReceives(r)
             \/ UNCHANGED vars
    BY <2>2, <2>4 DEF ClientReceives, vars, signerVars
  <2> QED
    BY <2>1, <2>3, <2>4, NextCases, RequestStepNonce, NodeStepNonce, CommitNonce
<1>3. NonceInv => RefusedOnlyByOverlap
  BY DEF NonceInv, NonceGood, RefusedOnlyByOverlap
<1> QED
  BY <1>1, <1>2, <1>3, ServerAlways, PTL DEF Spec

=============================================================================
