--------------------------- MODULE ProducerProofs ----------------------------
(***************************************************************************)
(* Proofs about the streams that start and stop timers and subscriptions   *)
(* with their listeners: postTx(), the polled streams of Lisk and Ethereum *)
(* and the new heads of Ethereum, for any height of the chain and any      *)
(* number of listeners, polls, heads and faults.                           *)
(***************************************************************************)
EXTENDS PostTx, Watchers, NewHeads, AddressFeedProofs

-----------------------------------------------------------------------------
(* The BlockInfo of postTx() (PostTx). *)

(* What may be said of the transaction on this connection. *)
IsTrue(v) ==
  \/ v = Pending
  \/ /\ tx.height > 0
     /\ \E n \in 1 .. Depth : v = Succeeded(tx.height, n)
     /\ connection = "bns" => tx.ok
  \/ /\ tx.height > 0 /\ connection = "bns" /\ ~tx.ok
     /\ v = Failed(tx.height)

(* The producer and its sources belong to the kind of connection. *)
ProducerInv ==
  /\ posted = "none" => connection = "none" /\ tx.height = 0 /\ ~running
  /\ posted # "none" => connection # "none"
  /\ interval => connection \in Pollers
  /\ liveTx # "off" => connection = "bns"
  /\ StopReleases

(* A poll knows the height of the transaction and a depth it has reached. *)
CallInv(s) ==
  /\ calls[s].step # "idle" => connection \in Pollers
  /\ calls[s].step \in {"second", "answered"} => tx.height > 0 /\ calls[s].height = tx.height
  /\ calls[s].step = "second" => connection # "lisk"
  /\ calls[s].step = "answered" =>
       /\ calls[s].confirmations \in 1 .. Depth
       /\ connection = "cosmoshub" => calls[s].confirmations = 1

(* While polls do not overlap there is one, and it is not behind the value. *)
OrderInv ==
  /\ connection = "cosmoshub" /\ value.state = "succeeded" => value.confirmations = 1
  /\ ~overlap =>
       /\ \A s, t \in Slots : calls[s].step # "idle" /\ calls[t].step # "idle" => s = t
       /\ \A s \in Slots : calls[s].step = "answered" /\ value.state = "succeeded" =>
            value.confirmations <= calls[s].confirmations

(* The headers follow a transaction that has succeeded and was reported. *)
HeaderInv ==
  headers.state # "off" =>
    /\ connection = "bns" /\ tx.height > 0 /\ tx.ok
    /\ liveTx # "on" /\ value.state = "succeeded"
    /\ headers.state = "on" =>
         headers.next > tx.height /\ value.confirmations <= headers.next - tx.height + 1

PostInv ==
  /\ PostTypeOK
  /\ IsTrue(value)
  /\ ProducerInv
  /\ \A s \in Slots : CallInv(s)
  /\ OrderInv
  /\ HeaderInv

-----------------------------------------------------------------------------
(* What a BlockInfo that is true of the transaction says. *)
LEMMA TrueReport ==
  ASSUME PostTypeOK, NEW v, IsTrue(v)
  PROVE  /\ v \in BlockInfo
         /\ v.state \in {"pending", "succeeded", "failed"}
         /\ v.state = "pending" => v = Pending
         /\ v.state # "pending" => tx.height > 0 /\ v.height = tx.height
         /\ v.state = "succeeded" =>
              /\ v.confirmations \in 1 .. Depth
              /\ v = Succeeded(tx.height, v.confirmations)
              /\ connection = "bns" => tx.ok
         /\ v.state = "failed" => connection = "bns" /\ ~tx.ok
<1>t. /\ height \in 1 .. PostHeight /\ PostHeight \in Nat
      /\ tx.height \in 0 .. height /\ tx.ok \in BOOLEAN /\ Depth = height - tx.height + 1
  BY PostTxAssumption DEF PostTypeOK, Depth
<1>1. CASE v = Pending
  BY <1>1 DEF Pending, BlockInfo
<1>2. ASSUME tx.height > 0, NEW n \in 1 .. Depth, v = Succeeded(tx.height, n), connection = "bns" => tx.ok
      PROVE  /\ v.state = "succeeded" /\ v.height = tx.height /\ v.confirmations = n
             /\ v \in {Succeeded(h, k) : h, k \in 1 .. PostHeight}
  <2>1. n \in 1 .. PostHeight /\ tx.height \in 1 .. PostHeight
    BY <1>2, <1>t
  <2> QED BY <2>1, <1>2 DEF Succeeded
<1>3. CASE tx.height > 0 /\ connection = "bns" /\ ~tx.ok /\ v = Failed(tx.height)
  <2>1. tx.height \in 1 .. PostHeight
    BY <1>3, <1>t
  <2>2. v.state = "failed" /\ v.height = tx.height /\ v \in {Failed(h) : h \in 1 .. PostHeight}
    BY <2>1, <1>3 DEF Failed
  <2> QED BY <2>2, <1>3 DEF BlockInfo
<1>4. CASE tx.height > 0 /\ (\E n \in 1 .. Depth : v = Succeeded(tx.height, n)) /\ (connection = "bns" => tx.ok)
  <2>1. PICK n \in 1 .. Depth : v = Succeeded(tx.height, n)
    BY <1>4
  <2>2. /\ v.state = "succeeded" /\ v.height = tx.height /\ v.confirmations = n
        /\ v \in {Succeeded(h, k) : h, k \in 1 .. PostHeight}
    BY <1>2, <1>4, <2>1
  <2> QED BY <1>4, <2>1, <2>2 DEF BlockInfo
<1> QED BY <1>1, <1>3, <1>4 DEF IsTrue

(* The chain moves on, or the connection is chosen: what was true stays so. *)
LEMMA TruthStays ==
  ASSUME PostTypeOK, IsTrue(value'),
         height' \in Nat, height' >= height, tx.height > 0 => tx' = tx,
         tx.height > 0 => connection' = connection
  PROVE  IsTrue(value)'
<1> USE DEF PostTypeOK, Depth
<1>1. CASE value' = Pending
  BY <1>1 DEF IsTrue
<1>2. CASE value' # Pending
  <2>1. tx.height > 0 /\ tx' = tx /\ connection' = connection
    BY <1>2 DEF IsTrue
  <2>2. 1 .. Depth \subseteq (1 .. Depth)'
    BY <2>1
  <2> HIDE DEF Depth
  <2> QED BY <1>2, <2>1, <2>2 DEF IsTrue
<1> QED BY <1>1, <1>2

(* postTx() is called before anything listens or polls. *)
LEMMA CallPostTxKeeps ==
  ASSUME PostInv, NEW c \in Connection, CallPostTx(c)
  PROVE  PostInv'
<1> USE PostTxAssumption
<1>a. PostTypeOK /\ IsTrue(value) /\ ProducerInv
  BY DEF PostInv
<1>b. /\ UNCHANGED <<height, tx, value, listeners, running, wait, interval, calls, overlap, liveTx, headers, faults>>
      /\ posted = "none" /\ connection' = c /\ posted' \in {"resolved", "rejected"}
      /\ lastEventSent' \in {Pending, NoEvent}
  BY DEF CallPostTx, pollVars, bnsVars
<1>c. tx.height = 0 /\ ~running /\ ~interval /\ liveTx = "off" /\ headers.state = "off" /\ connection = "none"
  BY <1>a, <1>b DEF ProducerInv, StopReleases, PostTypeOK
<1>d. value = Pending
  BY <1>a, <1>c, TrueReport DEF PostTypeOK
<1>1. PostTypeOK'
  BY <1>a, <1>b DEF PostTypeOK, BlockInfo
<1>2. IsTrue(value)'
  BY <1>b, <1>d DEF IsTrue
<1>3. ProducerInv'
  BY <1>a, <1>b, <1>c DEF ProducerInv, StopReleases, Connection, Pollers
<1>4. ASSUME NEW s \in Slots PROVE CallInv(s)'
  <2>1. calls[s].step = "idle"
    BY <1>c DEF PostInv, CallInv, Pollers
  <2> QED BY <2>1, <1>b DEF CallInv
<1>5. OrderInv' /\ HeaderInv'
  <2>1. value.state = "pending"
    BY <1>d DEF Pending
  <2> QED BY <2>1, <1>b, <1>c DEF OrderInv, HeaderInv, PostInv
<1> QED BY <1>1, <1>2, <1>3, <1>4, <1>5 DEF PostInv

(* A new block makes the transaction deeper and no answer wrong. *)
LEMMA NewBlockKeeps ==
  ASSUME PostInv, NewBlock
  PROVE  PostInv'
<1> USE PostTxAssumption
<1>a. PostTypeOK /\ IsTrue(value) /\ ProducerInv
  BY DEF PostInv
<1>b. /\ UNCHANGED <<connection, posted, value, lastEventSent, listeners, running, wait, interval, calls, overlap, liveTx, headers, faults>>
      /\ posted = "resolved" /\ height < PostHeight /\ height' = height + 1
  BY DEF NewBlock, producerVars, pollVars, bnsVars
<1>c. /\ tx' \in [height : 0 .. height', ok : BOOLEAN]
      /\ tx.height > 0 => tx' = tx
  <2>1. height \in Nat /\ tx \in [height : 0 .. height, ok : BOOLEAN] /\ height' = height + 1
    BY <1>a, <1>b DEF PostTypeOK
  <2>2. tx.height > 0 => tx' = tx
    BY DEF NewBlock
  <2>3. tx' = tx \/ tx' \in [height : {height + 1}, ok : BOOLEAN]
    BY DEF NewBlock
  <2>4. tx \in [height : 0 .. height', ok : BOOLEAN]
    BY <2>1
  <2>5. ASSUME tx' \in [height : {height + 1}, ok : BOOLEAN]
        PROVE  tx' \in [height : 0 .. height', ok : BOOLEAN]
    BY <2>1, <2>5
  <2> QED BY <2>2, <2>3, <2>4, <2>5
<1>d. tx.height > 0 => Depth' = Depth + 1
  BY <1>a, <1>b, <1>c DEF PostTypeOK, Depth
<1>1. PostTypeOK'
  <2>1. calls' \in [Slots -> [step : {"idle", "search", "second", "answered"},
                             height : 0 .. height', confirmations : 0 .. height']]
    BY <1>a, <1>b DEF PostTypeOK
  <2>2. headers' \in [state : {"off", "asked", "on"}, next : 0 .. height' + 1]
    BY <1>a, <1>b DEF PostTypeOK
  <2> QED BY <1>a, <1>b, <1>c, <2>1, <2>2 DEF PostTypeOK
<1>2. IsTrue(value)'
  <2>1. IsTrue(value')
    BY <1>a, <1>b
  <2>2. height \in Nat /\ height' \in Nat /\ height' >= height
    BY <1>a, <1>b DEF PostTypeOK
  <2> QED BY <1>a, <1>b, <1>c, <2>1, <2>2, TruthStays
<1>3. ProducerInv'
  BY <1>a, <1>b DEF ProducerInv, StopReleases
<1>4. ASSUME NEW s \in Slots PROVE CallInv(s)'
  <2>1. CallInv(s)
    BY DEF PostInv
  <2>2. Depth \in Int
    BY <1>a DEF PostTypeOK, Depth
  <2>3. CASE calls[s].step \in {"second", "answered"}
    <3>1. tx.height > 0 /\ tx' = tx /\ Depth' = Depth + 1
      BY <2>1, <2>3, <1>c, <1>d DEF CallInv
    <3> HIDE DEF Depth
    <3> QED BY <2>1, <2>2, <3>1, <1>b DEF CallInv
  <2>4. CASE calls[s].step \notin {"second", "answered"}
    BY <2>1, <2>4, <1>b DEF CallInv
  <2> QED BY <2>3, <2>4
<1>5. OrderInv' /\ HeaderInv'
  BY <1>a, <1>b, <1>c DEF OrderInv, HeaderInv, PostInv
<1> QED BY <1>1, <1>2, <1>3, <1>4, <1>5 DEF PostInv


(* What an action that leaves the chain and the value alone keeps. *)
LEMMA ValueStays ==
  ASSUME PostInv, UNCHANGED <<connection, posted, height, tx, value>>
  PROVE  IsTrue(value)'
<1>1. IsTrue(value)
  BY DEF PostInv
<1> QED BY <1>1 DEF IsTrue, Depth

(* What an action that leaves the chain, the polls and the value alone      *)
(* keeps.                                                                   *)
LEMMA PollsStay ==
  ASSUME PostInv, UNCHANGED <<connection, posted, height, tx, value, calls, overlap>>
  PROVE  IsTrue(value)' /\ (\A s \in Slots : CallInv(s)') /\ OrderInv'
<1>1. IsTrue(value)'
  BY ValueStays
<1>2. (\A s \in Slots : CallInv(s)) /\ OrderInv
  BY DEF PostInv
<1>3. \A s \in Slots : CallInv(s)'
  BY <1>2 DEF CallInv, Depth
<1>4. OrderInv'
  BY <1>2 DEF OrderInv
<1> QED BY <1>1, <1>3, <1>4

(* A listener comes. *)
LEMMA SubscribeKeeps ==
  ASSUME PostInv, NEW l \in {"user", "waitFor"}, Subscribe(l)
  PROVE  PostInv'
<1>a. PostTypeOK /\ ProducerInv /\ HeaderInv
  BY DEF PostInv
<1>b. /\ UNCHANGED <<connection, posted, height, tx, value, lastEventSent, calls, overlap, headers, faults>>
      /\ posted = "resolved" /\ listeners' = listeners \cup {l} /\ running'
      /\ wait' = WaitSees(value, l)
      /\ interval' \in {interval, (connection \in Pollers)}
      /\ interval' => interval \/ connection \in Pollers
      /\ liveTx' = liveTx \/ (liveTx' = "on" /\ connection = "bns" /\ ~running)
  <2>1. CASE running
    BY <2>1 DEF Subscribe, chainVars
  <2>2. CASE ~running
    BY <2>2 DEF Subscribe, OnStarted, chainVars
  <2> QED BY <2>1, <2>2
<1>1. PostTypeOK'
  <2>1. wait' \in {"none", "pending", "resolved", "rejected"}
    BY <1>a, <1>b DEF PostTypeOK, WaitSees
  <2>2. interval' \in BOOLEAN /\ running' \in BOOLEAN
    <3>1. running' \in BOOLEAN
      BY <1>a DEF Subscribe, PostTypeOK
    <3>2. CASE running
      BY <3>2, <1>a DEF Subscribe, PostTypeOK
    <3>3. CASE ~running
      BY <3>3 DEF Subscribe, OnStarted
    <3> QED BY <3>1, <3>2, <3>3
  <2> QED BY <1>a, <1>b, <2>1, <2>2 DEF PostTypeOK
<1>2. IsTrue(value)' /\ (\A s \in Slots : CallInv(s)') /\ OrderInv'
  BY <1>b, PollsStay
<1>3. ProducerInv'
  BY <1>a, <1>b DEF ProducerInv, StopReleases
<1>4. HeaderInv'
  BY <1>a, <1>b DEF HeaderInv, ProducerInv, StopReleases
<1> QED BY <1>1, <1>2, <1>3, <1>4 DEF PostInv

(* A listener leaves. *)
LEMMA UnsubscribeKeeps ==
  ASSUME PostInv, NEW l \in {"user", "waitFor"}, Unsubscribe(l)
  PROVE  PostInv'
<1>a. PostTypeOK /\ ProducerInv /\ HeaderInv
  BY DEF PostInv
<1>b. /\ UNCHANGED <<connection, posted, height, tx, value, lastEventSent, running, wait, interval, calls, overlap, liveTx, headers, faults>>
      /\ l \in listeners /\ listeners' = listeners \ {l}
  BY DEF Unsubscribe, chainVars, pollVars, bnsVars
<1>1. PostTypeOK'
  BY <1>a, <1>b DEF PostTypeOK
<1>2. IsTrue(value)' /\ (\A s \in Slots : CallInv(s)') /\ OrderInv'
  BY <1>b, PollsStay
<1>3. ProducerInv' /\ HeaderInv'
  BY <1>a, <1>b DEF ProducerInv, StopReleases, HeaderInv
<1> QED BY <1>1, <1>2, <1>3 DEF PostInv

(* The producer stops, or fails: nothing is left running. *)
LEMMA StopKeeps ==
  ASSUME PostInv, OnStop, running' = FALSE, listeners' = {},
         UNCHANGED <<connection, posted, height, tx, value, lastEventSent, calls, overlap>>,
         wait' \in {wait, "rejected"}, faults' \in 0 .. PostFaults
  PROVE  PostInv'
<1>a. PostTypeOK /\ ProducerInv
  BY DEF PostInv
<1>b. interval' = FALSE /\ liveTx' = "off" /\ headers' = [state |-> "off", next |-> 0]
  BY DEF OnStop
<1>1. PostTypeOK'
  <2>1. headers' \in [state : {"off", "asked", "on"}, next : 0 .. height' + 1]
    BY <1>a, <1>b DEF PostTypeOK
  <2> QED BY <1>a, <1>b, <2>1 DEF PostTypeOK
<1>2. IsTrue(value)' /\ (\A s \in Slots : CallInv(s)') /\ OrderInv'
  BY PollsStay
<1>3. ProducerInv' /\ HeaderInv'
  BY <1>a, <1>b DEF ProducerInv, StopReleases, HeaderInv
<1> QED BY <1>1, <1>2, <1>3 DEF PostInv

(* The stream stops its producer. *)
LEMMA StopNowKeeps ==
  ASSUME PostInv, StopNow
  PROVE  PostInv'
<1>1. PostTypeOK
  BY DEF PostInv
<1> QED BY <1>1, StopKeeps DEF StopNow, chainVars, PostTypeOK

(* A stream of BNS fails. *)
LEMMA BnsStreamFailsKeeps ==
  ASSUME PostInv, BnsStreamFails
  PROVE  PostInv'
<1> USE PostTxAssumption
<1>a. PostTypeOK /\ ProducerInv /\ HeaderInv
  BY DEF PostInv
<1>b. /\ UNCHANGED <<connection, posted, height, tx, value, lastEventSent, calls, overlap>>
      /\ faults' \in 0 .. PostFaults /\ liveTx \in {"on", "done"}
  BY <1>a DEF BnsStreamFails, chainVars, PostTypeOK
<1>1. CASE listeners # {}
  BY <1>1, <1>b, StopKeeps DEF BnsStreamFails
<1>2. CASE listeners = {}
  <2>1. /\ UNCHANGED <<listeners, running, wait, interval>>
        /\ \/ liveTx' = "dead" /\ headers' = headers
           \/ headers' = [headers EXCEPT !.state = "off"] /\ liveTx' = liveTx
    BY <1>2 DEF BnsStreamFails
  <2>2. /\ headers' \in [state : {"off", "asked", "on"}, next : 0 .. height + 1]
        /\ headers' = headers \/ headers'.state = "off"
    BY <1>a, <2>1 DEF PostTypeOK
  <2>3. PostTypeOK'
    BY <1>a, <1>b, <2>1, <2>2 DEF PostTypeOK
  <2>4. IsTrue(value)' /\ (\A s \in Slots : CallInv(s)') /\ OrderInv'
    BY <1>b, PollsStay
  <2>5. running /\ connection = "bns"
    BY <1>a, <1>b DEF ProducerInv, StopReleases
  <2>6. ProducerInv'
    BY <1>a, <1>b, <2>1, <2>5 DEF ProducerInv, StopReleases
  <2>7. HeaderInv'
    BY <1>a, <1>b, <2>1, <2>2 DEF HeaderInv
  <2> QED BY <2>3, <2>4, <2>6, <2>7 DEF PostInv
<1> QED BY <1>1, <1>2

-----------------------------------------------------------------------------
(* What a step of one poll keeps when it leaves everything else alone and   *)
(* the poll's new state is right.                                           *)
LEMMA PollKeeps ==
  ASSUME PostInv, NEW s \in Slots, NEW c,
         c \in [step : {"idle", "search", "second", "answered"}, height : 0 .. height, confirmations : 0 .. height],
         calls' = [calls EXCEPT ![s] = c],
         UNCHANGED <<connection, posted, height, tx, value, lastEventSent, listeners, running, wait, interval, liveTx, headers>>,
         overlap' \in BOOLEAN, faults' \in 0 .. PostFaults, CallInv(s)',
         ~overlap' =>
           /\ \A t \in Slots \ {s} : c.step # "idle" => calls[t].step = "idle"
           /\ overlap => \A t \in Slots \ {s} : calls[t].step = "idle"
           /\ c.step = "answered" /\ value.state = "succeeded" => value.confirmations <= c.confirmations
  PROVE  PostInv'
<1>a. PostTypeOK /\ ProducerInv /\ HeaderInv /\ OrderInv /\ (\A t \in Slots : CallInv(t))
  BY DEF PostInv
<1>b. /\ calls \in [Slots -> [step : {"idle", "search", "second", "answered"}, height : 0 .. height, confirmations : 0 .. height]]
      /\ calls'[s] = c /\ \A t \in Slots \ {s} : calls'[t] = calls[t]
  BY <1>a DEF PostTypeOK
<1>1. PostTypeOK'
  BY <1>a, <1>b DEF PostTypeOK
<1>2. IsTrue(value)'
  BY ValueStays
<1>3. ProducerInv' /\ HeaderInv'
  BY <1>a DEF ProducerInv, StopReleases, HeaderInv
<1>4. ASSUME NEW t \in Slots PROVE CallInv(t)'
  <2>1. CASE t # s
    BY <2>1, <1>a, <1>b DEF CallInv, Depth
  <2> QED BY <2>1
<1>5. OrderInv'
  <2>1. (connection = "cosmoshub" /\ value.state = "succeeded" => value.confirmations = 1)'
    BY <1>a DEF OrderInv
  <2>2. ASSUME ~overlap', NEW t \in Slots, NEW u \in Slots, calls'[t].step # "idle", calls'[u].step # "idle"
        PROVE  t = u
    <3>1. CASE overlap
      BY <2>2, <3>1, <1>b
    <3>2. CASE ~overlap
      BY <2>2, <3>2, <1>a, <1>b DEF OrderInv
    <3> QED BY <3>1, <3>2
  <2>3. ASSUME ~overlap', NEW t \in Slots, calls'[t].step = "answered", value.state = "succeeded"
        PROVE  value.confirmations <= calls'[t].confirmations
    <3>1. CASE t = s
      BY <2>3, <3>1, <1>b
    <3>2. CASE t # s
      <4>1. ~overlap
        BY <2>3, <3>2, <1>b
      <4> QED BY <2>3, <3>2, <4>1, <1>a, <1>b DEF OrderInv
    <3> QED BY <3>1, <3>2
  <2> QED BY <2>1, <2>2, <2>3 DEF OrderInv
<1> QED BY <1>1, <1>2, <1>3, <1>4, <1>5 DEF PostInv

(* The timer fires. *)
LEMMA TickKeeps ==
  ASSUME PostInv, NEW s \in Slots, Tick(s)
  PROVE  PostInv'
<1>a. PostTypeOK /\ ProducerInv
  BY DEF PostInv
<1> DEFINE c == [calls[s] EXCEPT !.step = "search"]
<1>b. /\ UNCHANGED <<connection, posted, height, tx, value, lastEventSent, listeners, running, wait, interval, liveTx, headers, faults>>
      /\ interval /\ calls[s].step = "idle"
      /\ overlap' = \E t \in Slots : calls[t].step # "idle"
  BY DEF Tick, chainVars, producerVars, bnsVars
<1>c. calls' = [calls EXCEPT ![s] = c]
  BY <1>a DEF Tick, PostTypeOK
<1>d. /\ c \in [step : {"idle", "search", "second", "answered"}, height : 0 .. height, confirmations : 0 .. height]
      /\ c.step = "search"
  BY <1>a DEF PostTypeOK
<1>e. calls'[s] = c
  BY <1>a, <1>c DEF PostTypeOK
<1> HIDE DEF c
<1>1. CallInv(s)'
  BY <1>a, <1>b, <1>d, <1>e DEF CallInv, ProducerInv
<1>2. overlap' \in BOOLEAN /\ faults' \in 0 .. PostFaults
  <2>1. overlap' \in BOOLEAN
    BY <1>b
  <2> QED BY <2>1, <1>a, <1>b DEF PostTypeOK
<1>3. ~overlap' => \A t \in Slots : calls[t].step = "idle"
  BY <1>b
<1> QED BY <1>1, <1>2, <1>3, <1>b, <1>c, <1>d, PollKeeps

(* A request fails. *)
LEMMA PollFailsKeeps ==
  ASSUME PostInv, NEW s \in Slots, PollFails(s)
  PROVE  PostInv'
<1> USE PostTxAssumption
<1>a. PostTypeOK /\ OrderInv
  BY DEF PostInv
<1>b. /\ UNCHANGED <<connection, posted, height, tx, value, lastEventSent, listeners, running, wait, interval, overlap, liveTx, headers>>
      /\ faults < PostFaults /\ faults' = faults + 1
      /\ calls' = [calls EXCEPT ![s] = IdleCall]
  BY DEF PollFails, chainVars, producerVars, bnsVars
<1>c. /\ IdleCall \in [step : {"idle", "search", "second", "answered"}, height : 0 .. height, confirmations : 0 .. height]
      /\ IdleCall.step = "idle"
  BY <1>a DEF IdleCall, PostTypeOK
<1>d. calls'[s] = IdleCall
  BY <1>a, <1>b DEF PostTypeOK
<1>1. CallInv(s)'
  BY <1>c, <1>d DEF CallInv
<1>2. overlap' \in BOOLEAN /\ faults' \in 0 .. PostFaults
  BY <1>a, <1>b DEF PostTypeOK
<1> QED BY <1>1, <1>2, <1>b, <1>c, PollKeeps

(* The node answers the search with the height of the transaction. *)
LEMMA NodeAnswersSearchKeeps ==
  ASSUME PostInv, NEW s \in Slots, NodeAnswersSearch(s)
  PROVE  PostInv'
<1>a. PostTypeOK /\ OrderInv /\ CallInv(s) /\ IsTrue(value)
  BY DEF PostInv
<1> DEFINE c == IF tx.height = 0 THEN IdleCall
                ELSE IF connection = "lisk"
                THEN [step |-> "answered", height |-> tx.height, confirmations |-> Depth]
                ELSE [step |-> "second", height |-> tx.height, confirmations |-> 0]
<1>b. /\ UNCHANGED <<connection, posted, height, tx, value, lastEventSent, listeners, running, wait, interval, overlap, liveTx, headers, faults>>
      /\ calls[s].step = "search" /\ calls' = [calls EXCEPT ![s] = c]
  BY DEF NodeAnswersSearch, chainVars, producerVars, bnsVars
<1>c. /\ height \in Nat /\ height >= 1 /\ tx.height \in 0 .. height
      /\ Depth = height - tx.height + 1 /\ Depth' = Depth
  BY <1>a, <1>b DEF PostTypeOK, Depth
<1>d. /\ c \in [step : {"idle", "search", "second", "answered"}, height : 0 .. height, confirmations : 0 .. height]
      /\ c.step \in {"idle", "second", "answered"}
      /\ c.step # "idle" => tx.height > 0 /\ c.height = tx.height
      /\ c.step = "second" => connection # "lisk"
      /\ c.step = "answered" => connection = "lisk" /\ c.confirmations = Depth
  <2> HIDE DEF Depth
  <2>1. CASE tx.height = 0
    BY <2>1, <1>c DEF IdleCall
  <2>2. CASE tx.height # 0
    BY <2>2, <1>c
  <2> QED BY <2>1, <2>2
<1>e. calls'[s] = c
  BY <1>a, <1>b DEF PostTypeOK
<1> HIDE DEF c
<1>1. CallInv(s)'
  BY <1>a, <1>b, <1>c, <1>d, <1>e DEF CallInv
<1>2. overlap' \in BOOLEAN /\ faults' \in 0 .. PostFaults
  BY <1>a, <1>b DEF PostTypeOK
<1>3. c.step = "answered" /\ value.state = "succeeded" => value.confirmations <= c.confirmations
  BY <1>a, <1>c, <1>d, TrueReport
<1>4. ~overlap => \A t \in Slots \ {s} : calls[t].step = "idle"
  BY <1>a, <1>b DEF OrderInv
<1> QED BY <1>1, <1>2, <1>3, <1>4, <1>b, <1>d, PollKeeps

(* The node answers the second question with its height or the nonce. *)
LEMMA NodeAnswersSecondKeeps ==
  ASSUME PostInv, NEW s \in Slots, NodeAnswersSecond(s)
  PROVE  PostInv'
<1>a. PostTypeOK /\ OrderInv /\ CallInv(s) /\ IsTrue(value)
  BY DEF PostInv
<1> DEFINE c == [calls[s] EXCEPT !.step = "answered", !.confirmations = SecondAnswer(calls[s].height)]
<1>b. /\ UNCHANGED <<connection, posted, height, tx, value, lastEventSent, listeners, running, wait, interval, overlap, liveTx, headers, faults>>
      /\ calls[s].step = "second"
  BY DEF NodeAnswersSecond, chainVars, producerVars, bnsVars
<1>c. /\ height \in Nat /\ height >= 1 /\ tx.height \in 0 .. height
      /\ Depth = height - tx.height + 1 /\ Depth' = Depth
  BY <1>a, <1>b DEF PostTypeOK, Depth
<1>d. /\ tx.height > 0 /\ calls[s].height = tx.height
      /\ connection \in {"ethereum", "cosmoshub"}
  BY <1>a, <1>b DEF CallInv, Pollers
<1>e. /\ SecondAnswer(calls[s].height) \in 1 .. Depth
      /\ SecondAnswer(calls[s].height) \in 0 .. height
      /\ connection = "ethereum" => SecondAnswer(calls[s].height) = Depth
      /\ connection = "cosmoshub" => SecondAnswer(calls[s].height) = 1
  BY <1>c, <1>d DEF SecondAnswer
<1>f. /\ c \in [step : {"idle", "search", "second", "answered"}, height : 0 .. height, confirmations : 0 .. height]
      /\ c.step = "answered" /\ c.height = tx.height /\ c.confirmations = SecondAnswer(calls[s].height)
  BY <1>a, <1>d, <1>e DEF PostTypeOK
<1>g. calls' = [calls EXCEPT ![s] = c] /\ calls'[s] = c
  <2>1. calls' = [calls EXCEPT ![s] = c]
    BY <1>a DEF NodeAnswersSecond, PostTypeOK
  <2> HIDE DEF c
  <2> QED BY <2>1, <1>a DEF PostTypeOK
<1> HIDE DEF c
<1>1. CallInv(s)'
  BY <1>b, <1>c, <1>d, <1>e, <1>f, <1>g DEF CallInv, Pollers
<1>2. overlap' \in BOOLEAN /\ faults' \in 0 .. PostFaults
  BY <1>a, <1>b DEF PostTypeOK
<1>3. value.state = "succeeded" => value.confirmations <= c.confirmations
  <2>1. value.state = "succeeded" => value.confirmations \in 1 .. Depth
    BY <1>a, TrueReport
  <2>2. connection = "cosmoshub" /\ value.state = "succeeded" => value.confirmations = 1
    BY <1>a DEF OrderInv
  <2> QED BY <2>1, <2>2, <1>c, <1>d, <1>e, <1>f
<1>4. ~overlap => \A t \in Slots \ {s} : calls[t].step = "idle"
  BY <1>a, <1>b DEF OrderInv
<1> QED BY <1>1, <1>2, <1>3, <1>4, <1>b, <1>f, <1>g, PollKeeps

-----------------------------------------------------------------------------
(* What the value may become in a step. *)
Advances ==
  value.state # "pending" =>
    /\ value'.state = value.state /\ value'.height = value.height
    /\ value.state = "succeeded" /\ ~overlap /\ liveTx # "on" =>
         value'.confirmations >= value.confirmations

(* update() and the assignment of Ethereum: the promise of waitFor() stays  *)
(* what it can be, and so does the last event.                              *)
LEMMA UpdateTypes ==
  ASSUME PostTypeOK, NEW v \in BlockInfo,
         UpdateUnlessEqual(v) \/ Update(v)
  PROVE  /\ value' \in {value, v} /\ lastEventSent' \in BlockInfo \cup {NoEvent}
         /\ wait' \in {"none", "pending", "resolved", "rejected"}
         /\ UNCHANGED <<listeners, running>>
<1>1. CASE Update(v)
  BY <1>1 DEF PostTypeOK, Update, WaitSees
<1>2. CASE UNCHANGED producerVars
  BY <1>2 DEF PostTypeOK, producerVars
<1> QED BY <1>1, <1>2 DEF UpdateUnlessEqual

(* A success that is true of the transaction. *)
LEMMA SuccessIsTrue ==
  ASSUME PostTypeOK, NEW n \in 1 .. Depth, tx.height > 0, connection = "bns" => tx.ok
  PROVE  /\ IsTrue(Succeeded(tx.height, n))
         /\ Succeeded(tx.height, n) \in BlockInfo
         /\ Succeeded(tx.height, n).state = "succeeded"
         /\ Succeeded(tx.height, n).height = tx.height
         /\ Succeeded(tx.height, n).confirmations = n
<1>1. IsTrue(Succeeded(tx.height, n))
  BY DEF IsTrue
<1>2. Succeeded(tx.height, n) \in BlockInfo
  BY <1>1, TrueReport
<1> QED BY <1>1, <1>2 DEF Succeeded

(* The answer reaches the poll. *)
LEMMA PollEndsKeeps ==
  ASSUME PostInv, NEW s \in Slots, PollEnds(s)
  PROVE  PostInv' /\ Advances
<1>a. PostTypeOK /\ ProducerInv /\ HeaderInv /\ OrderInv /\ CallInv(s) /\ IsTrue(value)
  BY DEF PostInv
<1> DEFINE n == calls[s].confirmations
           event == Succeeded(tx.height, n)
<1>b. /\ UNCHANGED <<connection, posted, height, tx, interval, overlap, liveTx, headers, faults>>
      /\ calls[s].step = "answered" /\ calls' = [calls EXCEPT ![s] = IdleCall]
  BY DEF PollEnds, chainVars, bnsVars
<1>c. /\ tx.height > 0 /\ calls[s].height = tx.height /\ n \in 1 .. Depth
      /\ connection \in Pollers /\ connection # "bns"
      /\ connection = "cosmoshub" => n = 1
  BY <1>a, <1>b DEF CallInv, Pollers
<1>d. /\ IsTrue(event) /\ event \in BlockInfo
      /\ event.state = "succeeded" /\ event.height = tx.height /\ event.confirmations = n
  BY <1>a, <1>c, SuccessIsTrue
<1>e. /\ calls' \in [Slots -> [step : {"idle", "search", "second", "answered"}, height : 0 .. height, confirmations : 0 .. height]]
      /\ calls'[s] = IdleCall /\ \A t \in Slots \ {s} : calls'[t] = calls[t]
      /\ IdleCall.step = "idle"
  BY <1>a, <1>b DEF PostTypeOK, IdleCall
<1>f. /\ value' \in {value, event} /\ lastEventSent' \in BlockInfo \cup {NoEvent}
      /\ wait' \in {"none", "pending", "resolved", "rejected"}
      /\ UNCHANGED <<listeners, running>>
  <2>1. Succeeded(calls[s].height, calls[s].confirmations) = event
    BY <1>c
  <2> HIDE DEF event
  <2>2. CASE connection = "ethereum"
    BY <2>1, <2>2, <1>a DEF PollEnds, PostTypeOK, WaitSees
  <2>3. CASE connection # "ethereum"
    <3>1. UpdateUnlessEqual(event)
      BY <2>1, <2>3 DEF PollEnds
    <3> QED BY <3>1, <1>a, <1>d, UpdateTypes
  <2> QED BY <2>2, <2>3
<1> HIDE DEF n, event
<1>1. PostTypeOK'
  BY <1>a, <1>b, <1>d, <1>e, <1>f DEF PostTypeOK
<1>2. IsTrue(value)'
  <2>1. IsTrue(value')
    BY <1>a, <1>d, <1>f
  <2> QED BY <2>1, <1>a, <1>b, TruthStays DEF PostTypeOK
<1>3. ProducerInv'
  BY <1>a, <1>b, <1>f DEF ProducerInv, StopReleases
<1>4. HeaderInv'
  BY <1>a, <1>b, <1>c DEF HeaderInv
<1>5. ASSUME NEW t \in Slots PROVE CallInv(t)'
  <2>1. CASE t = s
    BY <2>1, <1>e DEF CallInv
  <2>2. CASE t # s
    <3>1. CallInv(t)
      BY DEF PostInv
    <3> QED BY <2>2, <3>1, <1>b, <1>e DEF CallInv, Depth
  <2> QED BY <2>1, <2>2
<1>6. OrderInv'
  <2>1. ~overlap => \A t \in Slots : calls'[t].step = "idle"
    BY <1>a, <1>b, <1>e DEF OrderInv
  <2>2. connection = "cosmoshub" /\ value'.state = "succeeded" => value'.confirmations = 1
    BY <1>a, <1>c, <1>d, <1>f DEF OrderInv
  <2> QED BY <2>1, <2>2, <1>b DEF OrderInv
<1>7. Advances
  <2>1. CASE value' = value
    <3>1. value.state = "succeeded" => value.confirmations \in 1 .. Depth
      BY <1>a, TrueReport
    <3> QED BY <2>1, <3>1 DEF Advances
  <2>2. CASE value' = event
    <3>1. value.state # "pending" => value.state = "succeeded" /\ value.height = tx.height /\ value.confirmations \in 1 .. Depth
      BY <1>a, <1>c, TrueReport
    <3>2. ~overlap /\ value.state = "succeeded" => value.confirmations <= n
      BY <1>a, <1>b DEF OrderInv, n
    <3> QED BY <2>2, <3>1, <3>2, <1>c, <1>d DEF Advances
  <2> QED BY <2>1, <2>2, <1>f
<1> QED BY <1>1, <1>2, <1>3, <1>4, <1>5, <1>6, <1>7 DEF PostInv

(* A step of BNS: no polls are under way, and what the value becomes is     *)
(* true of the transaction.                                                 *)
LEMMA BnsKeeps ==
  ASSUME PostInv, connection = "bns", IsTrue(value'),
         UNCHANGED <<connection, posted, height, tx, interval, calls, overlap, listeners, running>>
  PROVE  IsTrue(value)' /\ (\A s \in Slots : CallInv(s)') /\ OrderInv'
<1>a. PostTypeOK /\ OrderInv
  BY DEF PostInv
<1>1. IsTrue(value)'
  BY <1>a, TruthStays DEF PostTypeOK
<1>2. ASSUME NEW s \in Slots PROVE calls[s].step = "idle" /\ CallInv(s)'
  <2>1. CallInv(s)
    BY DEF PostInv
  <2> QED BY <2>1 DEF CallInv, Pollers
<1>3. OrderInv'
  BY <1>a, <1>2 DEF OrderInv
<1> QED BY <1>1, <1>2, <1>3

(* BNS: the transaction is in a block. *)
LEMMA LiveTxEmitsKeeps ==
  ASSUME PostInv, LiveTxEmits
  PROVE  PostInv' /\ Advances
<1>a. PostTypeOK /\ ProducerInv /\ HeaderInv /\ IsTrue(value)
  BY DEF PostInv
<1>b. /\ UNCHANGED <<connection, posted, height, tx, interval, calls, overlap, faults>>
      /\ liveTx = "on" /\ tx.height > 0 /\ liveTx' = "done"
  BY DEF LiveTxEmits, chainVars, pollVars
<1>c. connection = "bns" /\ running
  BY <1>a, <1>b DEF ProducerInv, StopReleases
<1>d. PICK v \in BlockInfo :
        /\ IsTrue(v) /\ Update(v) /\ v.state = IF tx.ok THEN "succeeded" ELSE "failed"
        /\ v.height = tx.height
        /\ headers' = headers \/ (tx.ok /\ headers' = [headers EXCEPT !.state = "asked"])
  <2>1. CASE tx.ok
    <3>1. 1 \in 1 .. Depth
      BY <1>a DEF PostTypeOK, Depth
    <3>2. /\ IsTrue(Succeeded(tx.height, 1)) /\ Succeeded(tx.height, 1) \in BlockInfo
          /\ Succeeded(tx.height, 1).state = "succeeded" /\ Succeeded(tx.height, 1).height = tx.height
      BY <1>a, <1>b, <2>1, <3>1, SuccessIsTrue
    <3> QED BY <2>1, <3>2 DEF LiveTxEmits
  <2>2. CASE ~tx.ok
    <3>1. IsTrue(Failed(tx.height))
      BY <1>b, <1>c, <2>2 DEF IsTrue
    <3>2. Failed(tx.height) \in BlockInfo
      BY <3>1, <1>a, TrueReport
    <3>3. Failed(tx.height).state = "failed" /\ Failed(tx.height).height = tx.height
      BY DEF Failed
    <3> QED BY <2>2, <3>1, <3>2, <3>3 DEF LiveTxEmits
  <2> QED BY <2>1, <2>2
<1>e. /\ value' = v /\ lastEventSent' \in BlockInfo \cup {NoEvent}
      /\ wait' \in {"none", "pending", "resolved", "rejected"}
      /\ UNCHANGED <<listeners, running>>
  BY <1>a, <1>d, UpdateTypes DEF Update
<1>f. /\ headers' \in [state : {"off", "asked", "on"}, next : 0 .. height + 1]
      /\ headers'.state = headers.state \/ (tx.ok /\ headers'.state = "asked")
      /\ headers.state = "off"
  BY <1>a, <1>b, <1>d DEF PostTypeOK, HeaderInv
<1>1. PostTypeOK'
  BY <1>a, <1>b, <1>d, <1>e, <1>f DEF PostTypeOK
<1>2. IsTrue(value)' /\ (\A s \in Slots : CallInv(s)') /\ OrderInv'
  BY <1>b, <1>c, <1>d, <1>e, BnsKeeps
<1>3. ProducerInv'
  BY <1>a, <1>b, <1>c, <1>e DEF ProducerInv, StopReleases
<1>4. HeaderInv'
  BY <1>b, <1>c, <1>d, <1>e, <1>f DEF HeaderInv
<1>5. Advances
  <2>1. value.state # "pending" => value.height = tx.height /\ value.state = IF tx.ok THEN "succeeded" ELSE "failed"
    BY <1>a, <1>c, TrueReport
  <2> QED BY <2>1, <1>b, <1>d, <1>e DEF Advances
<1> QED BY <1>1, <1>2, <1>3, <1>4, <1>5 DEF PostInv

(* The headers begin above the chain. *)
LEMMA NodeSubscribesHeadersKeeps ==
  ASSUME PostInv, NodeSubscribesHeaders
  PROVE  PostInv'
<1>a. PostTypeOK /\ ProducerInv /\ HeaderInv /\ IsTrue(value)
  BY DEF PostInv
<1>b. /\ UNCHANGED <<connection, posted, height, tx, value, lastEventSent, listeners, running, wait, interval, calls, overlap, liveTx, faults>>
      /\ headers.state = "asked" /\ headers' = [state |-> "on", next |-> height + 1]
  BY DEF NodeSubscribesHeaders, chainVars, producerVars, pollVars
<1>1. PostTypeOK'
  BY <1>a, <1>b DEF PostTypeOK
<1>2. IsTrue(value)' /\ (\A s \in Slots : CallInv(s)') /\ OrderInv'
  BY <1>b, PollsStay
<1>3. ProducerInv'
  BY <1>a, <1>b DEF ProducerInv, StopReleases
<1>4. HeaderInv'
  <2>1. value.state = "succeeded" /\ value.confirmations \in 1 .. Depth
    BY <1>a, <1>b, TrueReport DEF HeaderInv
  <2>2. headers'.next > tx.height /\ value.confirmations <= headers'.next - tx.height + 1
    BY <2>1, <1>a, <1>b DEF PostTypeOK, Depth
  <2> QED BY <2>2, <1>a, <1>b DEF HeaderInv
<1> QED BY <1>1, <1>2, <1>3, <1>4 DEF PostInv

(* A header counts a confirmation the transaction has. *)
LEMMA HeaderArrivesKeeps ==
  ASSUME PostInv, HeaderArrives
  PROVE  PostInv' /\ Advances
<1>a. PostTypeOK /\ ProducerInv /\ HeaderInv /\ IsTrue(value)
  BY DEF PostInv
<1> DEFINE n == headers.next - tx.height + 1
           event == Succeeded(tx.height, n)
<1>b. /\ UNCHANGED <<connection, posted, height, tx, interval, calls, overlap, liveTx, faults>>
      /\ headers.state = "on" /\ headers.next <= height
      /\ headers' = [headers EXCEPT !.next = @ + 1] /\ UpdateUnlessEqual(event)
  BY DEF HeaderArrives, chainVars, pollVars
<1>c. /\ connection = "bns" /\ tx.height > 0 /\ tx.ok /\ liveTx # "on"
      /\ value.state = "succeeded" /\ headers.next > tx.height /\ value.confirmations <= n
  BY <1>a, <1>b DEF HeaderInv
<1>d. n \in 1 .. Depth
  BY <1>a, <1>b, <1>c DEF PostTypeOK, Depth
<1>e. /\ IsTrue(event) /\ event \in BlockInfo
      /\ event.state = "succeeded" /\ event.height = tx.height /\ event.confirmations = n
  BY <1>a, <1>c, <1>d, SuccessIsTrue
<1>f. /\ value' \in {value, event} /\ lastEventSent' \in BlockInfo \cup {NoEvent}
      /\ wait' \in {"none", "pending", "resolved", "rejected"}
      /\ UNCHANGED <<listeners, running>>
  BY <1>a, <1>b, <1>e, UpdateTypes
<1>g. /\ headers' \in [state : {"off", "asked", "on"}, next : 0 .. height + 1]
      /\ headers'.state = "on" /\ headers'.next = headers.next + 1
  BY <1>a, <1>b DEF PostTypeOK
<1>h. value.height = tx.height /\ value.confirmations \in 1 .. Depth
  BY <1>a, <1>c, TrueReport
<1> HIDE DEF event
<1>1. PostTypeOK'
  BY <1>a, <1>b, <1>e, <1>f, <1>g DEF PostTypeOK
<1>2. IsTrue(value)' /\ (\A s \in Slots : CallInv(s)') /\ OrderInv'
  <2>1. IsTrue(value')
    BY <1>a, <1>e, <1>f
  <2> QED BY <2>1, <1>b, <1>c, <1>f, BnsKeeps
<1>3. ProducerInv'
  BY <1>a, <1>b, <1>f DEF ProducerInv, StopReleases
<1>4. HeaderInv'
  <2>1. value'.state = "succeeded" /\ value'.confirmations <= headers.next + 1 - tx.height + 1
    BY <1>a, <1>c, <1>d, <1>e, <1>f, <1>h DEF PostTypeOK
  <2>2. headers.next + 1 > tx.height
    BY <1>a, <1>c DEF PostTypeOK
  <2>3. (headers.next > tx.height /\ value.confirmations <= headers.next - tx.height + 1)'
    <3> HIDE DEF n
    <3>1. headers.next \in Int /\ tx.height \in Int /\ tx'.height = tx.height /\ headers'.next = headers.next + 1
      BY <1>a, <1>b, <1>g DEF PostTypeOK
    <3> QED BY <2>1, <2>2, <3>1
  <2>4. (connection = "bns" /\ tx.height > 0 /\ tx.ok /\ liveTx # "on" /\ value.state = "succeeded")'
    BY <2>1, <1>b, <1>c
  <2> QED BY <2>3, <2>4 DEF HeaderInv
<1>5. Advances
  <2>1. value'.confirmations >= value.confirmations
    BY <1>c, <1>d, <1>e, <1>f, <1>h
  <2> QED BY <2>1, <1>c, <1>e, <1>f, <1>h DEF Advances
<1> QED BY <1>1, <1>2, <1>3, <1>4, <1>5 DEF PostInv

-----------------------------------------------------------------------------
(* The invariant holds before postTx() is called. *)
LEMMA PostInvInit ==
  ASSUME PostInit
  PROVE  PostInv
<1> USE PostTxAssumption DEF PostInit
<1>1. PostTypeOK
  <2>1. calls \in [Slots -> [step : {"idle", "search", "second", "answered"}, height : 0 .. height, confirmations : 0 .. height]]
    BY DEF IdleCall
  <2>2. tx \in [height : 0 .. height, ok : BOOLEAN] /\ headers \in [state : {"off", "asked", "on"}, next : 0 .. height + 1]
    OBVIOUS
  <2>3. value \in BlockInfo /\ lastEventSent \in BlockInfo \cup {NoEvent}
    BY DEF BlockInfo
  <2>4. height \in 1 .. PostHeight /\ faults \in 0 .. PostFaults
    OBVIOUS
  <2>5. running \in BOOLEAN /\ interval \in BOOLEAN /\ overlap \in BOOLEAN
    OBVIOUS
  <2> QED BY <2>1, <2>2, <2>3, <2>4, <2>5 DEF PostTypeOK
<1>2. IsTrue(value)
  BY DEF IsTrue
<1>3. ProducerInv
  BY DEF ProducerInv, StopReleases
<1>4. ASSUME NEW s \in Slots PROVE calls[s].step = "idle" /\ CallInv(s)
  BY DEF CallInv, IdleCall
<1>5. OrderInv /\ HeaderInv
  <2>1. value.state = "pending"
    BY DEF Pending
  <2> QED BY <2>1, <1>4 DEF OrderInv, HeaderInv
<1> QED BY <1>1, <1>2, <1>3, <1>4, <1>5 DEF PostInv

(* Every step keeps the invariant. *)
LEMMA PostInvNext ==
  ASSUME PostInv, [PostNext]_postVars
  PROVE  PostInv'
<1>1. CASE UNCHANGED postVars
  <2>1. UNCHANGED <<connection, posted, height, tx, value, lastEventSent, listeners, running, wait, interval, calls, overlap, liveTx, headers, faults>>
    BY <1>1 DEF postVars, chainVars, producerVars, pollVars, bnsVars
  <2>2. PostTypeOK' /\ ProducerInv' /\ HeaderInv'
    BY <2>1 DEF PostInv, PostTypeOK, ProducerInv, StopReleases, HeaderInv
  <2>3. IsTrue(value)' /\ (\A s \in Slots : CallInv(s)') /\ OrderInv'
    BY <2>1, PollsStay
  <2> QED BY <2>2, <2>3 DEF PostInv
<1>2. ASSUME NEW c \in Connection, CallPostTx(c) PROVE PostInv'
  BY <1>2, CallPostTxKeeps
<1>3. ASSUME NEW l \in {"user", "waitFor"}, Subscribe(l) \/ Unsubscribe(l) PROVE PostInv'
  BY <1>3, SubscribeKeeps, UnsubscribeKeeps
<1>4. ASSUME NEW s \in Slots,
             Tick(s) \/ NodeAnswersSearch(s) \/ NodeAnswersSecond(s) \/ PollEnds(s) \/ PollFails(s)
      PROVE  PostInv'
  BY <1>4, TickKeeps, NodeAnswersSearchKeeps, NodeAnswersSecondKeeps, PollEndsKeeps, PollFailsKeeps
<1>5. CASE NewBlock \/ StopNow \/ LiveTxEmits \/ NodeSubscribesHeaders \/ HeaderArrives \/ BnsStreamFails
  BY <1>5, NewBlockKeeps, StopNowKeeps, LiveTxEmitsKeeps, NodeSubscribesHeadersKeeps,
     HeaderArrivesKeeps, BnsStreamFailsKeeps
<1> QED BY <1>1, <1>2, <1>3, <1>4, <1>5 DEF PostNext

(* Every step lets the value only advance. *)
LEMMA StepAdvances ==
  ASSUME PostInv, [PostNext]_postVars
  PROVE  Advances
<1>1. ASSUME value' = value PROVE Advances
  <2>1. value.state = "succeeded" => value.confirmations \in 1 .. Depth
    BY TrueReport DEF PostInv
  <2> QED BY <1>1, <2>1 DEF Advances
<1>2. CASE UNCHANGED postVars
  BY <1>1, <1>2 DEF postVars, producerVars
<1>3. ASSUME NEW c \in Connection, CallPostTx(c) PROVE Advances
  BY <1>1, <1>3 DEF CallPostTx
<1>4. ASSUME NEW l \in {"user", "waitFor"}, Subscribe(l) \/ Unsubscribe(l) PROVE Advances
  <2>1. value' = value
    BY <1>4 DEF Subscribe, OnStarted, Unsubscribe
  <2> QED BY <1>1, <2>1
<1>5. ASSUME NEW s \in Slots, Tick(s) \/ NodeAnswersSearch(s) \/ NodeAnswersSecond(s) \/ PollFails(s)
      PROVE  Advances
  <2>1. value' = value
    BY <1>5 DEF Tick, NodeAnswersSearch, NodeAnswersSecond, PollFails, producerVars
  <2> QED BY <1>1, <2>1
<1>6. ASSUME NEW s \in Slots, PollEnds(s) PROVE Advances
  BY <1>6, PollEndsKeeps
<1>7. CASE NewBlock \/ StopNow \/ NodeSubscribesHeaders \/ BnsStreamFails
  <2>1. value' = value
    BY <1>7 DEF NewBlock, StopNow, NodeSubscribesHeaders, BnsStreamFails, producerVars
  <2> QED BY <1>1, <2>1
<1>8. CASE LiveTxEmits \/ HeaderArrives
  BY <1>8, LiveTxEmitsKeeps, HeaderArrivesKeeps
<1> QED BY <1>2, <1>3, <1>4, <1>5, <1>6, <1>7, <1>8 DEF PostNext

(* The invariant holds throughout. *)
LEMMA PostInvHolds == PostSpec => []PostInv
<1>1. PostInit => PostInv
  BY PostInvInit
<1>2. PostInv /\ [PostNext]_postVars => PostInv'
  BY PostInvNext
<1> QED BY <1>1, <1>2, PTL DEF PostSpec

(* Type correctness: the transaction is in the chain, what was answered     *)
(* fits it, for any height and any number of polls under way.               *)
THEOREM PostTypeCorrect == PostSpec => []PostTypeOK
<1>1. PostInv => PostTypeOK
  BY DEF PostInv
<1> QED BY <1>1, PostInvHolds, PTL

(* The height reported is the transaction's, it is never reported deeper    *)
(* than it is, no success is reported as a failure, and BNS, which is the   *)
(* only one to ask for the outcome, reports no failure as a success,        *)
(* whatever polls overlap, fail or are answered out of order.               *)
THEOREM ReportStaysTrue == PostSpec => []ReportIsTrue
<1>1. PostInv => ReportIsTrue
  <2> SUFFICES ASSUME PostInv PROVE ReportIsTrue
    OBVIOUS
  <2>1. PostTypeOK /\ IsTrue(value)
    BY DEF PostInv
  <2> QED BY <2>1, TrueReport DEF ReportIsTrue
<1> QED BY <1>1, PostInvHolds, PTL

(* When the last listener has gone no timer and no subscription is left. *)
THEOREM StopAlwaysReleases == PostSpec => []StopReleases
<1>1. PostInv => StopReleases
  BY DEF PostInv, ProducerInv
<1> QED BY <1>1, PostInvHolds, PTL

(* A transaction seen in a block is never reported pending again, nor with  *)
(* another result or height; and the confirmations never go back while      *)
(* polls do not overlap and the BNS listener has not just come back.        *)
THEOREM ReportOnlyAdvances == PostSpec => ReportAdvances
<1>1. PostInv /\ [PostNext]_postVars => Advances
  BY StepAdvances
<1>2. PostInv /\ [PostNext]_postVars =>
        [value.state # "pending" =>
           /\ value'.state = value.state /\ value'.height = value.height
           /\ value.state = "succeeded" /\ ~overlap /\ liveTx # "on" =>
                value'.confirmations >= value.confirmations]_postVars
  BY <1>1 DEF Advances
<1> QED BY <1>2, PostInvHolds, PTL DEF PostSpec, ReportAdvances

-----------------------------------------------------------------------------
(* The polled streams of Lisk and Ethereum (Watchers). *)

(* Only the headers wait for a height, and nothing runs before the stream    *)
(* was asked for (liskconnection.ts, ethereumconnection.ts).                 *)
StartedInv ==
  /\ listener.here => started
  /\ started => service # "none"
  /\ service = "none" => seen = None
  /\ \A k \in 1 .. Listeners :
       /\ activation[k].state = "height" => service = "lisk headers"
       /\ activation[k].state # "none" => k <= listener.n /\ service # "none"

(* While no poll overlaps there is one, for the height where its start is,  *)
(* and the header that the listener has is the one below.                   *)
HeightInv ==
  /\ Len(polls) <= 1
  /\ \A p \in DOMAIN polls :
       /\ polls[p].height = activation[polls[p].of].height
       /\ polls[p].answer \in {None, SomeEvent(polls[p].height)}
       /\ started => activation[polls[p].of].state = "ticking"
  /\ listener.here /\ seen.event =>
       /\ Ticking # {}
       /\ \A k \in Ticking : Ticking = {k} => seen.data + 1 = activation[k].height

WatchInv ==
  /\ WatchTypeOK
  /\ StartedInv
  /\ TimersStop
  /\ service = "lisk headers" /\ ~overlapped => HeightInv

ActivationType == [state : {"none", "height", "ticking", "cleared", "failed"}, height : Nat]
PollType == [step : {"asked", "answered"}, of : 1 .. Listeners, height : Nat, answer : WatchEventType]

(* What the types say, for the provers. *)
LEMMA WatchTypes ==
  ASSUME WatchTypeOK
  PROVE  /\ WatchHeight \in Nat /\ Listeners \in Nat /\ WatchFaults \in Nat
         /\ listener.n \in 0 .. Listeners /\ listener.here \in BOOLEAN
         /\ listener = [n |-> listener.n, here |-> listener.here]
         /\ started \in BOOLEAN /\ overlapped \in BOOLEAN
         /\ activation \in [1 .. Listeners -> ActivationType]
         /\ polls \in Seq(PollType) /\ Len(polls) \in Nat /\ DOMAIN polls = 1 .. Len(polls)
         /\ \A p \in DOMAIN polls : polls[p] \in PollType
         /\ pollInternal \in 0 .. Listeners
         /\ pollInternal # 0 => activation[pollInternal].state = "ticking"
         /\ None \in WatchEventType /\ Dummy \in WatchEventType
<1>1. polls \in Seq(PollType)
  BY DEF WatchTypeOK, PollType
<1>2. Len(polls) \in Nat /\ DOMAIN polls = 1 .. Len(polls) /\ \A p \in 1 .. Len(polls) : polls[p] \in PollType
  BY <1>1, LenProperties, ElementOfSeq
<1> QED
  BY <1>1, <1>2, WatchersAssumption DEF WatchTypeOK, ActivationType, WatchEventType, None, Dummy

Asked(k, at) == [step |-> "asked", of |-> k, height |-> at, answer |-> None]

(* A poll that begins. *)
LEMMA WatchPoll ==
  ASSUME WatchTypeOK, NEW k \in 1 .. Listeners, NEW at \in Nat, Poll(k, at)
  PROVE  /\ polls' \in Seq(PollType) /\ overlapped' \in BOOLEAN
         /\ Len(polls') = Len(polls) + 1 /\ DOMAIN polls' = 1 .. Len(polls')
         /\ \A p \in DOMAIN polls : polls'[p] = polls[p]
         /\ \A p \in DOMAIN polls' : p \in DOMAIN polls \/ (p = Len(polls) + 1 /\ polls'[p] = Asked(k, at))
         /\ ~overlapped' => ~overlapped /\ polls = <<>>
<1>1. Asked(k, at) \in PollType
  BY WatchTypes DEF PollType, Asked
<1>2. polls' = Append(polls, Asked(k, at)) /\ overlapped' = (overlapped \/ polls # <<>>)
  BY DEF Poll, Asked
<1>3. polls \in Seq(PollType) /\ Len(polls) \in Nat /\ DOMAIN polls = 1 .. Len(polls) /\ overlapped \in BOOLEAN
  BY WatchTypes
<1>4. /\ polls' \in Seq(PollType) /\ Len(polls') = Len(polls) + 1 /\ polls'[Len(polls) + 1] = Asked(k, at)
      /\ \A p \in 1 .. Len(polls) : polls'[p] = polls[p]
      /\ DOMAIN polls' = 1 .. Len(polls) + 1
  BY <1>1, <1>2, <1>3
<1>5. overlapped' \in BOOLEAN /\ (~overlapped' => ~overlapped /\ polls = <<>>)
  BY <1>2, <1>3, Zenon
<1> QED
  BY <1>3, <1>4, <1>5

(* Initially nothing runs. *)
LEMMA WatchInitially == WatchInit => WatchInv
<1> SUFFICES ASSUME WatchInit PROVE WatchInv
  OBVIOUS
<1>1. WatchTypeOK
  <2>1. None \in WatchEventType /\ Dummy \in WatchEventType
    BY DEF None, Dummy, WatchEventType
  <2>2. polls \in Seq(PollType) /\ DOMAIN polls = {}
    BY DEF WatchInit
  <2>3. activation \in [1 .. Listeners -> ActivationType]
    BY DEF WatchInit, ActivationType
  <2>4. ledger \in [height : 1 .. WatchHeight, account : Nat, tx : BOOLEAN]
    BY WatchersAssumption DEF WatchInit
  <2>5. listener \in [n : 0 .. Listeners, here : BOOLEAN]
    BY WatchersAssumption DEF WatchInit
  <2>6. watchFaults \in 0 .. WatchFaults /\ pollInternal = 0 /\ pollInternal \in 0 .. Listeners
    BY WatchersAssumption DEF WatchInit
  <2>7. started \in BOOLEAN /\ overlapped \in BOOLEAN
    BY DEF WatchInit
  <2> QED
    BY <2>1, <2>2, <2>3, <2>4, <2>5, <2>6, <2>7 DEF WatchInit, WatchTypeOK, PollType, ActivationType
<1>2. StartedInv
  BY DEF WatchInit, StartedInv
<1>3. TimersStop
  BY DEF WatchInit, TimersStop
<1> QED
  BY <1>1, <1>2, <1>3 DEF WatchInv, WatchInit

(* The stream is asked for. *)
LEMMA WatchKeeps ==
  ASSUME WatchInv, NEW s \in Service, Watch(s)
  PROVE  WatchInv'
<1>1. /\ service = "none" /\ service' = s
      /\ UNCHANGED <<ledger, listener, started, activation, pollInternal, polls, lastEvent, seen,
                     givenHeaders, overlapped, watchFaults>>
  BY DEF Watch
<1>2. WatchTypeOK /\ StartedInv /\ seen = None /\ ~started /\ ~listener.here
  BY <1>1 DEF WatchInv, StartedInv
<1>3. \A k \in 1 .. Listeners : activation[k].state = "none"
  BY <1>1, <1>2 DEF StartedInv
<1>4. polls = <<>> /\ DOMAIN polls = {} /\ Len(polls) = 0
  <2>1. \A p \in DOMAIN polls : FALSE
    BY <1>2, <1>3, WatchTypes DEF WatchTypeOK, PollType
  <2>2. polls \in Seq(PollType) /\ Len(polls) \in Nat /\ DOMAIN polls = 1 .. Len(polls)
    BY <1>2, WatchTypes
  <2>3. Len(polls) = 0
    BY <2>1, <2>2
  <2> QED
    BY <2>2, <2>3, EmptySeq
<1>5. WatchTypeOK'
  BY <1>1, <1>2 DEF WatchTypeOK, None
<1>6. StartedInv'
  BY <1>1, <1>2, <1>3 DEF StartedInv, Service, Accounts
<1>7. TimersStop'
  BY <1>1, <1>2, <1>3 DEF TimersStop, Ticking
<1>8. HeightInv'
  BY <1>1, <1>2, <1>4 DEF HeightInv
<1> QED
  BY <1>5, <1>6, <1>7, <1>8 DEF WatchInv

(* Blocks come. *)
LEMMA ChainMovesKeeps == WatchInv /\ ChainMoves => WatchInv'
<1> SUFFICES ASSUME WatchInv, ChainMoves PROVE WatchInv'
  OBVIOUS
<1>1. /\ UNCHANGED <<service, listener, started, activation, pollInternal, polls, lastEvent, seen,
                     givenHeaders, overlapped, watchFaults>>
      /\ ledger' \in [height : 1 .. WatchHeight, account : Nat, tx : BOOLEAN]
  <2>1. ledger \in [height : 1 .. WatchHeight, account : Nat, tx : BOOLEAN]
    BY DEF WatchInv, WatchTypeOK
  <2>2. (IF service \in Accounts THEN 0 .. Versions - 1 ELSE {0}) \subseteq Nat
    BY WatchersAssumption
  <2>3. {ledger.height + 1} \subseteq 1 .. WatchHeight
    <3>1. ledger.height \in 1 .. WatchHeight /\ ledger.height < WatchHeight /\ WatchHeight \in Nat
      BY <2>1, WatchersAssumption DEF ChainMoves
    <3> QED BY <3>1
  <2>4. (IF service = "lisk transaction" /\ ~ledger.tx THEN BOOLEAN ELSE {ledger.tx}) \subseteq BOOLEAN
    BY <2>1
  <2> QED
    BY <2>2, <2>3, <2>4 DEF ChainMoves
<1>2. WatchTypeOK'
  BY <1>1 DEF WatchInv, WatchTypeOK
<1>3. StartedInv'
  BY <1>1 DEF WatchInv, StartedInv
<1>4. Ticking' = Ticking
  BY <1>1 DEF Ticking
<1>5. TimersStop'
  BY <1>1, <1>4 DEF WatchInv, TimersStop
<1>6. (service = "lisk headers" /\ ~overlapped => HeightInv)'
  BY <1>1, <1>4 DEF WatchInv, HeightInv
<1> QED
  BY <1>2, <1>3, <1>5, <1>6 DEF WatchInv

(* stop() clears the one timer that the variable holds. *)
LEMMA StopPollingClears ==
  ASSUME WatchInv, StopPolling
  PROVE  /\ activation' \in [1 .. Listeners -> ActivationType]
         /\ \A k \in 1 .. Listeners :
              /\ activation'[k].height = activation[k].height
              /\ \/ activation'[k].state = activation[k].state
                 \/ activation[k].state = "ticking" /\ activation'[k].state = "cleared"
         /\ service = "lisk account" => \A k \in 1 .. Listeners : activation'[k].state # "ticking"
<1>1. /\ activation \in [1 .. Listeners -> ActivationType]
      /\ pollInternal # 0 => activation[pollInternal].state = "ticking"
      /\ TimersStop
  BY WatchTypes DEF WatchInv
<1>2. \A k \in 1 .. Listeners : activation'[k] = IF k = pollInternal THEN [activation[k] EXCEPT !.state = "cleared"]
                                                                      ELSE activation[k]
  BY <1>1 DEF StopPolling
<1>3. \A k \in 1 .. Listeners :
        /\ [activation[k] EXCEPT !.state = "cleared"] \in ActivationType
        /\ [activation[k] EXCEPT !.state = "cleared"].height = activation[k].height
        /\ [activation[k] EXCEPT !.state = "cleared"].state = "cleared"
  BY <1>1 DEF ActivationType
<1>4. activation' \in [1 .. Listeners -> ActivationType]
  BY <1>1, <1>3 DEF StopPolling
<1>5. \A k \in 1 .. Listeners : k = pollInternal => activation[k].state = "ticking"
  BY <1>1
<1>6. service = "lisk account" => \A k \in 1 .. Listeners : activation[k].state = "ticking" => k = pollInternal
  BY <1>1 DEF TimersStop, Ticking
<1> QED
  BY <1>2, <1>3, <1>4, <1>5, <1>6

(* No poll is new. *)
FewerPolls ==
  /\ polls' \in Seq(PollType)
  /\ Len(polls') <= Len(polls)
  /\ \A p \in DOMAIN polls' : \E q \in DOMAIN polls : polls'[p] = polls[q]

(* What was given stays well formed. *)
GivenStays ==
  /\ seen' \in WatchEventType /\ givenHeaders' \subseteq WatchEventType
  /\ service = "none" => seen' = None
  /\ service = "lisk headers" => seen' = None \/ seen' \in givenHeaders'

(* One poll stays at most one. *)
LEMMA AtMostOneStays == WatchTypeOK /\ FewerPolls /\ HeightInv => Len(polls') <= 1
<1> SUFFICES ASSUME WatchTypeOK, FewerPolls, HeightInv PROVE Len(polls') <= 1
  OBVIOUS
<1>1. Len(polls) \in Nat /\ Len(polls') \in Nat /\ Len(polls') <= Len(polls)
  BY WatchTypes, LenProperties DEF FewerPolls
<1>2. Len(polls) <= 1
  BY DEF HeightInv
<1> QED
  BY <1>1, <1>2

(* stop() of the producer when its last listener has gone, with that         *)
(* listener or before it.                                                    *)
LEMMA StopPollingKeeps ==
  ASSUME WatchInv, StopPolling, listener' = [listener EXCEPT !.here = FALSE],
         UNCHANGED <<service, ledger, lastEvent, overlapped>>,
         watchFaults' \in 0 .. WatchFaults, GivenStays, FewerPolls
  PROVE  WatchInv'
<1>1. WatchTypeOK /\ StartedInv
  BY DEF WatchInv
<1>2. /\ activation' \in [1 .. Listeners -> ActivationType]
      /\ \A k \in 1 .. Listeners :
           /\ activation'[k].height = activation[k].height
           /\ \/ activation'[k].state = activation[k].state
              \/ activation[k].state = "ticking" /\ activation'[k].state = "cleared"
      /\ service = "lisk account" => \A k \in 1 .. Listeners : activation'[k].state # "ticking"
  BY StopPollingClears
<1>3. started' = FALSE /\ pollInternal' = 0
  BY DEF StopPolling
<1>4. /\ listener' \in [n : 0 .. Listeners, here : BOOLEAN] /\ listener'.n = listener.n /\ listener'.here = FALSE
      /\ 0 \in 0 .. Listeners
  <2>1. listener \in [n : 0 .. Listeners, here : BOOLEAN]
    BY <1>1 DEF WatchTypeOK
  <2>2. 0 \in 0 .. Listeners
    BY <1>1, WatchTypes
  <2> QED BY <2>1, <2>2
<1>5. \A p \in DOMAIN polls : polls[p].of \in 1 .. Listeners
  BY <1>1, WatchTypes DEF PollType
<1>6. \A p \in DOMAIN polls' : activation'[polls'[p].of].state \in {"ticking", "cleared"}
  <2>1. \A p \in DOMAIN polls : activation[polls[p].of].state \in {"ticking", "cleared"}
    BY <1>1 DEF WatchTypeOK
  <2> SUFFICES ASSUME NEW p \in DOMAIN polls' PROVE activation'[polls'[p].of].state \in {"ticking", "cleared"}
    OBVIOUS
  <2>2. PICK q \in DOMAIN polls : polls'[p] = polls[q]
    BY DEF FewerPolls
  <2> QED BY <1>2, <1>5, <2>1, <2>2
<1>7. WatchTypeOK'
  <2>1. overlapped' \in BOOLEAN /\ ledger' \in [height : 1 .. WatchHeight, account : Nat, tx : BOOLEAN]
        /\ service' \in Service \cup {"none"} /\ lastEvent' \in WatchEventType
    BY <1>1 DEF WatchTypeOK
  <2> QED
    BY <2>1, <1>2, <1>3, <1>4, <1>6 DEF WatchTypeOK, PollType, ActivationType, GivenStays, FewerPolls
<1>8. StartedInv'
  BY <1>1, <1>2, <1>3, <1>4 DEF StartedInv, GivenStays
<1>9. TimersStop'
  BY <1>2, <1>3 DEF TimersStop, Ticking
<1>10. ASSUME service = "lisk headers", ~overlapped PROVE HeightInv'
  <2>1. HeightInv
    BY <1>10 DEF WatchInv
  <2>2. Len(polls') <= 1
    BY <1>1, <2>1, AtMostOneStays
  <2>3. ASSUME NEW p \in DOMAIN polls'
        PROVE  /\ polls'[p].height = activation'[polls'[p].of].height
               /\ polls'[p].answer \in {None, SomeEvent(polls'[p].height)}
    <3>1. PICK q \in DOMAIN polls : polls'[p] = polls[q]
      BY DEF FewerPolls
    <3>2. polls[q].height = activation[polls[q].of].height /\ polls[q].answer \in {None, SomeEvent(polls[q].height)}
      BY <2>1 DEF HeightInv
    <3> QED BY <1>2, <1>5, <3>1, <3>2
  <2> QED
    BY <2>2, <2>3, <1>3, <1>4 DEF HeightInv
<1> QED
  BY <1>7, <1>8, <1>9, <1>10 DEF WatchInv

(* The polls stay, or one of them goes. *)
LEMMA FewerWhenGone ==
  ASSUME WatchTypeOK, polls' = polls \/ (\E p \in 1 .. Len(polls) : polls' = RemoveAt(polls, p))
  PROVE  FewerPolls /\ (polls' # polls => Len(polls') = Len(polls) - 1)
<1>1. polls \in Seq(PollType) /\ Len(polls) \in Nat
  BY WatchTypes
<1>2. CASE polls' = polls
  BY <1>1, <1>2 DEF FewerPolls
<1>3. ASSUME NEW p \in 1 .. Len(polls), polls' = RemoveAt(polls, p)
      PROVE  FewerPolls /\ Len(polls') = Len(polls) - 1
  <2>1. /\ polls' \in Seq(PollType) /\ Len(polls') = Len(polls) - 1
        /\ \A n \in DOMAIN polls' : \E m \in DOMAIN polls : m # p /\ polls'[n] = polls[m]
    BY <1>1, <1>3, RemoveAtElements
  <2>2. Len(polls') <= Len(polls)
    BY <2>1, <1>1
  <2> QED BY <2>1, <2>2 DEF FewerPolls
<1> QED
  BY <1>2, <1>3

(* A step that leaves the producer alone, while nobody listens or with the   *)
(* headers that the listener has unchanged.                                  *)
LEMMA QuietWatch ==
  ASSUME WatchInv, FewerPolls, GivenStays, UNCHANGED <<service, started, activation, pollInternal, overlapped>>,
         ledger' = ledger, lastEvent' \in WatchEventType, watchFaults' \in 0 .. WatchFaults,
         listener' \in [n : 0 .. Listeners, here : BOOLEAN], listener'.n = listener.n,
         listener'.here => listener.here /\ (service = "lisk headers" => seen' = seen)
  PROVE  WatchInv'
<1>1. WatchTypeOK /\ StartedInv /\ TimersStop
  BY DEF WatchInv
<1>2. \A p \in DOMAIN polls' : activation[polls'[p].of].state \in {"ticking", "cleared"}
  <2>1. \A p \in DOMAIN polls : activation[polls[p].of].state \in {"ticking", "cleared"}
    BY <1>1 DEF WatchTypeOK
  <2> SUFFICES ASSUME NEW p \in DOMAIN polls' PROVE activation[polls'[p].of].state \in {"ticking", "cleared"}
    OBVIOUS
  <2>2. PICK q \in DOMAIN polls : polls'[p] = polls[q]
    BY DEF FewerPolls
  <2> QED BY <2>1, <2>2
<1>3. WatchTypeOK'
  <2>1. ledger' \in [height : 1 .. WatchHeight, account : Nat, tx : BOOLEAN]
        /\ started' \in BOOLEAN /\ overlapped' \in BOOLEAN
    BY <1>1 DEF WatchTypeOK
  <2> QED BY <1>1, <1>2, <2>1 DEF WatchTypeOK, FewerPolls, GivenStays, PollType
<1>4. StartedInv'
  BY <1>1 DEF StartedInv, GivenStays
<1>5. Ticking' = Ticking
  BY DEF Ticking
<1>6. TimersStop'
  BY <1>1, <1>5 DEF TimersStop
<1>7. ASSUME service = "lisk headers", ~overlapped PROVE HeightInv'
  <2>1. HeightInv
    BY <1>7 DEF WatchInv
  <2>2. Len(polls') <= 1
    BY <1>1, <2>1, AtMostOneStays
  <2>3. \A p \in DOMAIN polls' :
          /\ polls'[p].height = activation'[polls'[p].of].height
          /\ polls'[p].answer \in {None, SomeEvent(polls'[p].height)}
          /\ started' => activation'[polls'[p].of].state = "ticking"
    BY <2>1 DEF HeightInv, FewerPolls
  <2>4. listener'.here /\ seen'.event =>
          /\ Ticking' # {}
          /\ \A k \in Ticking' : Ticking' = {k} => seen'.data + 1 = activation'[k].height
    BY <2>1, <1>5, <1>7 DEF HeightInv
  <2> QED
    BY <2>2, <2>3, <2>4 DEF HeightInv
<1> QED
  BY <1>3, <1>4, <1>6, <1>7 DEF WatchInv

(* A listener leaves. *)
LEMMA LeaveKeeps == WatchInv /\ Leave => WatchInv'
<1> SUFFICES ASSUME WatchInv, Leave PROVE WatchInv'
  OBVIOUS
<1>1. /\ listener' = [listener EXCEPT !.here = FALSE] /\ WatchTypeOK
      /\ UNCHANGED <<service, ledger, started, activation, pollInternal, polls, lastEvent, seen, givenHeaders,
                     overlapped, watchFaults>>
  BY DEF Leave, WatchInv
<1>2. listener' \in [n : 0 .. Listeners, here : BOOLEAN] /\ listener'.n = listener.n /\ ~listener'.here
  <2>1. listener \in [n : 0 .. Listeners, here : BOOLEAN]
    BY <1>1 DEF WatchTypeOK
  <2> QED BY <1>1, <2>1
<1>3. FewerPolls
  BY <1>1, FewerWhenGone
<1>4. GivenStays
  BY <1>1 DEF GivenStays, WatchTypeOK, WatchInv, StartedInv
<1>5. lastEvent' \in WatchEventType /\ watchFaults' \in 0 .. WatchFaults
  BY <1>1 DEF WatchTypeOK
<1> QED
  BY <1>1, <1>2, <1>3, <1>4, <1>5, QuietWatch

(* The producer is stopped after its listener has left. *)
LEMMA StopUnheardKeeps == WatchInv /\ StopUnheard => WatchInv'
<1> SUFFICES ASSUME WatchInv, StopUnheard PROVE WatchInv'
  OBVIOUS
<1>1. /\ ~listener.here /\ StopPolling /\ WatchTypeOK
      /\ UNCHANGED <<service, ledger, listener, polls, lastEvent, seen, givenHeaders, overlapped, watchFaults>>
  BY DEF StopUnheard, WatchInv
<1>2. listener' = [listener EXCEPT !.here = FALSE]
  <2>1. listener \in [n : 0 .. Listeners, here : BOOLEAN]
    BY <1>1 DEF WatchTypeOK
  <2> QED BY <1>1, <2>1
<1>3. FewerPolls
  BY <1>1, FewerWhenGone
<1>4. GivenStays /\ watchFaults' \in 0 .. WatchFaults
  BY <1>1 DEF GivenStays, WatchTypeOK, WatchInv, StartedInv
<1> QED
  BY <1>1, <1>2, <1>3, <1>4, StopPollingKeeps

(* A request fails, and the stream with it. *)
LEMMA RequestFailsKeeps ==
  ASSUME WatchInv, NEW p \in 1 .. MaxPolls, RequestFails(p)
  PROVE  WatchInv'
<1>1. /\ p <= Len(polls) /\ polls' = RemoveAt(polls, p) /\ EndStream /\ WatchTypeOK
      /\ watchFaults < WatchFaults /\ watchFaults' = watchFaults + 1
      /\ UNCHANGED <<service, ledger, lastEvent, seen, givenHeaders, overlapped>>
  BY DEF RequestFails, WatchInv
<1>2. FewerPolls
  <2>1. p \in 1 .. Len(polls)
    BY <1>1, WatchTypes, WatchersAssumption
  <2> QED BY <1>1, <2>1, FewerWhenGone
<1>3. GivenStays
  BY <1>1 DEF GivenStays, WatchTypeOK, WatchInv, StartedInv
<1>4. watchFaults' \in 0 .. WatchFaults
  <2>1. watchFaults \in 0 .. WatchFaults /\ WatchFaults \in Nat
    BY <1>1, WatchersAssumption DEF WatchTypeOK
  <2> QED BY <1>1, <2>1
<1>5. CASE listener.here
  BY <1>1, <1>2, <1>3, <1>4, <1>5, StopPollingKeeps DEF EndStream
<1>6. CASE ~listener.here
  <2>1. UNCHANGED <<listener, started, activation, pollInternal>>
    BY <1>1, <1>6 DEF EndStream
  <2>2. /\ lastEvent' \in WatchEventType /\ listener' \in [n : 0 .. Listeners, here : BOOLEAN]
        /\ listener'.n = listener.n /\ ~listener'.here
    BY <1>1, <1>6, <2>1 DEF WatchTypeOK
  <2> QED BY <1>1, <1>2, <1>3, <1>4, <2>1, <2>2, QuietWatch
<1> QED
  BY <1>5, <1>6

(* The start that a listener makes is the first of its number. *)
LEMMA FreshStart ==
  ASSUME WatchInv, listener.n < Listeners
  PROVE  /\ listener.n + 1 \in 1 .. Listeners
         /\ activation[listener.n + 1].state = "none"
         /\ \A p \in DOMAIN polls : polls[p].of # listener.n + 1
<1>1. WatchTypeOK /\ StartedInv
  BY DEF WatchInv
<1>2. listener.n \in 0 .. Listeners /\ Listeners \in Nat
  BY <1>1, WatchTypes
<1>3. listener.n + 1 \in 1 .. Listeners /\ ~(listener.n + 1 <= listener.n)
  BY <1>2
<1>4. activation[listener.n + 1].state = "none"
  BY <1>1, <1>3 DEF StartedInv
<1>5. \A p \in DOMAIN polls : activation[polls[p].of].state \in {"ticking", "cleared"}
  BY <1>1 DEF WatchTypeOK
<1> QED
  BY <1>3, <1>4, <1>5

(* A listener comes to a producer that runs. *)
LEMMA ListenToRunning ==
  ASSUME WatchInv, ListenWatch, started
  PROVE  WatchInv'
<1>1. /\ WatchTypeOK /\ StartedInv /\ TimersStop
      /\ listener.n < Listeners /\ listener' = [n |-> listener.n + 1, here |-> TRUE]
      /\ seen' = None /\ givenHeaders' = {} /\ started' = TRUE
      /\ UNCHANGED <<activation, pollInternal, polls, overlapped, service, ledger, lastEvent, watchFaults>>
  BY DEF ListenWatch, WatchInv
<1>2. listener.n \in 0 .. Listeners /\ Listeners \in Nat /\ None \in WatchEventType
  BY <1>1, WatchTypes
<1>3. listener' \in [n : 0 .. Listeners, here : BOOLEAN] /\ listener'.n = listener.n + 1
  BY <1>1, <1>2
<1>4. WatchTypeOK'
  BY <1>1, <1>2, <1>3 DEF WatchTypeOK
<1>5. StartedInv'
  <2>1. service # "none"
    BY <1>1 DEF StartedInv
  <2>2. \A k \in 1 .. Listeners : k <= listener.n => k <= listener'.n
    BY <1>2, <1>3
  <2> QED BY <1>1, <2>1, <2>2 DEF StartedInv
<1>6. Ticking' = Ticking
  BY <1>1 DEF Ticking
<1>7. TimersStop'
  BY <1>1, <1>6 DEF TimersStop
<1>8. ASSUME service = "lisk headers", ~overlapped PROVE HeightInv'
  <2>1. HeightInv
    BY <1>8 DEF WatchInv
  <2> QED BY <2>1, <1>1 DEF HeightInv, None
<1> QED
  BY <1>1, <1>4, <1>5, <1>7, <1>8 DEF WatchInv

(* A listener starts the producer. *)
LEMMA ListenStarts ==
  ASSUME WatchInv, ListenWatch, ~started
  PROVE  WatchInv'
<1> DEFINE k == listener.n + 1
<1>1. /\ WatchTypeOK /\ StartedInv /\ TimersStop /\ service # "none"
      /\ listener.n < Listeners /\ listener' = [n |-> k, here |-> TRUE]
      /\ seen' = None /\ givenHeaders' = {} /\ started' = TRUE /\ StartPolling(k)
      /\ UNCHANGED <<service, ledger, lastEvent, watchFaults>>
  BY DEF ListenWatch, WatchInv
<1>2. /\ listener.n \in 0 .. Listeners /\ Listeners \in Nat /\ None \in WatchEventType
      /\ activation \in [1 .. Listeners -> ActivationType]
      /\ pollInternal \in 0 .. Listeners
      /\ pollInternal # 0 => activation[pollInternal].state = "ticking"
      /\ polls \in Seq(PollType) /\ Len(polls) \in Nat /\ DOMAIN polls = 1 .. Len(polls)
      /\ \A p \in DOMAIN polls : polls[p] \in PollType
      /\ overlapped \in BOOLEAN
  BY <1>1, WatchTypes
<1>3. /\ k \in 1 .. Listeners /\ activation[k].state = "none"
      /\ \A p \in DOMAIN polls : polls[p].of # k
  BY <1>1, FreshStart
<1>4. listener' \in [n : 0 .. Listeners, here : BOOLEAN] /\ listener'.n = k /\ k \in Nat /\ k # 0
  BY <1>1, <1>2, <1>3
<1>5. service \in Service
  BY <1>1 DEF WatchTypeOK
<1>6. service \in Accounts => Poll(k, 0)
  BY <1>1, <1>5 DEF StartPolling, Poll, Service, Accounts
<1>7. service \notin Accounts => polls' = polls
  BY <1>1, <1>5 DEF StartPolling, Service, Accounts
<1>8. /\ activation' \in [1 .. Listeners -> ActivationType]
      /\ \A i \in 1 .. Listeners \ {k} : activation'[i] = activation[i]
      /\ service # "lisk headers" => activation'[k].state = "ticking"
      /\ service = "lisk headers" => activation'[k].state = "height"
  <2>1. ledger.height \in Nat
    <3>1. ledger.height \in 1 .. WatchHeight /\ WatchHeight \in Nat
      BY <1>1, WatchersAssumption DEF WatchTypeOK
    <3> QED BY <3>1
  <2>2. activation[k] \in ActivationType
    BY <1>2, <1>3
  <2>3. CASE service # "lisk headers"
    <3>1. activation' = [activation EXCEPT ![k].state = "ticking"]
      BY <1>1, <1>5, <2>3 DEF StartPolling, Service, Accounts
    <3>2. [activation[k] EXCEPT !.state = "ticking"] \in ActivationType
      BY <2>2 DEF ActivationType
    <3> QED BY <1>2, <1>3, <2>2, <2>3, <3>1, <3>2 DEF ActivationType
  <2>4. CASE service = "lisk headers"
    <3>1. activation' = [activation EXCEPT ![k] = [state |-> "height", height |-> ledger.height]]
      BY <1>1, <2>4 DEF StartPolling, Accounts
    <3>2. [state |-> "height", height |-> ledger.height] \in ActivationType
      BY <2>1 DEF ActivationType
    <3> QED BY <1>2, <1>3, <2>4, <3>1, <3>2
  <2> QED BY <2>3, <2>4
<1>9. /\ pollInternal' = (IF service = "lisk account" THEN k ELSE pollInternal)
      /\ overlapped' \in BOOLEAN
      /\ service = "lisk headers" => (~overlapped' => ~overlapped /\ polls = <<>>)
  <2>1. pollInternal' = (IF service = "lisk account" THEN k ELSE pollInternal)
    BY <1>1, <1>5 DEF StartPolling, Service, Accounts
  <2>2. overlapped' = (overlapped \/ polls # <<>>) \/ overlapped' = overlapped
    BY <1>1, <1>5 DEF StartPolling, Service, Accounts, Poll
  <2>3. service = "lisk headers" => overlapped' = (overlapped \/ polls # <<>>)
    BY <1>1, <1>5 DEF StartPolling, Service, Accounts
  <2>4. overlapped' \in BOOLEAN
    BY <1>2, <2>2, Zenon
  <2>5. service = "lisk headers" => (~overlapped' => ~overlapped /\ polls = <<>>)
    BY <1>2, <2>3, Zenon
  <2> QED BY <2>1, <2>4, <2>5
<1>10. /\ polls' \in Seq(PollType)
       /\ \A p \in DOMAIN polls' : (p \in DOMAIN polls /\ polls'[p] = polls[p])
                                     \/ (service \in Accounts /\ polls'[p].of = k)
  <2>1. CASE service \in Accounts
    <3>1. /\ polls' \in Seq(PollType)
          /\ \A p \in DOMAIN polls : polls'[p] = polls[p]
          /\ \A p \in DOMAIN polls' : p \in DOMAIN polls \/ (p = Len(polls) + 1 /\ polls'[p] = Asked(k, 0))
      BY <1>1, <1>3, <1>6, <2>1, WatchPoll
    <3>2. Asked(k, 0).of = k
      BY DEF Asked
    <3> QED BY <2>1, <3>1, <3>2
  <2>2. CASE service \notin Accounts
    BY <1>2, <1>7, <2>2
  <2> QED BY <2>1, <2>2
<1>11. \A p \in DOMAIN polls' : activation'[polls'[p].of].state \in {"ticking", "cleared"}
  <2>1. \A p \in DOMAIN polls : activation[polls[p].of].state \in {"ticking", "cleared"}
    BY <1>1 DEF WatchTypeOK
  <2>2. \A p \in DOMAIN polls : polls[p].of \in 1 .. Listeners
    BY <1>2 DEF PollType
  <2>3. service \in Accounts => activation'[k].state = "ticking"
    BY <1>8 DEF Accounts
  <2> QED BY <1>3, <1>8, <1>10, <2>1, <2>2, <2>3
<1>12. pollInternal' \in 0 .. Listeners /\ (pollInternal' # 0 => activation'[pollInternal'].state = "ticking")
  <2>1. CASE service = "lisk account"
    <3>1. pollInternal' = k /\ activation'[k].state = "ticking"
      BY <1>8, <1>9, <2>1
    <3>2. k \in 0 .. Listeners
      BY <1>2, <1>3
    <3> HIDE DEF k
    <3> QED BY <3>1, <3>2
  <2>2. CASE service # "lisk account"
    <3>1. pollInternal # 0 => pollInternal \in 1 .. Listeners \ {k}
      BY <1>2, <1>3, <1>4
    <3> QED BY <1>2, <1>8, <1>9, <2>2, <3>1
  <2> QED BY <2>1, <2>2
<1>13. WatchTypeOK'
  <2>1. /\ service' \in Service \cup {"none"} /\ ledger' \in [height : 1 .. WatchHeight, account : Nat, tx : BOOLEAN]
        /\ watchFaults' \in 0 .. WatchFaults /\ lastEvent' \in WatchEventType
    BY <1>1 DEF WatchTypeOK
  <2> QED BY <1>1, <1>2, <1>4, <1>8, <1>9, <1>10, <1>11, <1>12, <2>1 DEF WatchTypeOK, ActivationType, PollType
<1>14. StartedInv'
  <2>1. \A i \in 1 .. Listeners : i <= listener.n => i <= k
    BY <1>2
  <2>2. \A i \in 1 .. Listeners : activation'[i].state # "none" => i <= k
    <3>1. \A i \in 1 .. Listeners : activation[i].state # "none" => i <= listener.n
      BY <1>1 DEF StartedInv
    <3>2. k <= k
      BY <1>4
    <3> HIDE DEF k
    <3> QED BY <1>8, <2>1, <3>1, <3>2
  <2>3. \A i \in 1 .. Listeners : activation'[i].state = "height" => service = "lisk headers"
    BY <1>1, <1>8 DEF StartedInv
  <2> QED BY <1>1, <1>4, <2>2, <2>3 DEF StartedInv
<1>15. TimersStop'
  <2> SUFFICES ASSUME service = "lisk account" PROVE Ticking' = {pollInternal'}
    BY <1>1 DEF TimersStop
  <2>1. Ticking = {} /\ pollInternal' = k
    BY <1>1, <1>9 DEF TimersStop
  <2>2. \A i \in 1 .. Listeners : activation'[i].state = "ticking" <=> i = k
    BY <1>3, <1>8, <2>1 DEF Ticking
  <2> QED BY <1>3, <2>1, <2>2 DEF Ticking
<1>16. ASSUME service = "lisk headers", ~overlapped' PROVE HeightInv'
  <2>1. polls' = <<>>
    BY <1>7, <1>9, <1>16 DEF Accounts
  <2>2. Len(polls') <= 1 /\ DOMAIN polls' = {} /\ ~seen'.event
    BY <1>1, <2>1 DEF None
  <2> QED BY <2>2 DEF HeightInv
<1> QED
  BY <1>1, <1>13, <1>14, <1>15, <1>16 DEF WatchInv

(* height() is answered: the timer starts, and the first poll. *)
LEMMA HeightArrivesKeeps ==
  ASSUME WatchInv, NEW k \in 1 .. Listeners, HeightArrives(k)
  PROVE  WatchInv'
<1>1. /\ WatchTypeOK /\ StartedInv /\ TimersStop /\ activation[k].state = "height" /\ pollInternal' = k
      /\ UNCHANGED <<service, ledger, listener, started, lastEvent, seen, givenHeaders, watchFaults>>
  BY DEF HeightArrives, WatchInv
<1>2. PICK h \in activation[k].height .. ledger.height :
        activation' = [activation EXCEPT ![k] = [state |-> "ticking", height |-> h]] /\ Poll(k, h)
  BY DEF HeightArrives
<1>3. /\ Listeners \in Nat /\ activation \in [1 .. Listeners -> ActivationType]
      /\ polls \in Seq(PollType) /\ Len(polls) \in Nat /\ DOMAIN polls = 1 .. Len(polls)
      /\ \A p \in DOMAIN polls : polls[p] \in PollType
  BY <1>1, WatchTypes
<1>4. service = "lisk headers" /\ k <= listener.n
  BY <1>1 DEF StartedInv
<1>5. h \in Nat
  <2>1. activation[k].height \in Nat
    BY <1>3 DEF ActivationType
  <2>2. ledger.height \in 1 .. WatchHeight /\ WatchHeight \in Nat
    BY <1>1, WatchersAssumption DEF WatchTypeOK
  <2> QED BY <2>1, <2>2
<1>6. /\ activation' \in [1 .. Listeners -> ActivationType]
      /\ \A i \in 1 .. Listeners \ {k} : activation'[i] = activation[i]
      /\ activation'[k].state = "ticking" /\ activation'[k].height = h
  <2>1. [state |-> "ticking", height |-> h] \in ActivationType
    BY <1>5 DEF ActivationType
  <2> QED BY <1>2, <1>3, <2>1
<1>7. /\ polls' \in Seq(PollType) /\ overlapped' \in BOOLEAN
      /\ Len(polls') = Len(polls) + 1
      /\ \A p \in DOMAIN polls : polls'[p] = polls[p]
      /\ \A p \in DOMAIN polls' : p \in DOMAIN polls \/ (p = Len(polls) + 1 /\ polls'[p] = Asked(k, h))
      /\ ~overlapped' => ~overlapped /\ polls = <<>>
  BY <1>1, <1>2, <1>5, WatchPoll
<1>8. Asked(k, h).of = k /\ Asked(k, h).height = h /\ Asked(k, h).answer = None
  BY DEF Asked
<1>9. \A p \in DOMAIN polls' : activation'[polls'[p].of].state \in {"ticking", "cleared"}
  <2>1. \A p \in DOMAIN polls : activation[polls[p].of].state \in {"ticking", "cleared"} /\ polls[p].of \in 1 .. Listeners
    BY <1>1, <1>3 DEF WatchTypeOK, PollType
  <2> QED BY <1>6, <1>7, <1>8, <2>1
<1>10. pollInternal' \in 0 .. Listeners /\ (pollInternal' # 0 => activation'[pollInternal'].state = "ticking")
  BY <1>1, <1>3, <1>6
<1>11. WatchTypeOK'
  <2>1. /\ service' \in Service \cup {"none"} /\ ledger' \in [height : 1 .. WatchHeight, account : Nat, tx : BOOLEAN]
        /\ listener' \in [n : 0 .. Listeners, here : BOOLEAN] /\ started' \in BOOLEAN
        /\ watchFaults' \in 0 .. WatchFaults /\ lastEvent' \in WatchEventType
        /\ seen' \in WatchEventType /\ givenHeaders' \subseteq WatchEventType
        /\ service' = "lisk headers" => seen' = None \/ seen' \in givenHeaders'
    BY <1>1 DEF WatchTypeOK
  <2> QED BY <1>6, <1>7, <1>9, <1>10, <2>1 DEF WatchTypeOK, ActivationType, PollType
<1>12. StartedInv'
  BY <1>1, <1>4, <1>6 DEF StartedInv
<1>13. TimersStop'
  BY <1>1, <1>4 DEF TimersStop
<1>14. ASSUME ~overlapped' PROVE HeightInv'
  <2>1. HeightInv /\ polls = <<>>
    BY <1>4, <1>7, <1>14 DEF WatchInv
  <2>2. Len(polls) = 0 /\ DOMAIN polls = {}
    BY <2>1
  <2>3. Len(polls') <= 1 /\ \A p \in DOMAIN polls' : polls'[p] = Asked(k, h)
    BY <1>7, <2>2
  <2>4. \A p \in DOMAIN polls' :
          /\ polls'[p].height = activation'[polls'[p].of].height
          /\ polls'[p].answer \in {None, SomeEvent(polls'[p].height)}
          /\ activation'[polls'[p].of].state = "ticking"
    BY <1>6, <1>8, <2>3
  <2>5. Ticking' = Ticking \cup {k} /\ k \notin Ticking
    BY <1>1, <1>6 DEF Ticking
  <2>6. listener'.here /\ seen'.event =>
          /\ Ticking' # {}
          /\ \A i \in Ticking' : Ticking' = {i} => seen'.data + 1 = activation'[i].height
    BY <1>1, <2>1, <2>5 DEF HeightInv
  <2> QED BY <2>3, <2>4, <2>6 DEF HeightInv
<1> QED
  BY <1>11, <1>12, <1>13, <1>14 DEF WatchInv

(* height() fails, and its start with it. *)
LEMMA HeightFailsKeeps ==
  ASSUME WatchInv, NEW k \in 1 .. Listeners, HeightFails(k)
  PROVE  WatchInv'
<1>1. /\ WatchTypeOK /\ StartedInv /\ TimersStop /\ activation[k].state = "height"
      /\ watchFaults < WatchFaults /\ watchFaults' = watchFaults + 1
      /\ activation' = [activation EXCEPT ![k].state = "failed"]
      /\ UNCHANGED <<service, ledger, listener, started, pollInternal, polls, lastEvent, seen, givenHeaders,
                     overlapped>>
  BY DEF HeightFails, WatchInv
<1>2. /\ Listeners \in Nat /\ activation \in [1 .. Listeners -> ActivationType]
      /\ \A p \in DOMAIN polls : polls[p].of \in 1 .. Listeners
      /\ pollInternal \in 0 .. Listeners
      /\ pollInternal # 0 => activation[pollInternal].state = "ticking"
  BY <1>1, WatchTypes DEF PollType
<1>3. watchFaults' \in 0 .. WatchFaults
  <2>1. watchFaults \in 0 .. WatchFaults /\ WatchFaults \in Nat
    BY <1>1, WatchersAssumption DEF WatchTypeOK
  <2> QED BY <1>1, <2>1
<1>4. /\ activation' \in [1 .. Listeners -> ActivationType]
      /\ \A i \in 1 .. Listeners \ {k} : activation'[i] = activation[i]
      /\ activation'[k].state = "failed"
  <2>1. activation[k] \in ActivationType
    BY <1>2
  <2>2. [activation[k] EXCEPT !.state = "failed"] \in ActivationType
    BY <2>1 DEF ActivationType
  <2> QED BY <1>1, <1>2, <2>1, <2>2 DEF ActivationType
<1>5. \A p \in DOMAIN polls : polls[p].of \in 1 .. Listeners \ {k}
  BY <1>1, <1>2 DEF WatchTypeOK
<1>6. pollInternal # 0 => pollInternal \in 1 .. Listeners \ {k}
  BY <1>1, <1>2
<1>7. Ticking' = Ticking /\ k \notin Ticking
  BY <1>1, <1>4 DEF Ticking
<1>8. WatchTypeOK'
  <2>1. \A p \in DOMAIN polls' : activation'[polls'[p].of].state \in {"ticking", "cleared"}
    BY <1>1, <1>4, <1>5 DEF WatchTypeOK
  <2>2. pollInternal' # 0 => activation'[pollInternal'].state = "ticking"
    BY <1>1, <1>2, <1>4, <1>6
  <2>3. started' \in BOOLEAN /\ overlapped' \in BOOLEAN
    BY <1>1 DEF WatchTypeOK
  <2> QED BY <1>1, <1>3, <1>4, <2>1, <2>2, <2>3 DEF WatchTypeOK, ActivationType
<1>9. StartedInv'
  BY <1>1, <1>4 DEF StartedInv
<1>10. TimersStop'
  BY <1>1, <1>7 DEF TimersStop
<1>11. ASSUME service = "lisk headers", ~overlapped PROVE HeightInv'
  <2>1. HeightInv
    BY <1>11 DEF WatchInv
  <2>2. \A i \in Ticking : activation'[i] = activation[i]
    BY <1>4, <1>7 DEF Ticking
  <2> QED BY <1>1, <1>4, <1>5, <1>7, <2>1, <2>2 DEF HeightInv
<1> QED
  BY <1>1, <1>8, <1>9, <1>10, <1>11 DEF WatchInv

(* A timer fires. *)
LEMMA TimerFiresKeeps ==
  ASSUME WatchInv, NEW k \in 1 .. Listeners, TimerFires(k)
  PROVE  WatchInv'
<1> DEFINE h == activation[k].height
<1>1. /\ WatchTypeOK /\ StartedInv /\ TimersStop /\ activation[k].state = "ticking" /\ Poll(k, h)
      /\ UNCHANGED <<service, ledger, listener, started, activation, pollInternal, lastEvent, seen, givenHeaders,
                     watchFaults>>
  BY DEF TimerFires, WatchInv
<1>2. /\ activation \in [1 .. Listeners -> ActivationType]
      /\ polls \in Seq(PollType) /\ Len(polls) \in Nat /\ DOMAIN polls = 1 .. Len(polls)
  BY <1>1, WatchTypes
<1>3. h \in Nat
  BY <1>2 DEF ActivationType
<1> HIDE DEF h
<1>4. /\ polls' \in Seq(PollType) /\ overlapped' \in BOOLEAN
      /\ Len(polls') = Len(polls) + 1
      /\ \A p \in DOMAIN polls : polls'[p] = polls[p]
      /\ \A p \in DOMAIN polls' : p \in DOMAIN polls \/ (p = Len(polls) + 1 /\ polls'[p] = Asked(k, h))
      /\ ~overlapped' => ~overlapped /\ polls = <<>>
  BY <1>1, <1>3, WatchPoll
<1>5. Asked(k, h).of = k /\ Asked(k, h).height = h /\ Asked(k, h).answer = None
  BY DEF Asked
<1>6. Ticking' = Ticking
  BY <1>1 DEF Ticking
<1>7. WatchTypeOK'
  <2>1. \A p \in DOMAIN polls' : activation'[polls'[p].of].state \in {"ticking", "cleared"}
    BY <1>1, <1>4, <1>5 DEF WatchTypeOK
  <2>2. /\ service' \in Service \cup {"none"} /\ ledger' \in [height : 1 .. WatchHeight, account : Nat, tx : BOOLEAN]
        /\ listener' \in [n : 0 .. Listeners, here : BOOLEAN] /\ started' \in BOOLEAN
        /\ watchFaults' \in 0 .. WatchFaults /\ lastEvent' \in WatchEventType
    BY <1>1 DEF WatchTypeOK
  <2> QED BY <1>1, <1>4, <2>1, <2>2 DEF WatchTypeOK, PollType
<1>8. StartedInv'
  BY <1>1 DEF StartedInv
<1>9. TimersStop'
  BY <1>1, <1>6 DEF TimersStop
<1>10. ASSUME service = "lisk headers", ~overlapped' PROVE HeightInv'
  <2>1. HeightInv /\ polls = <<>>
    BY <1>4, <1>10 DEF WatchInv
  <2>2. Len(polls) = 0 /\ DOMAIN polls = {}
    BY <2>1
  <2>3. Len(polls') <= 1 /\ \A p \in DOMAIN polls' : polls'[p] = Asked(k, h)
    BY <1>4, <2>2
  <2>4. \A p \in DOMAIN polls' :
          /\ polls'[p].height = activation'[polls'[p].of].height
          /\ polls'[p].answer \in {None, SomeEvent(polls'[p].height)}
          /\ activation'[polls'[p].of].state = "ticking"
    BY <1>1, <1>5, <2>3 DEF h
  <2> QED BY <1>1, <1>6, <2>1, <2>3, <2>4 DEF HeightInv
<1> QED
  BY <1>1, <1>7, <1>8, <1>9, <1>10 DEF WatchInv

(* The node answers with what it knows. *)
LEMMA NodeAnswersKeeps ==
  ASSUME WatchInv, NEW p \in 1 .. MaxPolls, NodeAnswers(p)
  PROVE  WatchInv'
<1> DEFINE known == NodeKnows(polls[p].height)
<1>1. /\ WatchTypeOK /\ StartedInv /\ TimersStop /\ p <= Len(polls)
      /\ polls' = [polls EXCEPT ![p].step = "answered", ![p].answer = known]
      /\ UNCHANGED <<service, ledger, listener, started, activation, pollInternal, lastEvent, seen, givenHeaders,
                     overlapped, watchFaults>>
  BY DEF NodeAnswers, WatchInv
<1>2. /\ polls \in Seq(PollType) /\ Len(polls) \in Nat /\ DOMAIN polls = 1 .. Len(polls)
      /\ \A q \in DOMAIN polls : polls[q] \in PollType
      /\ None \in WatchEventType
  BY <1>1, WatchTypes
<1>3. p \in DOMAIN polls
  BY <1>1, <1>2, WatchersAssumption
<1>4. polls[p] \in PollType /\ polls[p].height \in Nat
  BY <1>2, <1>3 DEF PollType
<1>5. service # "none"
  <2>1. polls[p].of \in 1 .. Listeners /\ activation[polls[p].of].state \in {"ticking", "cleared"}
    BY <1>1, <1>3, <1>4 DEF WatchTypeOK, PollType
  <2> QED BY <1>1, <2>1 DEF StartedInv
<1>6. known \in WatchEventType /\ (service = "lisk headers" => known \in {None, SomeEvent(polls[p].height)})
  <2>1. ledger.account \in Nat
    BY <1>1 DEF WatchTypeOK
  <2>2. service \in Service
    BY <1>1, <1>5 DEF WatchTypeOK
  <2>3. \A d \in Nat : SomeEvent(d) \in WatchEventType
    BY DEF SomeEvent, WatchEventType
  <2> QED BY <1>2, <1>4, <2>1, <2>2, <2>3 DEF NodeKnows, Service, Accounts
<1> HIDE DEF known
<1>7. /\ polls' \in Seq(PollType) /\ Len(polls') = Len(polls) /\ DOMAIN polls' = DOMAIN polls
      /\ \A q \in DOMAIN polls :
           /\ polls'[q].of = polls[q].of /\ polls'[q].height = polls[q].height
           /\ polls'[q].answer = polls[q].answer \/ (q = p /\ polls'[q].answer = known)
  <2>1. /\ [polls[p] EXCEPT !.step = "answered", !.answer = known] \in PollType
        /\ [polls[p] EXCEPT !.step = "answered", !.answer = known].of = polls[p].of
        /\ [polls[p] EXCEPT !.step = "answered", !.answer = known].height = polls[p].height
        /\ [polls[p] EXCEPT !.step = "answered", !.answer = known].answer = known
    BY <1>4, <1>6 DEF PollType
  <2>2. polls' = [polls EXCEPT ![p] = [polls[p] EXCEPT !.step = "answered", !.answer = known]]
    BY <1>1, <1>3
  <2>3. polls' \in Seq(PollType) /\ Len(polls') = Len(polls) /\ DOMAIN polls' = DOMAIN polls
    BY <1>2, <1>3, <2>1, <2>2, ExceptSeq
  <2> QED BY <1>2, <1>3, <2>1, <2>2, <2>3
<1>8. Ticking' = Ticking
  BY <1>1 DEF Ticking
<1>9. WatchTypeOK'
  <2>1. \A q \in DOMAIN polls' : activation'[polls'[q].of].state \in {"ticking", "cleared"}
    BY <1>1, <1>7 DEF WatchTypeOK
  <2>2. started' \in BOOLEAN /\ overlapped' \in BOOLEAN
    BY <1>1 DEF WatchTypeOK
  <2> QED BY <1>1, <1>7, <2>1, <2>2 DEF WatchTypeOK, PollType
<1>10. StartedInv'
  BY <1>1 DEF StartedInv
<1>11. TimersStop'
  BY <1>1, <1>8 DEF TimersStop
<1>12. ASSUME service = "lisk headers", ~overlapped PROVE HeightInv'
  <2>1. HeightInv
    BY <1>12 DEF WatchInv
  <2>2. Len(polls') <= 1
    BY <1>7, <2>1 DEF HeightInv
  <2>3. \A q \in DOMAIN polls' :
          /\ polls'[q].height = activation'[polls'[q].of].height
          /\ polls'[q].answer \in {None, SomeEvent(polls'[q].height)}
          /\ started' => activation'[polls'[q].of].state = "ticking"
    <3> SUFFICES ASSUME NEW q \in DOMAIN polls'
                 PROVE  /\ polls'[q].height = activation'[polls'[q].of].height
                        /\ polls'[q].answer \in {None, SomeEvent(polls'[q].height)}
                        /\ started' => activation'[polls'[q].of].state = "ticking"
      OBVIOUS
    <3>1. /\ q \in DOMAIN polls /\ polls'[q].of = polls[q].of /\ polls'[q].height = polls[q].height
          /\ polls'[q].answer = polls[q].answer \/ (q = p /\ polls'[q].answer = known)
      BY <1>7
    <3>2. /\ polls[q].height = activation[polls[q].of].height
          /\ polls[q].answer \in {None, SomeEvent(polls[q].height)}
          /\ started => activation[polls[q].of].state = "ticking"
      BY <2>1, <3>1 DEF HeightInv
    <3>3. q = p => known \in {None, SomeEvent(polls[q].height)}
      BY <1>6, <1>12
    <3> QED BY <1>1, <3>1, <3>2, <3>3
  <2> QED BY <1>1, <1>8, <2>1, <2>2, <2>3 DEF HeightInv
<1> QED
  BY <1>1, <1>9, <1>10, <1>11, <1>12 DEF WatchInv

(* An event that is given is well formed. *)
LEMMA EventGiven ==
  ASSUME WatchInv, NEW e \in WatchEventType, service # "none",
         GiveEvent(e) \/ UNCHANGED <<seen, givenHeaders>>
  PROVE  GivenStays /\ (listener.here /\ GiveEvent(e) => seen' = e) /\ (~listener.here => seen' = seen)
<1>1. /\ seen \in WatchEventType /\ givenHeaders \subseteq WatchEventType
      /\ service = "lisk headers" => seen = None \/ seen \in givenHeaders
  BY DEF WatchInv, WatchTypeOK
<1> QED
  BY <1>1 DEF GivenStays, GiveEvent

(* A header arrives and its start goes on to the next height. *)
PolledHeader(p, e, k) ==
  /\ polls' = RemoveAt(polls, p) /\ service = "lisk headers"
  /\ e = polls[p].answer /\ k = polls[p].of
  /\ e # None /\ GiveEvent(e) /\ lastEvent' = e
  /\ activation' = [activation EXCEPT ![k].height = @ + 1]
  /\ UNCHANGED <<listener, started, pollInternal, service, ledger, overlapped, watchFaults>>

LEMMA PolledHeaderArrives ==
  ASSUME WatchInv, NEW p \in DOMAIN polls, NEW e, NEW k, PolledHeader(p, e, k)
  PROVE  WatchInv' /\ (~overlapped /\ listener.here => seen'.data = activation[k].height /\ k \in Ticking)
<1>1. WatchTypeOK /\ StartedInv /\ TimersStop
  BY DEF WatchInv
<1>0. /\ polls' = RemoveAt(polls, p) /\ service = "lisk headers" /\ e = polls[p].answer /\ k = polls[p].of
      /\ e # None /\ GiveEvent(e) /\ lastEvent' = e
      /\ activation' = [activation EXCEPT ![k].height = @ + 1]
      /\ UNCHANGED <<listener, started, pollInternal, service, ledger, overlapped, watchFaults>>
  BY DEF PolledHeader
<1>2. /\ polls \in Seq(PollType) /\ Len(polls) \in Nat /\ DOMAIN polls = 1 .. Len(polls)
      /\ polls[p] \in PollType /\ activation \in [1 .. Listeners -> ActivationType]
  BY <1>1, WatchTypes
<1>3. e \in WatchEventType /\ k \in 1 .. Listeners
  BY <1>0, <1>2 DEF PollType
<1>4. FewerPolls /\ Len(polls') = Len(polls) - 1
  <2>1. p \in 1 .. Len(polls)
    BY <1>2
  <2>2. /\ polls' \in Seq(PollType) /\ Len(polls') = Len(polls) - 1
    BY <1>0, <1>2, <2>1, RemoveAtElements
  <2> QED BY <1>0, <1>1, <1>2, <2>1, <2>2, FewerWhenGone
<1>5. GivenStays /\ (listener.here => seen' = e) /\ (~listener.here => seen' = seen)
  BY <1>0, <1>3, EventGiven
<1>6. /\ activation' \in [1 .. Listeners -> ActivationType]
      /\ \A i \in 1 .. Listeners : activation'[i].state = activation[i].state
      /\ activation'[k].height = activation[k].height + 1
  <2>1. activation[k] \in ActivationType /\ activation[k].height \in Nat
    BY <1>2, <1>3 DEF ActivationType
  <2>2. /\ [activation[k] EXCEPT !.height = @ + 1] \in ActivationType
        /\ [activation[k] EXCEPT !.height = @ + 1].state = activation[k].state
        /\ [activation[k] EXCEPT !.height = @ + 1].height = activation[k].height + 1
    BY <2>1 DEF ActivationType
  <2>3. activation' = [activation EXCEPT ![k] = [activation[k] EXCEPT !.height = @ + 1]]
    BY <1>0, <1>2, <1>3
  <2> QED BY <1>2, <1>3, <2>2, <2>3
<1>7. Ticking' = Ticking
  BY <1>6 DEF Ticking
<1>8. WatchTypeOK'
  <2>1. \A q \in DOMAIN polls' : activation'[polls'[q].of].state \in {"ticking", "cleared"}
    <3> SUFFICES ASSUME NEW q \in DOMAIN polls' PROVE activation'[polls'[q].of].state \in {"ticking", "cleared"}
      OBVIOUS
    <3>1. PICK r \in DOMAIN polls : polls'[q] = polls[r]
      BY <1>4 DEF FewerPolls
    <3>2. polls[r].of \in 1 .. Listeners /\ activation[polls[r].of].state \in {"ticking", "cleared"}
      BY <1>1, WatchTypes DEF WatchTypeOK, PollType
    <3> QED BY <3>1, <3>2, <1>6
  <2>2. pollInternal' # 0 => activation'[pollInternal'].state = "ticking"
    <3>1. pollInternal # 0 => pollInternal \in 1 .. Listeners /\ activation[pollInternal].state = "ticking"
      <4>1. pollInternal \in 0 .. Listeners /\ Listeners \in Nat
        BY <1>1, WatchTypes
      <4>2. pollInternal # 0 => pollInternal \in 1 .. Listeners
        BY <4>1
      <4> QED BY <1>1, <4>2, WatchTypes
    <3> QED BY <3>1, <1>0, <1>6
  <2>3. /\ started' \in BOOLEAN /\ overlapped' \in BOOLEAN /\ lastEvent' \in WatchEventType
        /\ ledger' \in [height : 1 .. WatchHeight, account : Nat, tx : BOOLEAN]
        /\ listener' \in [n : 0 .. Listeners, here : BOOLEAN]
        /\ pollInternal' \in 0 .. Listeners /\ watchFaults' \in 0 .. WatchFaults
        /\ service' \in Service \cup {"none"}
    BY <1>0, <1>1, <1>3 DEF WatchTypeOK
  <2> QED BY <1>0, <1>4, <1>5, <1>6, <2>1, <2>2, <2>3
        DEF WatchTypeOK, PollType, ActivationType, GivenStays, FewerPolls
<1>9. StartedInv'
  BY <1>0, <1>1, <1>6 DEF StartedInv
<1>10. TimersStop'
  BY <1>0, <1>1, <1>7 DEF TimersStop
<1>11. ASSUME ~overlapped
       PROVE  HeightInv' /\ (listener.here => seen'.data = activation[k].height /\ k \in Ticking)
  <2>1. HeightInv
    BY <1>0, <1>11 DEF WatchInv
  <2>2. e = SomeEvent(activation[k].height) /\ (started => activation[k].state = "ticking")
    BY <1>0, <2>1 DEF HeightInv
  <2>3. e.data = activation[k].height
    BY <2>2 DEF SomeEvent
  <2>4. Len(polls') = 0 /\ DOMAIN polls' = {}
    <3>1. Len(polls) <= 1
      BY <2>1 DEF HeightInv
    <3>2. Len(polls) = 1
      BY <1>2, <3>1
    <3>3. polls' \in Seq(PollType)
      BY <1>4 DEF FewerPolls
    <3>4. Len(polls') = 0
      BY <1>4, <3>2
    <3> QED BY <3>3, <3>4, LenProperties
  <2>5. listener.here => k \in Ticking /\ seen' = e
    BY <1>1, <1>3, <1>5, <2>2 DEF StartedInv, Ticking
  <2>6. listener'.here /\ seen'.event =>
          /\ Ticking' # {}
          /\ \A i \in Ticking' : Ticking' = {i} => seen'.data + 1 = activation'[i].height
    BY <1>0, <1>6, <1>7, <2>3, <2>5
  <2>7. HeightInv'
    BY <2>4, <2>6 DEF HeightInv
  <2> QED BY <2>3, <2>5, <2>7
<1> QED
  BY <1>0, <1>8, <1>9, <1>10, <1>11 DEF WatchInv

(* An answer arrives. *)
LEMMA AnswerArrivesKeeps ==
  ASSUME WatchInv, NEW p \in 1 .. MaxPolls, AnswerArrives(p)
  PROVE  WatchInv'
<1> DEFINE e == polls[p].answer
<1>1. /\ WatchTypeOK /\ p <= Len(polls) /\ polls' = RemoveAt(polls, p)
      /\ UNCHANGED <<service, ledger, overlapped, watchFaults>>
  BY DEF AnswerArrives, WatchInv
<1>2. p \in 1 .. Len(polls) /\ p \in DOMAIN polls
  BY <1>1, WatchTypes, WatchersAssumption
<1>3. FewerPolls
  BY <1>1, <1>2, FewerWhenGone
<1>4. e \in WatchEventType
  BY <1>1, <1>2, WatchTypes DEF PollType
<1>5. /\ lastEvent \in WatchEventType /\ watchFaults' \in 0 .. WatchFaults
      /\ listener \in [n : 0 .. Listeners, here : BOOLEAN]
  BY <1>1 DEF WatchTypeOK
<1> HIDE DEF e
<1>6. CASE service \in Accounts
  <2>1. AccountArrives(e) /\ UNCHANGED <<listener, started, activation, pollInternal>>
    BY <1>6 DEF AnswerArrives, Accounts, e
  <2>2. lastEvent' \in WatchEventType /\ (GiveEvent(e) \/ UNCHANGED <<seen, givenHeaders>>)
    BY <1>4, <1>5, <2>1 DEF AccountArrives
  <2>3. GivenStays /\ service # "none" /\ service # "lisk headers"
    BY <1>4, <1>6, <2>2, EventGiven DEF Accounts
  <2> QED BY <1>1, <1>3, <1>5, <2>1, <2>2, <2>3, QuietWatch
<1>7. CASE service = "lisk headers"
  <2>1. HeaderPollEnds(e, polls[p].of) /\ UNCHANGED <<listener, started, pollInternal>>
    BY <1>7 DEF AnswerArrives, Accounts, e
  <2>2. CASE e = None \/ e = lastEvent
    <3>1. UNCHANGED <<seen, givenHeaders, lastEvent, activation>>
      BY <2>1, <2>2 DEF HeaderPollEnds
    <3>2. GivenStays
      BY <1>4, <1>7, <3>1, EventGiven
    <3> QED BY <1>1, <1>3, <1>5, <2>1, <3>1, <3>2, QuietWatch
  <2>3. CASE ~(e = None \/ e = lastEvent)
    <3>1. GiveEvent(e) /\ lastEvent' = e /\ activation' = [activation EXCEPT ![polls[p].of].height = @ + 1]
      BY <2>1, <2>3 DEF HeaderPollEnds
    <3>2. PolledHeader(p, e, polls[p].of)
      BY <1>1, <1>7, <2>1, <2>3, <3>1 DEF e, PolledHeader
    <3> QED BY <1>2, <3>2, PolledHeaderArrives
  <2> QED BY <2>2, <2>3
<1>8. CASE service = "lisk transaction"
  <2>1. /\ lastEvent' = lastEvent
        /\ IF e = None THEN UNCHANGED <<seen, givenHeaders, listener, started, activation, pollInternal>>
                       ELSE GiveEvent(e) /\ EndStream
    BY <1>8 DEF AnswerArrives, Accounts, e
  <2>2. GivenStays
    BY <1>4, <1>8, <2>1, EventGiven
  <2>3. CASE e # None /\ listener.here
    <3>1. listener' = [listener EXCEPT !.here = FALSE] /\ StopPolling
      BY <2>1, <2>3 DEF EndStream
    <3> QED BY <1>1, <1>3, <1>5, <2>1, <2>2, <3>1, StopPollingKeeps
  <2>4. CASE ~(e # None /\ listener.here)
    <3>1. UNCHANGED <<listener, started, activation, pollInternal>> /\ (listener.here => seen' = seen)
      BY <2>1, <2>4 DEF EndStream
    <3> QED BY <1>1, <1>3, <1>5, <2>1, <2>2, <3>1, QuietWatch
  <2> QED BY <2>3, <2>4
<1> QED
  BY <1>6, <1>7, <1>8 DEF AnswerArrives

(* Every step of the polled streams keeps the invariant. *)
LEMMA WatchStep == WatchInv /\ [WatchNext]_watchVars => WatchInv'
<1> SUFFICES ASSUME WatchInv, [WatchNext]_watchVars PROVE WatchInv'
  OBVIOUS
<1>1. ASSUME NEW s \in Service, Watch(s) PROVE WatchInv'
  BY <1>1, WatchKeeps
<1>2. CASE ChainMoves
  BY <1>2, ChainMovesKeeps
<1>3. CASE ListenWatch
  BY <1>3, ListenToRunning, ListenStarts
<1>4. CASE Leave
  BY <1>4, LeaveKeeps
<1>5. CASE StopUnheard
  BY <1>5, StopUnheardKeeps
<1>6. ASSUME NEW k \in 1 .. Listeners, HeightArrives(k) \/ HeightFails(k) \/ TimerFires(k) PROVE WatchInv'
  BY <1>6, HeightArrivesKeeps, HeightFailsKeeps, TimerFiresKeeps
<1>7. ASSUME NEW p \in 1 .. MaxPolls, NodeAnswers(p) \/ AnswerArrives(p) \/ RequestFails(p) PROVE WatchInv'
  BY <1>7, NodeAnswersKeeps, AnswerArrivesKeeps, RequestFailsKeeps
<1>8. CASE UNCHANGED watchVars
  <2>1. Ticking' = Ticking
    BY <1>8 DEF watchVars, Ticking
  <2>2. WatchTypeOK'
    BY <1>8 DEF WatchInv, watchVars, WatchTypeOK
  <2>3. StartedInv'
    BY <1>8 DEF WatchInv, watchVars, StartedInv
  <2>4. TimersStop'
    BY <1>8, <2>1 DEF WatchInv, watchVars, TimersStop
  <2>5. (service = "lisk headers" /\ ~overlapped => HeightInv)'
    BY <1>8, <2>1 DEF WatchInv, watchVars, HeightInv
  <2> QED BY <2>2, <2>3, <2>4, <2>5 DEF WatchInv
<1> QED
  BY <1>1, <1>2, <1>3, <1>4, <1>5, <1>6, <1>7, <1>8 DEF WatchNext

(* While answers come before the next poll, the header that follows a header *)
(* is that of the next block.                                                *)
SecondHeader ==
  /\ service = "lisk headers" /\ ~overlapped /\ Cardinality(Ticking) = 1
  /\ seen.event /\ seen' # seen /\ seen'.event

HeaderFollows == SecondHeader => seen'.data = seen.data + 1

LEMMA HeaderFollowsHeader == WatchInv /\ [WatchNext]_watchVars => HeaderFollows
<1> SUFFICES ASSUME WatchInv, [WatchNext]_watchVars, SecondHeader
             PROVE  seen'.data = seen.data + 1
  BY DEF HeaderFollows
<1>0. /\ service = "lisk headers" /\ ~overlapped /\ Cardinality(Ticking) = 1
      /\ seen.event /\ seen' # seen /\ seen'.event
  BY DEF SecondHeader
<1>1. PICK p \in 1 .. MaxPolls : AnswerArrives(p)
  <2>1. ~None.event
    BY DEF None
  <2> QED BY <1>0, <2>1 DEF WatchNext, watchVars, Watch, ChainMoves, ListenWatch, Leave, StopUnheard,
            HeightArrives, HeightFails, TimerFires, NodeAnswers, RequestFails
<1> DEFINE e == polls[p].answer
           k == polls[p].of
<1>2. /\ WatchTypeOK /\ HeightInv /\ p <= Len(polls) /\ polls' = RemoveAt(polls, p)
      /\ UNCHANGED <<service, ledger, overlapped, watchFaults>>
  BY <1>0, <1>1 DEF AnswerArrives, WatchInv
<1>3. p \in DOMAIN polls
  <2>1. Len(polls) \in Nat /\ DOMAIN polls = 1 .. Len(polls)
    BY <1>2, WatchTypes
  <2> QED BY <1>2, <2>1, WatchersAssumption
<1>4. HeaderPollEnds(e, k) /\ UNCHANGED <<listener, started, pollInternal>>
  BY <1>0, <1>1 DEF AnswerArrives, Accounts
<1>5. /\ e # None /\ GiveEvent(e) /\ lastEvent' = e
      /\ activation' = [activation EXCEPT ![k].height = @ + 1]
  BY <1>0, <1>4 DEF HeaderPollEnds
<1>6. listener.here
  BY <1>0, <1>5 DEF GiveEvent
<1>7. seen'.data = activation[k].height /\ k \in Ticking
  <2>1. PolledHeader(p, e, k)
    BY <1>0, <1>2, <1>4, <1>5 DEF PolledHeader
  <2> QED BY <1>0, <1>3, <1>6, <2>1, PolledHeaderArrives
<1>8. Ticking = {k}
  <2>1. IsFiniteSet(Ticking)
    <3>1. Ticking \subseteq 1 .. Listeners
      BY DEF Ticking
    <3>2. 1 \in Int /\ Listeners \in Int
      BY WatchersAssumption
    <3>3. IsFiniteSet(1 .. Listeners)
      BY <3>2, FS_Interval
    <3> QED BY <3>1, <3>3, FS_Subset
  <2>2. PICK i : Ticking = {i}
    BY <1>0, <2>1, FS_Singleton
  <2> QED BY <1>7, <2>2
<1>9. seen.data + 1 = activation[k].height
  BY <1>0, <1>2, <1>6, <1>7, <1>8 DEF HeightInv
<1> QED
  BY <1>7, <1>9

(* The polled streams of Lisk and Ethereum keep well-formed state: every     *)
(* poll belongs to a start of the producer whose timer runs or was cleared,  *)
(* and the timer variable holds one that runs.                               *)
THEOREM WatchTypeCorrect == WatchSpec => []WatchTypeOK
<1>1. WatchInv => WatchTypeOK
  BY DEF WatchInv
<1> QED
  BY <1>1, WatchInitially, WatchStep, PTL DEF WatchSpec

(* watchAccount() of Lisk has one timer while its producer runs and none     *)
(* when it does not, for any number of listeners, polls under way and        *)
(* failures: stop() clears what start() set.                                 *)
THEOREM WatchTimersStop == WatchSpec => []TimersStop
<1>1. WatchInv => TimersStop
  BY DEF WatchInv
<1> QED
  BY <1>1, WatchInitially, WatchStep, PTL DEF WatchSpec

(* watchBlockHeaders() of Lisk skips and repeats no block between two        *)
(* headers while polls do not overlap and one timer runs.                    *)
THEOREM WatchHeadersConsecutive == WatchSpec => HeadersConsecutive
<1>1. WatchInv /\ [WatchNext]_watchVars => [HeaderFollows]_watchVars
  BY HeaderFollowsHeader
<1>2. WatchSpec => [][HeaderFollows]_watchVars
  BY <1>1, WatchInitially, WatchStep, PTL DEF WatchSpec
<1> QED
  BY <1>2 DEF HeadersConsecutive, HeaderFollows, SecondHeader

-----------------------------------------------------------------------------
(* The new heads of Ethereum (NewHeads). *)

Cancellation(k) == [method |-> "eth_unsubscribe", id |-> k]

(* A subscription that was made or asked for is the one of the running       *)
(* producer, or its cancellation follows.                                    *)
CancelInv ==
  ~stoppedEarly =>
    /\ \A k \in nodeSubscriptions :
         (allMessages /\ k = starts) \/ \E j \in DOMAIN toNode : toNode[j] = Cancellation(k)
    /\ \A n \in DOMAIN toNode : toNode[n].method = "eth_subscribe" =>
         \/ allMessages /\ toNode[n].id = starts
         \/ \E j \in DOMAIN toNode : n < j /\ toNode[j] = Cancellation(toNode[n].id)

(* The announcements of a head come together, one per subscription.          *)
AnnouncedTogether ==
  \A m, n \in DOMAIN toClient :
    m < n /\ toClient[m].kind = "head" /\ toClient[n].kind = "head" /\ toClient[m].number = toClient[n].number =>
      /\ toClient[m].subscription # toClient[n].subscription
      /\ \A j \in m .. n : toClient[j].kind = "head"

(* A head that was fetched is not fetched for another subscription: the      *)
(* client does not learn of one before the announcements have passed.        *)
FetchedOnce ==
  \A h \in 1 .. MaxHead :
    /\ fetching[h] <= 1
    /\ fetching[h] > 0 => h \notin givenHeads
    /\ fetching[h] > 0 \/ h \in givenHeads =>
         \A n \in DOMAIN toClient : toClient[n].kind = "head" /\ toClient[n].number = h =>
           /\ toClient[n].subscription # subscriptionId
           /\ \A m \in 1 .. n : toClient[m].kind = "result" =>
                toClient[m].subscription # toClient[n].subscription

HeadInv ==
  /\ HeadTypeOK
  /\ CancelInv
  /\ AnnouncedTogether
  /\ FetchedOnce
  /\ HeadsOnce

RequestType(s) == [method : {"eth_subscribe", "eth_unsubscribe"}, id : 1 .. s]
MessageType(s, h) ==
  [kind : {"result"}, subscription : 1 .. s, number : {0}]
    \cup [kind : {"head"}, subscription : 1 .. s, number : 1 .. h]

(* A sequence over a set is one over every larger set. *)
LEMMA SeqGrows ==
  ASSUME NEW S, NEW T, S \subseteq T, NEW s \in Seq(S)
  PROVE  s \in Seq(T)
<1>1. Len(s) \in Nat /\ DOMAIN s = 1 .. Len(s) /\ s \in [1 .. Len(s) -> S]
  BY LenProperties
<1>2. s \in [1 .. Len(s) -> T]
  BY <1>1
<1> QED
  BY <1>1, <1>2, SeqDef

(* A function on the first numbers is a sequence of that length. *)
LEMMA FunctionIsSeq ==
  ASSUME NEW S, NEW c \in Nat, NEW s \in [1 .. c -> S]
  PROVE  s \in Seq(S) /\ Len(s) = c
<1>1. s \in Seq(S)
  BY SeqDef
<1>2. Len(s) \in Nat /\ 1 .. Len(s) = 1 .. c
  BY <1>1, LenProperties
<1> QED
  BY <1>1, <1>2

(* The entries of two sequences put together. *)
LEMMA ConcatEntries ==
  ASSUME NEW S, NEW s \in Seq(S), NEW u \in Seq(S)
  PROVE  /\ s \o u \in Seq(S) /\ Len(s \o u) = Len(s) + Len(u) /\ DOMAIN (s \o u) = 1 .. Len(s) + Len(u)
         /\ \A n \in 1 .. Len(s) : (s \o u)[n] = s[n]
         /\ \A n \in Len(s) + 1 .. Len(s) + Len(u) : (s \o u)[n] = u[n - Len(s)]
<1>1. /\ s \o u \in Seq(S) /\ Len(s \o u) = Len(s) + Len(u)
      /\ \A n \in 1 .. Len(s) + Len(u) : (s \o u)[n] = IF n <= Len(s) THEN s[n] ELSE u[n - Len(s)]
  BY ConcatProperties
<1>2. Len(s) \in Nat /\ Len(u) \in Nat
  BY LenProperties
<1>3. DOMAIN (s \o u) = 1 .. Len(s) + Len(u)
  BY <1>1, LenProperties
<1> QED
  BY <1>1, <1>2, <1>3

(* Requests and messages stay well formed while starts and heads grow. *)
LEMMA HeadTypesGrow ==
  ASSUME NEW s \in Nat, NEW h \in Nat, NEW s2 \in Nat, NEW h2 \in Nat, s <= s2, h <= h2
  PROVE  RequestType(s) \subseteq RequestType(s2) /\ MessageType(s, h) \subseteq MessageType(s2, h2)
<1>1. 1 .. s \subseteq 1 .. s2 /\ 1 .. h \subseteq 1 .. h2
  OBVIOUS
<1> QED
  BY <1>1 DEF RequestType, MessageType

(* What the types say, for the provers. *)
LEMMA HeadTypes ==
  ASSUME HeadTypeOK
  PROVE  /\ MaxHead \in Nat /\ MaxStarts \in Nat /\ HeadFaults \in Nat
         /\ head \in Nat /\ head <= MaxHead /\ starts \in Nat /\ starts <= MaxStarts
         /\ subscriptionId \in Nat
         /\ toNode \in Seq(RequestType(starts)) /\ Len(toNode) \in Nat /\ DOMAIN toNode = 1 .. Len(toNode)
         /\ \A n \in DOMAIN toNode : toNode[n] \in RequestType(starts)
         /\ toClient \in Seq(MessageType(starts, head)) /\ Len(toClient) \in Nat
         /\ DOMAIN toClient = 1 .. Len(toClient)
         /\ \A n \in DOMAIN toClient : toClient[n] \in MessageType(starts, head)
<1>1. toNode \in Seq(RequestType(starts)) /\ toClient \in Seq(MessageType(starts, head))
  BY DEF HeadTypeOK, RequestType, MessageType
<1>2. /\ Len(toNode) \in Nat /\ DOMAIN toNode = 1 .. Len(toNode)
      /\ \A n \in 1 .. Len(toNode) : toNode[n] \in RequestType(starts)
  BY <1>1, LenProperties, ElementOfSeq
<1>3. /\ Len(toClient) \in Nat /\ DOMAIN toClient = 1 .. Len(toClient)
      /\ \A n \in 1 .. Len(toClient) : toClient[n] \in MessageType(starts, head)
  BY <1>1, LenProperties, ElementOfSeq
<1>4. MaxHead \in Nat /\ MaxStarts \in Nat /\ HeadFaults \in Nat
  BY NewHeadsAssumption
<1>5. head \in 0 .. MaxHead /\ starts \in 0 .. MaxStarts /\ subscriptionId \in 0 .. starts
  BY DEF HeadTypeOK
<1> QED
  BY <1>1, <1>2, <1>3, <1>4, <1>5

(* Initially nobody listens. *)
LEMMA HeadInitially == HeadInit => HeadInv
<1> SUFFICES ASSUME HeadInit PROVE HeadInv
  OBVIOUS
<1>1. /\ head = 0 /\ nodeSubscriptions = {} /\ toNode = <<>> /\ toClient = <<>>
      /\ hearing = FALSE /\ starts = 0 /\ allMessages = FALSE /\ subscriptionId = 0
      /\ fetching = [h \in 1 .. MaxHead |-> 0] /\ givenHeads = {} /\ givenTwice = {} /\ owedHeads = {}
      /\ stoppedEarly = FALSE /\ headFaults = 0
  BY DEF HeadInit
<1>2. DOMAIN toNode = {} /\ DOMAIN toClient = {} /\ \A S : toNode \in Seq(S) /\ toClient \in Seq(S)
  BY <1>1
<1>3. HeadTypeOK
  <2>1. head \in 0 .. MaxHead /\ starts \in 0 .. MaxStarts /\ headFaults \in 0 .. HeadFaults
        /\ subscriptionId \in 0 .. starts
    BY <1>1, NewHeadsAssumption
  <2>2. fetching \in [1 .. MaxHead -> Nat] /\ \A h \in 1 .. MaxHead : ~(fetching[h] > 0)
    BY <1>1
  <2>3. hearing \in BOOLEAN /\ allMessages \in BOOLEAN /\ stoppedEarly \in BOOLEAN /\ (hearing => allMessages)
    BY <1>1
  <2> QED BY <1>1, <1>2, <2>1, <2>2, <2>3 DEF HeadTypeOK
<1>4. FetchedOnce
  BY <1>1, <1>2 DEF FetchedOnce
<1> QED
  BY <1>1, <1>2, <1>3, <1>4 DEF HeadInv, CancelInv, AnnouncedTogether, HeadsOnce

(* A listener comes. *)
LEMMA HearHeadsKeeps == HeadInv /\ HearHeads => HeadInv'
<1> SUFFICES ASSUME HeadInv, HearHeads PROVE HeadInv'
  OBVIOUS
<1>1. /\ HeadTypeOK /\ CancelInv /\ AnnouncedTogether /\ FetchedOnce /\ HeadsOnce
      /\ hearing' = TRUE /\ owedHeads' = {}
      /\ UNCHANGED <<head, nodeSubscriptions, toClient, subscriptionId, fetching, givenHeads, givenTwice,
                     stoppedEarly, headFaults>>
  BY DEF HeadInv, HearHeads, nodeHeadVars, headOutVars
<1>2. AnnouncedTogether' /\ HeadsOnce'
  BY <1>1 DEF AnnouncedTogether, HeadsOnce
<1>3. FetchedOnce'
  BY <1>1 DEF FetchedOnce
<1>4. CASE allMessages
  <2>1. UNCHANGED <<starts, allMessages, toNode>>
    BY <1>4 DEF HearHeads
  <2>2. HeadTypeOK'
    BY <1>1, <1>4, <2>1 DEF HeadTypeOK
  <2>3. CancelInv'
    BY <1>1, <2>1 DEF CancelInv
  <2> QED BY <1>2, <1>3, <2>2, <2>3 DEF HeadInv
<1>5. CASE ~allMessages
  <2> DEFINE r == [method |-> "eth_subscribe", id |-> starts + 1]
  <2>1. /\ starts < MaxStarts /\ starts' = starts + 1 /\ allMessages' = TRUE
        /\ toNode' = Append(toNode, r)
    BY <1>5 DEF HearHeads
  <2>2. /\ head \in Nat /\ starts \in Nat /\ MaxStarts \in Nat
        /\ toNode \in Seq(RequestType(starts)) /\ Len(toNode) \in Nat /\ DOMAIN toNode = 1 .. Len(toNode)
        /\ toClient \in Seq(MessageType(starts, head))
    BY <1>1, HeadTypes
  <2>3. starts' \in Nat /\ starts <= starts' /\ starts' \in 0 .. MaxStarts /\ head <= head
    BY <2>1, <2>2
  <2>4. toNode \in Seq(RequestType(starts')) /\ toClient' \in Seq(MessageType(starts', head'))
    BY <1>1, <2>2, <2>3, HeadTypesGrow, SeqGrows
  <2>5. r \in RequestType(starts')
    BY <2>1, <2>2 DEF RequestType
  <2>6. /\ toNode' \in Seq(RequestType(starts')) /\ DOMAIN toNode' = 1 .. Len(toNode) + 1
        /\ toNode'[Len(toNode) + 1] = r /\ \A n \in 1 .. Len(toNode) : toNode'[n] = toNode[n]
    BY <2>1, <2>2, <2>4, <2>5
  <2>7. HeadTypeOK'
    <3>1. nodeSubscriptions \subseteq 1 .. starts' /\ subscriptionId \in 0 .. starts'
      <4>1. nodeSubscriptions \subseteq 1 .. starts /\ subscriptionId \in 0 .. starts
        BY <1>1 DEF HeadTypeOK
      <4> QED BY <4>1, <2>2, <2>3
    <3>2. /\ head' \in 0 .. MaxHead /\ headFaults' \in 0 .. HeadFaults /\ stoppedEarly' \in BOOLEAN
          /\ fetching' \in [1 .. MaxHead -> Nat]
          /\ (\A h \in 1 .. MaxHead : fetching[h] > 0 => h <= head)'
          /\ givenHeads' \subseteq 1 .. head' /\ givenTwice' \subseteq givenHeads'
      BY <1>1 DEF HeadTypeOK
    <3> QED BY <1>1, <2>1, <2>3, <2>4, <2>6, <3>1, <3>2 DEF HeadTypeOK, RequestType, MessageType
  <2>8. CancelInv'
    <3> SUFFICES ASSUME ~stoppedEarly
                 PROVE  /\ \A k \in nodeSubscriptions : \E j \in DOMAIN toNode' : toNode'[j] = Cancellation(k)
                        /\ \A n \in DOMAIN toNode' : toNode'[n].method = "eth_subscribe" =>
                             \/ toNode'[n].id = starts'
                             \/ \E j \in DOMAIN toNode' : n < j /\ toNode'[j] = Cancellation(toNode'[n].id)
      BY <1>1, <2>1 DEF CancelInv
    <3>1. \A k \in nodeSubscriptions : \E j \in DOMAIN toNode : toNode[j] = Cancellation(k)
      BY <1>1, <1>5 DEF CancelInv
    <3>2. \A n \in DOMAIN toNode : toNode[n].method = "eth_subscribe" =>
            \E j \in DOMAIN toNode : n < j /\ toNode[j] = Cancellation(toNode[n].id)
      BY <1>1, <1>5 DEF CancelInv
    <3>3. DOMAIN toNode \subseteq DOMAIN toNode'
      BY <2>2, <2>6
    <3>4. \A n \in DOMAIN toNode' : n \in DOMAIN toNode \/ n = Len(toNode) + 1
      BY <2>2, <2>6
    <3>5. r.id = starts'
      BY <2>1
    <3> HIDE DEF r
    <3> QED BY <2>2, <2>6, <3>1, <3>2, <3>3, <3>4, <3>5
  <2> QED BY <1>2, <1>3, <2>7, <2>8 DEF HeadInv
<1> QED
  BY <1>4, <1>5

(* A listener leaves. *)
LEMMA LeaveHeadsKeeps == HeadInv /\ LeaveHeads => HeadInv'
<1> SUFFICES ASSUME HeadInv, LeaveHeads PROVE HeadInv'
  OBVIOUS
<1>1. /\ HeadTypeOK /\ CancelInv /\ AnnouncedTogether /\ FetchedOnce /\ HeadsOnce
      /\ hearing' = FALSE
      /\ UNCHANGED <<head, nodeSubscriptions, toNode, toClient, starts, allMessages, owedHeads, stoppedEarly,
                     subscriptionId, fetching, givenHeads, givenTwice, headFaults>>
  BY DEF HeadInv, LeaveHeads, nodeHeadVars, headOutVars, socketVars
<1>2. HeadTypeOK'
  BY <1>1 DEF HeadTypeOK
<1>3. CancelInv'
  BY <1>1 DEF CancelInv
<1>4. AnnouncedTogether' /\ HeadsOnce'
  BY <1>1 DEF AnnouncedTogether, HeadsOnce
<1>5. FetchedOnce'
  BY <1>1 DEF FetchedOnce
<1> QED
  BY <1>2, <1>3, <1>4, <1>5 DEF HeadInv

(* stop() sends the cancellation of the subscription whose ID is known. *)
LEMMA StopProducerCancels ==
  ASSUME HeadTypeOK, CancelInv, StopProducer, UNCHANGED <<nodeSubscriptions, starts>>
  PROVE  /\ CancelInv' /\ allMessages' = FALSE /\ stoppedEarly' \in BOOLEAN
         /\ toNode' \in Seq(RequestType(starts))
<1>1. /\ allMessages' = FALSE /\ stoppedEarly' = (stoppedEarly \/ subscriptionId # starts)
      /\ toNode' = IF subscriptionId = 0 THEN toNode ELSE Append(toNode, Cancellation(subscriptionId))
  BY DEF StopProducer, Cancellation
<1>2. stoppedEarly \in BOOLEAN /\ subscriptionId \in 0 .. starts /\ nodeSubscriptions \subseteq 1 .. starts
  BY DEF HeadTypeOK
<1>3. stoppedEarly' \in BOOLEAN /\ (~stoppedEarly' => ~stoppedEarly /\ subscriptionId = starts)
  BY <1>1, <1>2, Zenon
<1>4. /\ starts \in Nat
      /\ toNode \in Seq(RequestType(starts)) /\ Len(toNode) \in Nat /\ DOMAIN toNode = 1 .. Len(toNode)
      /\ \A n \in DOMAIN toNode : toNode[n] \in RequestType(starts)
  BY HeadTypes
<1>5. CASE subscriptionId = 0
  <2>1. toNode' = toNode
    BY <1>1, <1>5
  <2>2. ASSUME ~stoppedEarly' PROVE nodeSubscriptions = {} /\ DOMAIN toNode = {}
    <3>1. starts = 0
      BY <1>3, <1>5, <2>2
    <3>2. 1 .. starts = {}
      BY <3>1
    <3> QED BY <1>2, <1>4, <3>2 DEF RequestType
  <2>3. CancelInv'
    BY <2>1, <2>2 DEF CancelInv
  <2> QED BY <1>1, <1>3, <1>4, <2>1, <2>3
<1>6. CASE subscriptionId # 0
  <2>1. Cancellation(subscriptionId) \in RequestType(starts)
    BY <1>2, <1>4, <1>6 DEF Cancellation, RequestType
  <2>2. /\ toNode' \in Seq(RequestType(starts)) /\ DOMAIN toNode' = 1 .. Len(toNode) + 1
        /\ toNode'[Len(toNode) + 1] = Cancellation(subscriptionId)
        /\ \A n \in 1 .. Len(toNode) : toNode'[n] = toNode[n]
    BY <1>1, <1>4, <1>6, <2>1
  <2>3. /\ DOMAIN toNode \subseteq DOMAIN toNode' /\ Len(toNode) + 1 \in DOMAIN toNode'
        /\ \A n \in DOMAIN toNode : n < Len(toNode) + 1
        /\ \A n \in DOMAIN toNode' : n \in DOMAIN toNode \/ n = Len(toNode) + 1
    BY <1>4, <2>2
  <2>4. Cancellation(subscriptionId).method # "eth_subscribe"
    BY DEF Cancellation
  <2>5. CancelInv'
    <3> SUFFICES ASSUME ~stoppedEarly'
                 PROVE  /\ \A k \in nodeSubscriptions : \E j \in DOMAIN toNode' : toNode'[j] = Cancellation(k)
                        /\ \A n \in DOMAIN toNode' : toNode'[n].method = "eth_subscribe" =>
                             \E j \in DOMAIN toNode' : n < j /\ toNode'[j] = Cancellation(toNode'[n].id)
      BY <1>1 DEF CancelInv
    <3>1. ~stoppedEarly /\ subscriptionId = starts
      BY <1>3
    <3>2. \A k \in nodeSubscriptions : k = starts \/ \E j \in DOMAIN toNode : toNode[j] = Cancellation(k)
      BY <3>1 DEF CancelInv
    <3>3. \A n \in DOMAIN toNode : toNode[n].method = "eth_subscribe" =>
            toNode[n].id = starts \/ \E j \in DOMAIN toNode : n < j /\ toNode[j] = Cancellation(toNode[n].id)
      BY <3>1 DEF CancelInv
    <3>4. \A k \in nodeSubscriptions : \E j \in DOMAIN toNode' : toNode'[j] = Cancellation(k)
      BY <1>4, <2>2, <2>3, <3>1, <3>2
    <3>5. \A n \in DOMAIN toNode' : toNode'[n].method = "eth_subscribe" =>
            \E j \in DOMAIN toNode' : n < j /\ toNode'[j] = Cancellation(toNode'[n].id)
      BY <1>4, <2>2, <2>3, <2>4, <3>1, <3>3
    <3> QED BY <3>4, <3>5
  <2> QED BY <1>1, <1>3, <2>2, <2>5
<1> QED
  BY <1>5, <1>6

(* The producer stops after its listener has left. *)
LEMMA StopHeadsKeeps == HeadInv /\ StopHeads => HeadInv'
<1> SUFFICES ASSUME HeadInv, StopHeads PROVE HeadInv'
  OBVIOUS
<1>1. /\ HeadTypeOK /\ CancelInv /\ AnnouncedTogether /\ FetchedOnce /\ HeadsOnce
      /\ ~hearing /\ StopProducer
      /\ UNCHANGED <<head, nodeSubscriptions, toClient, hearing, starts, owedHeads, subscriptionId, fetching,
                     givenHeads, givenTwice, headFaults>>
  BY DEF HeadInv, StopHeads, nodeHeadVars, headOutVars
<1>2. CancelInv' /\ allMessages' = FALSE /\ stoppedEarly' \in BOOLEAN /\ toNode' \in Seq(RequestType(starts))
  BY <1>1, StopProducerCancels
<1>3. HeadTypeOK'
  BY <1>1, <1>2 DEF HeadTypeOK, RequestType
<1>4. AnnouncedTogether' /\ HeadsOnce'
  BY <1>1 DEF AnnouncedTogether, HeadsOnce
<1>5. FetchedOnce'
  BY <1>1 DEF FetchedOnce
<1> QED
  BY <1>2, <1>3, <1>4, <1>5 DEF HeadInv

(* The node handles a request. *)
LEMMA NodeTakesRequestKeeps == HeadInv /\ NodeTakesRequest => HeadInv'
<1> SUFFICES ASSUME HeadInv, NodeTakesRequest PROVE HeadInv'
  OBVIOUS
<1> DEFINE r == toNode[1]
           answer == [kind |-> "result", subscription |-> r.id, number |-> 0]
<1>1. /\ HeadTypeOK /\ CancelInv /\ AnnouncedTogether /\ FetchedOnce /\ HeadsOnce
      /\ toNode # <<>> /\ toNode' = Tail(toNode)
      /\ UNCHANGED <<head, hearing, starts, allMessages, owedHeads, stoppedEarly, subscriptionId, fetching,
                     givenHeads, givenTwice, headFaults>>
  BY DEF HeadInv, NodeTakesRequest, headListenerVars, headOutVars
<1>2. /\ head \in Nat /\ starts \in Nat
      /\ toNode \in Seq(RequestType(starts)) /\ Len(toNode) \in Nat /\ DOMAIN toNode = 1 .. Len(toNode)
      /\ \A n \in DOMAIN toNode : toNode[n] \in RequestType(starts)
      /\ toClient \in Seq(MessageType(starts, head)) /\ Len(toClient) \in Nat
      /\ DOMAIN toClient = 1 .. Len(toClient)
  BY <1>1, HeadTypes
<1>3. /\ 1 \in DOMAIN toNode /\ Head(toNode) = r
      /\ toNode' \in Seq(RequestType(starts)) /\ DOMAIN toNode' = 1 .. Len(toNode) - 1
      /\ \A n \in 1 .. Len(toNode) - 1 : toNode'[n] = toNode[n + 1]
  BY <1>1, <1>2
<1>4. r \in RequestType(starts) /\ r.id \in 1 .. starts /\ r.method \in {"eth_subscribe", "eth_unsubscribe"}
  BY <1>2, <1>3 DEF RequestType
<1>5. \/ /\ r.method = "eth_subscribe"
         /\ nodeSubscriptions' = nodeSubscriptions \cup {r.id} /\ toClient' = Append(toClient, answer)
      \/ /\ r.method = "eth_unsubscribe"
         /\ nodeSubscriptions' = nodeSubscriptions \ {r.id} /\ toClient' = toClient
  BY <1>3 DEF NodeTakesRequest
<1> HIDE DEF r
<1>6. answer \in MessageType(starts, head) /\ answer.kind = "result"
  BY <1>4 DEF MessageType
<1> HIDE DEF answer
<1>7. /\ toClient' \in Seq(MessageType(starts, head)) /\ DOMAIN toClient \subseteq DOMAIN toClient'
      /\ \A n \in DOMAIN toClient : toClient'[n] = toClient[n]
      /\ \A n \in DOMAIN toClient' : toClient'[n].kind = "head" => n \in DOMAIN toClient
  <2>1. CASE toClient' = toClient
    BY <1>2, <2>1
  <2>2. CASE toClient' = Append(toClient, answer)
    <3>1. /\ toClient' \in Seq(MessageType(starts, head)) /\ DOMAIN toClient' = 1 .. Len(toClient) + 1
          /\ toClient'[Len(toClient) + 1] = answer /\ \A n \in 1 .. Len(toClient) : toClient'[n] = toClient[n]
      BY <1>2, <1>6, <2>2
    <3>2. \A n \in DOMAIN toClient' : n \in DOMAIN toClient \/ n = Len(toClient) + 1
      BY <1>2, <3>1
    <3>3. DOMAIN toClient \subseteq DOMAIN toClient'
      BY <1>2, <3>1
    <3> QED BY <1>2, <1>6, <3>1, <3>2, <3>3
  <2> QED BY <1>5, <2>1, <2>2
<1>8. HeadTypeOK'
  <2>1. nodeSubscriptions' \subseteq 1 .. starts
    BY <1>1, <1>4, <1>5 DEF HeadTypeOK
  <2>2. hearing' \in BOOLEAN /\ allMessages' \in BOOLEAN /\ stoppedEarly' \in BOOLEAN
    BY <1>1 DEF HeadTypeOK
  <2> QED BY <1>1, <1>3, <1>7, <2>1, <2>2 DEF HeadTypeOK, RequestType, MessageType
<1>9. CancelInv'
  <2> SUFFICES ASSUME ~stoppedEarly
               PROVE  /\ \A k \in nodeSubscriptions' :
                           (allMessages /\ k = starts) \/ \E j \in DOMAIN toNode' : toNode'[j] = Cancellation(k)
                      /\ \A n \in DOMAIN toNode' : toNode'[n].method = "eth_subscribe" =>
                           \/ allMessages /\ toNode'[n].id = starts
                           \/ \E j \in DOMAIN toNode' : n < j /\ toNode'[j] = Cancellation(toNode'[n].id)
    BY <1>1 DEF CancelInv
  <2>1. \A j \in DOMAIN toNode : j > 1 => j - 1 \in DOMAIN toNode' /\ toNode'[j - 1] = toNode[j]
    BY <1>2, <1>3
  <2>2. ASSUME NEW k \in nodeSubscriptions'
        PROVE  (allMessages /\ k = starts) \/ \E j \in DOMAIN toNode : j > 1 /\ toNode[j] = Cancellation(k)
    <3>1. CASE k \in nodeSubscriptions
      <4>1. CASE \E j \in DOMAIN toNode : toNode[j] = Cancellation(k)
        <5>1. PICK j \in DOMAIN toNode : toNode[j] = Cancellation(k)
          BY <4>1
        <5>2. r # Cancellation(k)
          <6>1. Cancellation(k).method = "eth_unsubscribe" /\ Cancellation(k).id = k
            BY DEF Cancellation
          <6> QED BY <1>5, <2>2, <6>1
        <5>3. j # 1 /\ j \in 1 .. Len(toNode)
          BY <1>2, <5>1, <5>2 DEF r
        <5> QED BY <1>2, <5>1, <5>3
      <4> QED BY <1>1, <3>1, <4>1 DEF CancelInv
    <3>2. CASE k \notin nodeSubscriptions
      <4>1. k = r.id /\ r.method = "eth_subscribe"
        BY <1>5, <2>2, <3>2
      <4> QED BY <1>1, <1>3, <4>1 DEF CancelInv, r
    <3> QED BY <3>1, <3>2
  <2>3. ASSUME NEW n \in DOMAIN toNode', toNode'[n].method = "eth_subscribe"
        PROVE  \/ allMessages /\ toNode'[n].id = starts
               \/ \E j \in DOMAIN toNode' : n < j /\ toNode'[j] = Cancellation(toNode'[n].id)
    <3>1. n + 1 \in DOMAIN toNode /\ toNode[n + 1] = toNode'[n] /\ n \in Nat
      BY <1>2, <1>3
    <3>2. CASE \E j \in DOMAIN toNode : n + 1 < j /\ toNode[j] = Cancellation(toNode'[n].id)
      <4>1. PICK j \in DOMAIN toNode : n + 1 < j /\ toNode[j] = Cancellation(toNode'[n].id)
        BY <3>2
      <4>2. j > 1 /\ n < j - 1
        BY <1>2, <3>1, <4>1
      <4> QED BY <2>1, <4>1, <4>2
    <3> QED BY <1>1, <2>3, <3>1, <3>2 DEF CancelInv
  <2>4. \A k \in nodeSubscriptions' :
          (allMessages /\ k = starts) \/ \E j \in DOMAIN toNode' : toNode'[j] = Cancellation(k)
    BY <2>1, <2>2
  <2> QED BY <2>3, <2>4
<1>10. AnnouncedTogether'
  <2> SUFFICES ASSUME NEW m \in DOMAIN toClient', NEW n \in DOMAIN toClient', m < n,
                      toClient'[m].kind = "head", toClient'[n].kind = "head",
                      toClient'[m].number = toClient'[n].number
               PROVE  /\ toClient'[m].subscription # toClient'[n].subscription
                      /\ \A j \in m .. n : toClient'[j].kind = "head"
    BY DEF AnnouncedTogether
  <2>1. m \in DOMAIN toClient /\ n \in DOMAIN toClient
    BY <1>7
  <2>2. m .. n \subseteq DOMAIN toClient
    BY <1>2, <2>1
  <2>3. /\ toClient[m].subscription # toClient[n].subscription
        /\ \A j \in m .. n : toClient[j].kind = "head"
    BY <1>1, <1>7, <2>1 DEF AnnouncedTogether
  <2> QED BY <1>7, <2>1, <2>2, <2>3
<1>11. FetchedOnce'
  <2>1. \A n \in DOMAIN toClient : 1 .. n \subseteq DOMAIN toClient
    BY <1>2
  <2> QED BY <1>1, <1>7, <2>1 DEF FetchedOnce
<1>12. HeadsOnce'
  BY <1>1 DEF HeadsOnce
<1> QED
  BY <1>8, <1>9, <1>10, <1>11, <1>12 DEF HeadInv

(* The node announces a block. *)
LEMMA NodeAnnouncesKeeps == HeadInv /\ NodeAnnounces => HeadInv'
<1> SUFFICES ASSUME HeadInv, NodeAnnounces PROVE HeadInv'
  OBVIOUS
<1>1. /\ HeadTypeOK /\ CancelInv /\ AnnouncedTogether /\ FetchedOnce /\ HeadsOnce
      /\ head < MaxHead /\ head' = head + 1
      /\ owedHeads' = IF hearing /\ starts \in nodeSubscriptions THEN owedHeads \cup {head + 1} ELSE owedHeads
      /\ UNCHANGED <<nodeSubscriptions, toNode, hearing, starts, allMessages, stoppedEarly, subscriptionId,
                     fetching, givenHeads, givenTwice, headFaults>>
  BY DEF HeadInv, NodeAnnounces, headOutVars
<1>2. /\ head \in Nat /\ head <= MaxHead /\ MaxHead \in Nat /\ starts \in Nat
      /\ toClient \in Seq(MessageType(starts, head)) /\ Len(toClient) \in Nat
      /\ DOMAIN toClient = 1 .. Len(toClient)
      /\ \A n \in DOMAIN toClient : toClient[n] \in MessageType(starts, head)
  BY <1>1, HeadTypes
<1>3. PICK order \in [1 .. Cardinality(nodeSubscriptions) -> nodeSubscriptions] :
        /\ \A i, j \in DOMAIN order : i < j => order[i] < order[j]
        /\ toClient' = toClient \o
             [i \in DOMAIN order |-> [kind |-> "head", subscription |-> order[i], number |-> head + 1]]
  BY DEF NodeAnnounces
<1> DEFINE c == Cardinality(nodeSubscriptions)
           s == [i \in DOMAIN order |-> [kind |-> "head", subscription |-> order[i], number |-> head + 1]]
<1>4. nodeSubscriptions \subseteq 1 .. starts /\ c \in Nat
  <2>1. nodeSubscriptions \subseteq 1 .. starts
    BY <1>1 DEF HeadTypeOK
  <2>2. IsFiniteSet(nodeSubscriptions)
    <3>1. 1 \in Int /\ starts \in Int
      BY <1>2
    <3> QED BY <2>1, <3>1, FS_Interval, FS_Subset
  <2> QED BY <2>1, <2>2, FS_CardinalityType
<1> HIDE DEF c
<1>5. DOMAIN order = 1 .. c /\ \A i \in 1 .. c : order[i] \in 1 .. starts
  BY <1>3, <1>4 DEF c
<1>6. /\ s \in Seq(MessageType(starts, head + 1)) /\ Len(s) = c
      /\ \A i \in 1 .. c : s[i].kind = "head" /\ s[i].subscription = order[i] /\ s[i].number = head + 1
  <2>1. \A i \in 1 .. c : [kind |-> "head", subscription |-> order[i], number |-> head + 1]
                             \in MessageType(starts, head + 1)
    BY <1>2, <1>5 DEF MessageType
  <2>2. s \in [1 .. c -> MessageType(starts, head + 1)]
    BY <1>5, <2>1
  <2>3. \A i \in 1 .. c : s[i].kind = "head" /\ s[i].subscription = order[i] /\ s[i].number = head + 1
    BY <1>5
  <2> HIDE DEF s
  <2>4. s \in Seq(MessageType(starts, head + 1)) /\ Len(s) = c
    BY <1>4, <2>2, FunctionIsSeq
  <2> QED BY <2>3, <2>4
<1>7. toClient \in Seq(MessageType(starts, head + 1))
  <2>1. head + 1 \in Nat /\ head <= head + 1 /\ starts <= starts
    BY <1>2
  <2> QED BY <1>2, <2>1, HeadTypesGrow, SeqGrows
<1>8. toClient' = toClient \o s
  BY <1>3
<1> HIDE DEF s
<1>9. /\ toClient' \in Seq(MessageType(starts, head + 1)) /\ DOMAIN toClient' = 1 .. Len(toClient) + c
      /\ \A n \in 1 .. Len(toClient) : toClient'[n] = toClient[n]
      /\ \A n \in Len(toClient) + 1 .. Len(toClient) + c : toClient'[n] = s[n - Len(toClient)]
  BY <1>6, <1>7, <1>8, ConcatEntries
<1>10. \A n \in DOMAIN toClient' :
         \/ n \in DOMAIN toClient /\ toClient'[n] = toClient[n]
         \/ /\ n \notin DOMAIN toClient /\ n - Len(toClient) \in 1 .. c
            /\ toClient'[n].kind = "head" /\ toClient'[n].subscription = order[n - Len(toClient)]
            /\ toClient'[n].number = head + 1
  <2> SUFFICES ASSUME NEW n \in DOMAIN toClient', n \notin DOMAIN toClient
               PROVE  /\ n - Len(toClient) \in 1 .. c
                      /\ toClient'[n].kind = "head" /\ toClient'[n].subscription = order[n - Len(toClient)]
                      /\ toClient'[n].number = head + 1
    BY <1>2, <1>9
  <2>1. n \in Len(toClient) + 1 .. Len(toClient) + c /\ n - Len(toClient) \in 1 .. c
    BY <1>2, <1>4, <1>9
  <2> QED BY <1>6, <1>9, <2>1
<1>11. \A n \in DOMAIN toClient : toClient[n].kind = "head" => toClient[n].number # head + 1
  <2>1. \A n \in DOMAIN toClient : toClient[n].kind = "head" => toClient[n].number \in 1 .. head
    BY <1>2 DEF MessageType
  <2> QED BY <1>2, <2>1
<1>12. HeadTypeOK'
  <2>1. head' \in 0 .. MaxHead /\ 1 .. head \subseteq 1 .. head' /\ head + 1 \in 1 .. head'
    BY <1>1, <1>2
  <2>2. givenHeads' \subseteq 1 .. head' /\ owedHeads' \subseteq 1 .. head' /\ givenTwice' \subseteq givenHeads'
    <3>1. givenHeads \subseteq 1 .. head /\ owedHeads \subseteq 1 .. head /\ givenTwice \subseteq givenHeads
      BY <1>1 DEF HeadTypeOK
    <3> QED BY <1>1, <2>1, <3>1
  <2>3. \A h \in 1 .. MaxHead : fetching'[h] > 0 => h <= head'
    <3>1. \A h \in 1 .. MaxHead : fetching[h] > 0 => h <= head
      BY <1>1 DEF HeadTypeOK
    <3> QED BY <1>1, <1>2, <3>1
  <2>4. /\ starts' \in 0 .. MaxStarts /\ headFaults' \in 0 .. HeadFaults
        /\ hearing' \in BOOLEAN /\ allMessages' \in BOOLEAN /\ stoppedEarly' \in BOOLEAN
        /\ hearing' => allMessages'
        /\ nodeSubscriptions' \subseteq 1 .. starts' /\ subscriptionId' \in 0 .. starts'
        /\ fetching' \in [1 .. MaxHead -> Nat]
        /\ toNode' \in Seq(RequestType(starts'))
    BY <1>1 DEF HeadTypeOK, RequestType
  <2> QED BY <1>1, <1>9, <2>1, <2>2, <2>3, <2>4 DEF HeadTypeOK, RequestType, MessageType
<1>13. CancelInv'
  BY <1>1 DEF CancelInv
<1>14. AnnouncedTogether'
  <2> SUFFICES ASSUME NEW m \in DOMAIN toClient', NEW n \in DOMAIN toClient', m < n,
                      toClient'[m].kind = "head", toClient'[n].kind = "head",
                      toClient'[m].number = toClient'[n].number
               PROVE  /\ toClient'[m].subscription # toClient'[n].subscription
                      /\ \A j \in m .. n : toClient'[j].kind = "head"
    BY DEF AnnouncedTogether
  <2>0. m \in 1 .. Len(toClient) + c /\ n \in 1 .. Len(toClient) + c
    BY <1>9
  <2>1. CASE n \in DOMAIN toClient
    <3>1. m \in DOMAIN toClient /\ m .. n \subseteq DOMAIN toClient
      BY <1>2, <1>4, <2>0, <2>1
    <3>2. /\ toClient[m].subscription # toClient[n].subscription
          /\ \A j \in m .. n : toClient[j].kind = "head"
      BY <1>1, <1>2, <1>9, <2>1, <3>1 DEF AnnouncedTogether
    <3> QED BY <1>2, <1>9, <2>1, <3>1, <3>2
  <2>2. CASE n \notin DOMAIN toClient
    <3>1. toClient'[n].number = head + 1
      BY <1>10, <2>2
    <3>2. m \notin DOMAIN toClient
      BY <1>10, <1>11, <3>1
    <3>3. /\ m - Len(toClient) \in 1 .. c /\ n - Len(toClient) \in 1 .. c
          /\ toClient'[m].subscription = order[m - Len(toClient)]
          /\ toClient'[n].subscription = order[n - Len(toClient)]
      BY <1>10, <2>2, <3>2
    <3>4. toClient'[m].subscription # toClient'[n].subscription
      <4>1. m - Len(toClient) < n - Len(toClient)
        BY <1>2, <1>4, <2>0
      <4>2. order[m - Len(toClient)] < order[n - Len(toClient)]
        BY <1>3, <1>5, <3>3, <4>1
      <4>3. order[m - Len(toClient)] \in Nat /\ order[n - Len(toClient)] \in Nat
        BY <1>2, <1>5, <3>3
      <4> QED BY <3>3, <4>2, <4>3
    <3>5. \A j \in m .. n : j \in DOMAIN toClient' /\ j \notin DOMAIN toClient
      BY <1>2, <1>4, <1>9, <2>0, <3>2
    <3> QED BY <1>10, <3>4, <3>5
  <2> QED BY <2>1, <2>2
<1>15. FetchedOnce'
  <2> SUFFICES ASSUME NEW h \in 1 .. MaxHead
               PROVE  /\ fetching[h] <= 1
                      /\ fetching[h] > 0 => h \notin givenHeads
                      /\ fetching[h] > 0 \/ h \in givenHeads =>
                           \A n \in DOMAIN toClient' : toClient'[n].kind = "head" /\ toClient'[n].number = h =>
                             /\ toClient'[n].subscription # subscriptionId
                             /\ \A m \in 1 .. n : toClient'[m].kind = "result" =>
                                  toClient'[m].subscription # toClient'[n].subscription
    BY <1>1 DEF FetchedOnce
  <2>1. fetching[h] > 0 \/ h \in givenHeads => h # head + 1
    <3>1. (fetching[h] > 0 => h <= head) /\ givenHeads \subseteq 1 .. head
      BY <1>1 DEF HeadTypeOK
    <3>2. h \in Nat
      BY <1>2
    <3> QED BY <1>2, <3>1, <3>2
  <2>2. \A n \in DOMAIN toClient' : toClient'[n].number # head + 1 =>
          n \in DOMAIN toClient /\ \A m \in 1 .. n : m \in DOMAIN toClient
    BY <1>2, <1>10
  <2>3. \A n \in DOMAIN toClient : toClient'[n] = toClient[n]
    BY <1>2, <1>9
  <2> QED BY <1>1, <2>1, <2>2, <2>3 DEF FetchedOnce
<1>16. HeadsOnce'
  BY <1>1 DEF HeadsOnce
<1> QED
  BY <1>12, <1>13, <1>14, <1>15, <1>16 DEF HeadInv

(* A message arrives: while the first announcements of a head wait, all      *)
(* those of the head do, and no ID comes in between.                         *)
LEMMA MessageArrivesKeeps == HeadInv /\ MessageArrives => HeadInv'
<1> SUFFICES ASSUME HeadInv, MessageArrives PROVE HeadInv'
  OBVIOUS
<1> DEFINE msg == toClient[1]
<1>1. /\ HeadTypeOK /\ CancelInv /\ AnnouncedTogether /\ FetchedOnce /\ HeadsOnce
      /\ toClient # <<>> /\ toClient' = Tail(toClient)
      /\ UNCHANGED <<head, nodeSubscriptions, toNode, hearing, starts, allMessages, owedHeads, stoppedEarly,
                     givenHeads, givenTwice, headFaults>>
  BY DEF HeadInv, MessageArrives, nodeHeadVars, headListenerVars, headOutVars
<1>2. /\ head \in Nat /\ head <= MaxHead /\ MaxHead \in Nat /\ starts \in Nat
      /\ toClient \in Seq(MessageType(starts, head)) /\ Len(toClient) \in Nat
      /\ DOMAIN toClient = 1 .. Len(toClient)
      /\ \A n \in DOMAIN toClient : toClient[n] \in MessageType(starts, head)
  BY <1>1, HeadTypes
<1>3. /\ 1 \in DOMAIN toClient /\ Head(toClient) = msg
      /\ toClient' \in Seq(MessageType(starts, head)) /\ DOMAIN toClient' = 1 .. Len(toClient) - 1
      /\ \A n \in 1 .. Len(toClient) - 1 : toClient'[n] = toClient[n + 1]
  BY <1>1, <1>2
<1>4. /\ msg.kind \in {"head", "result"} /\ msg.subscription \in 1 .. starts
      /\ msg.kind = "head" => msg.number \in 1 .. head /\ msg.number \in 1 .. MaxHead
  <2>1. msg \in MessageType(starts, head)
    BY <1>2, <1>3
  <2>2. /\ msg.kind \in {"head", "result"} /\ msg.subscription \in 1 .. starts
        /\ msg.kind = "head" => msg.number \in 1 .. head
    BY <2>1 DEF MessageType
  <2>3. 1 .. head \subseteq 1 .. MaxHead
    BY <1>2
  <2> QED BY <2>2, <2>3
<1> DEFINE new == allMessages /\ msg.kind = "head" /\ msg.subscription = subscriptionId
<1>5. /\ subscriptionId' = IF allMessages /\ msg.kind = "result" THEN msg.subscription ELSE subscriptionId
      /\ fetching' = IF new THEN [fetching EXCEPT ![msg.number] = @ + 1] ELSE fetching
  BY <1>3, <1>4 DEF MessageArrives, OnMessage
<1> HIDE DEF msg
<1>6. ASSUME new PROVE msg.number \notin givenHeads /\ fetching[msg.number] = 0
  <2>1. msg.number \in 1 .. MaxHead /\ 1 \in DOMAIN toClient /\ toClient[1].kind = "head"
        /\ toClient[1].number = msg.number /\ toClient[1].subscription = subscriptionId
    BY <1>3, <1>4, <1>6 DEF msg
  <2>2. ~(fetching[msg.number] > 0 \/ msg.number \in givenHeads)
    BY <1>1, <2>1 DEF FetchedOnce
  <2>3. fetching[msg.number] \in Nat
    BY <1>1, <2>1 DEF HeadTypeOK
  <2> QED BY <2>2, <2>3
<1>7. /\ fetching' \in [1 .. MaxHead -> Nat]
      /\ \A h \in 1 .. MaxHead : IF new /\ h = msg.number THEN fetching'[h] = 1 ELSE fetching'[h] = fetching[h]
  <2>1. fetching \in [1 .. MaxHead -> Nat]
    BY <1>1 DEF HeadTypeOK
  <2>2. CASE new
    BY <1>4, <1>5, <1>6, <2>1, <2>2
  <2>3. CASE ~new
    BY <1>5, <2>1, <2>3
  <2> QED BY <2>2, <2>3
<1>8. HeadTypeOK'
  <2>1. \A h \in 1 .. MaxHead : fetching'[h] > 0 => h <= head
    <3>1. \A h \in 1 .. MaxHead : fetching[h] > 0 => h <= head
      BY <1>1 DEF HeadTypeOK
    <3>2. new => msg.number <= head
      BY <1>2, <1>4
    <3> QED BY <1>7, <3>1, <3>2
  <2>2. subscriptionId' \in 0 .. starts
    <3>1. subscriptionId \in 0 .. starts
      BY <1>1 DEF HeadTypeOK
    <3>2. msg.subscription \in 0 .. starts
      BY <1>2, <1>4
    <3> QED BY <1>5, <3>1, <3>2
  <2>3. hearing' \in BOOLEAN /\ allMessages' \in BOOLEAN /\ stoppedEarly' \in BOOLEAN
    BY <1>1 DEF HeadTypeOK
  <2> QED BY <1>1, <1>3, <1>7, <2>1, <2>2, <2>3 DEF HeadTypeOK, MessageType
<1>9. CancelInv'
  BY <1>1 DEF CancelInv
<1>10. \A n \in DOMAIN toClient' : n + 1 \in DOMAIN toClient /\ toClient'[n] = toClient[n + 1] /\ n \in Nat
  BY <1>2, <1>3
<1>11. AnnouncedTogether'
  <2> SUFFICES ASSUME NEW m \in DOMAIN toClient', NEW n \in DOMAIN toClient', m < n,
                      toClient'[m].kind = "head", toClient'[n].kind = "head",
                      toClient'[m].number = toClient'[n].number
               PROVE  /\ toClient'[m].subscription # toClient'[n].subscription
                      /\ \A j \in m .. n : toClient'[j].kind = "head"
    BY DEF AnnouncedTogether
  <2>1. m + 1 < n + 1
    BY <1>10
  <2>2. /\ toClient[m + 1].subscription # toClient[n + 1].subscription
        /\ \A j \in m + 1 .. n + 1 : toClient[j].kind = "head"
    BY <1>1, <1>10, <2>1 DEF AnnouncedTogether
  <2>3. \A j \in m .. n : j \in DOMAIN toClient' /\ j + 1 \in m + 1 .. n + 1
    BY <1>3, <1>10
  <2> QED BY <1>10, <2>2, <2>3
<1>12. FetchedOnce'
  <2> SUFFICES ASSUME NEW h \in 1 .. MaxHead
               PROVE  /\ fetching'[h] <= 1
                      /\ fetching'[h] > 0 => h \notin givenHeads
                      /\ fetching'[h] > 0 \/ h \in givenHeads =>
                           \A n \in DOMAIN toClient' : toClient'[n].kind = "head" /\ toClient'[n].number = h =>
                             /\ toClient'[n].subscription # subscriptionId'
                             /\ \A m \in 1 .. n : toClient'[m].kind = "result" =>
                                  toClient'[m].subscription # toClient'[n].subscription
    BY <1>1 DEF FetchedOnce
  <2>1. CASE new /\ h = msg.number
    <3>1. fetching'[h] = 1 /\ h \notin givenHeads /\ subscriptionId' = subscriptionId
      BY <1>5, <1>6, <1>7, <2>1
    <3>2. ASSUME NEW n \in DOMAIN toClient', toClient'[n].kind = "head", toClient'[n].number = h
          PROVE  /\ toClient'[n].subscription # subscriptionId
                 /\ \A m \in 1 .. n : toClient'[m].kind # "result"
      <4>1. /\ 1 < n + 1 /\ toClient[1].kind = "head" /\ toClient[1].number = h
            /\ toClient[1].subscription = subscriptionId
        BY <1>3, <1>10, <2>1 DEF msg
      <4>2. /\ toClient[1].subscription # toClient[n + 1].subscription
            /\ \A j \in 1 .. n + 1 : toClient[j].kind = "head"
        BY <1>1, <1>3, <1>10, <3>2, <4>1 DEF AnnouncedTogether
      <4>3. \A m \in 1 .. n : m \in DOMAIN toClient' /\ m + 1 \in 1 .. n + 1
        BY <1>3, <1>10
      <4> QED BY <1>10, <4>1, <4>2, <4>3
    <3> QED BY <3>1, <3>2
  <2>2. CASE ~(new /\ h = msg.number)
    <3>1. fetching'[h] = fetching[h]
      BY <1>7, <2>2
    <3>2. fetching[h] <= 1 /\ (fetching[h] > 0 => h \notin givenHeads)
      BY <1>1 DEF FetchedOnce
    <3>3. ASSUME fetching[h] > 0 \/ h \in givenHeads, NEW n \in DOMAIN toClient',
                 toClient'[n].kind = "head", toClient'[n].number = h
          PROVE  /\ toClient'[n].subscription # subscriptionId'
                 /\ \A m \in 1 .. n : toClient'[m].kind = "result" =>
                      toClient'[m].subscription # toClient'[n].subscription
      <4>1. /\ toClient[n + 1].subscription # subscriptionId
            /\ \A m \in 1 .. n + 1 : toClient[m].kind = "result" =>
                 toClient[m].subscription # toClient[n + 1].subscription
        BY <1>1, <1>10, <3>3 DEF FetchedOnce
      <4>2. 1 \in 1 .. n + 1 /\ \A m \in 1 .. n : m \in DOMAIN toClient' /\ m + 1 \in 1 .. n + 1
        BY <1>3, <1>10
      <4>3. toClient'[n].subscription # subscriptionId'
        BY <1>5, <1>10, <4>1, <4>2 DEF msg
      <4> QED BY <1>10, <4>1, <4>2, <4>3
    <3> QED BY <3>1, <3>2, <3>3
  <2> QED BY <2>1, <2>2
<1>13. HeadsOnce'
  BY <1>1 DEF HeadsOnce
<1> QED
  BY <1>8, <1>9, <1>11, <1>12, <1>13 DEF HeadInv

(* A fetch ends. *)
LEMMA FetchEnds ==
  ASSUME HeadTypeOK, FetchedOnce, NEW h \in 1 .. MaxHead, fetching[h] > 0,
         fetching' = [fetching EXCEPT ![h] = @ - 1]
  PROVE  /\ fetching' \in [1 .. MaxHead -> Nat] /\ fetching'[h] = 0 /\ h <= head /\ h \notin givenHeads
         /\ \A g \in 1 .. MaxHead : g # h => fetching'[g] = fetching[g]
<1>1. fetching \in [1 .. MaxHead -> Nat] /\ h <= head
  BY DEF HeadTypeOK
<1>2. fetching[h] <= 1 /\ h \notin givenHeads
  BY DEF FetchedOnce
<1>3. fetching[h] \in Nat /\ fetching[h] - 1 = 0
  BY <1>1, <1>2
<1> QED
  BY <1>1, <1>2, <1>3

(* A header arrives. *)
LEMMA HeadFetchedKeeps ==
  ASSUME HeadInv, NEW h \in 1 .. MaxHead, HeadFetched(h)
  PROVE  HeadInv'
<1>1. /\ HeadTypeOK /\ CancelInv /\ AnnouncedTogether /\ FetchedOnce /\ HeadsOnce
      /\ fetching[h] > 0 /\ fetching' = [fetching EXCEPT ![h] = @ - 1]
      /\ givenHeads' = (IF hearing THEN givenHeads \cup {h} ELSE givenHeads)
      /\ givenTwice' = (IF hearing THEN givenTwice \cup (givenHeads \cap {h}) ELSE givenTwice)
      /\ UNCHANGED <<head, nodeSubscriptions, toNode, toClient, hearing, starts, allMessages, owedHeads,
                     stoppedEarly, subscriptionId, headFaults>>
  BY DEF HeadInv, HeadFetched, nodeHeadVars, headListenerVars, socketVars
<1>2. /\ fetching' \in [1 .. MaxHead -> Nat] /\ fetching'[h] = 0 /\ h <= head /\ h \notin givenHeads
      /\ \A g \in 1 .. MaxHead : g # h => fetching'[g] = fetching[g]
  BY <1>1, FetchEnds
<1>3. HeadsOnce'
  BY <1>1, <1>2 DEF HeadsOnce
<1>4. HeadTypeOK'
  <2>1. h \in 1 .. head
    BY <1>1, <1>2, HeadTypes
  <2>2. givenHeads' \subseteq 1 .. head /\ givenTwice' \subseteq givenHeads'
    BY <1>1, <1>3, <2>1 DEF HeadTypeOK, HeadsOnce
  <2>3. \A g \in 1 .. MaxHead : fetching'[g] > 0 => g <= head
    BY <1>1, <1>2 DEF HeadTypeOK
  <2>4. hearing' \in BOOLEAN /\ allMessages' \in BOOLEAN /\ stoppedEarly' \in BOOLEAN
    BY <1>1 DEF HeadTypeOK
  <2> QED BY <1>1, <1>2, <2>2, <2>3, <2>4 DEF HeadTypeOK
<1>5. CancelInv'
  BY <1>1 DEF CancelInv
<1>6. AnnouncedTogether'
  BY <1>1 DEF AnnouncedTogether
<1>7. FetchedOnce'
  <2> SUFFICES ASSUME NEW g \in 1 .. MaxHead
               PROVE  /\ fetching'[g] <= 1
                      /\ fetching'[g] > 0 => g \notin givenHeads'
                      /\ fetching'[g] > 0 \/ g \in givenHeads' =>
                           \A n \in DOMAIN toClient : toClient[n].kind = "head" /\ toClient[n].number = g =>
                             /\ toClient[n].subscription # subscriptionId
                             /\ \A m \in 1 .. n : toClient[m].kind = "result" =>
                                  toClient[m].subscription # toClient[n].subscription
    BY <1>1 DEF FetchedOnce
  <2>1. fetching'[g] > 0 \/ g \in givenHeads' => fetching[g] > 0 \/ g \in givenHeads
    BY <1>1, <1>2
  <2>2. fetching'[g] <= 1 /\ (fetching'[g] > 0 => g \notin givenHeads')
    <3>1. CASE g = h
      BY <1>2, <3>1
    <3>2. CASE g # h
      BY <1>1, <1>2, <3>2 DEF FetchedOnce
    <3> QED BY <3>1, <3>2
  <2> QED BY <1>1, <2>1, <2>2 DEF FetchedOnce
<1> QED
  BY <1>3, <1>4, <1>5, <1>6, <1>7 DEF HeadInv

(* A header cannot be fetched. *)
LEMMA HeadFailsKeeps ==
  ASSUME HeadInv, NEW h \in 1 .. MaxHead, HeadFails(h)
  PROVE  HeadInv'
<1>1. /\ HeadTypeOK /\ CancelInv /\ AnnouncedTogether /\ FetchedOnce /\ HeadsOnce
      /\ fetching[h] > 0 /\ fetching' = [fetching EXCEPT ![h] = @ - 1]
      /\ headFaults < HeadFaults /\ headFaults' = headFaults + 1 /\ hearing' = FALSE
      /\ IF hearing THEN StopProducer ELSE UNCHANGED <<allMessages, stoppedEarly, toNode>>
      /\ UNCHANGED <<head, nodeSubscriptions, toClient, starts, owedHeads, subscriptionId, givenHeads, givenTwice>>
  BY DEF HeadInv, HeadFails, nodeHeadVars, headOutVars
<1>2. /\ fetching' \in [1 .. MaxHead -> Nat] /\ fetching'[h] = 0 /\ h <= head /\ h \notin givenHeads
      /\ \A g \in 1 .. MaxHead : g # h => fetching'[g] = fetching[g]
  BY <1>1, FetchEnds
<1>3. /\ CancelInv' /\ allMessages' \in BOOLEAN /\ stoppedEarly' \in BOOLEAN
      /\ toNode' \in Seq(RequestType(starts))
  <2>1. CASE hearing
    BY <1>1, <2>1, StopProducerCancels
  <2>2. CASE ~hearing
    <3>1. UNCHANGED <<allMessages, stoppedEarly, toNode>>
      BY <1>1, <2>2
    <3>2. CancelInv'
      BY <1>1, <3>1 DEF CancelInv
    <3>3. allMessages' \in BOOLEAN /\ stoppedEarly' \in BOOLEAN
      BY <1>1, <3>1 DEF HeadTypeOK
    <3> QED BY <1>1, <3>1, <3>2, <3>3, HeadTypes
  <2> QED BY <2>1, <2>2
<1>4. HeadTypeOK'
  <2>1. headFaults' \in 0 .. HeadFaults
    <3>1. headFaults \in 0 .. HeadFaults /\ HeadFaults \in Nat
      BY <1>1, NewHeadsAssumption DEF HeadTypeOK
    <3> QED BY <1>1, <3>1
  <2>2. \A g \in 1 .. MaxHead : fetching'[g] > 0 => g <= head
    BY <1>1, <1>2 DEF HeadTypeOK
  <2> QED BY <1>1, <1>2, <1>3, <2>1, <2>2 DEF HeadTypeOK, RequestType
<1>5. AnnouncedTogether' /\ HeadsOnce'
  BY <1>1 DEF AnnouncedTogether, HeadsOnce
<1>6. FetchedOnce'
  <2> SUFFICES ASSUME NEW g \in 1 .. MaxHead
               PROVE  /\ fetching'[g] <= 1
                      /\ fetching'[g] > 0 => g \notin givenHeads
                      /\ fetching'[g] > 0 \/ g \in givenHeads =>
                           \A n \in DOMAIN toClient : toClient[n].kind = "head" /\ toClient[n].number = g =>
                             /\ toClient[n].subscription # subscriptionId
                             /\ \A m \in 1 .. n : toClient[m].kind = "result" =>
                                  toClient[m].subscription # toClient[n].subscription
    BY <1>1 DEF FetchedOnce
  <2>1. CASE g = h
    BY <1>1, <1>2, <2>1 DEF FetchedOnce
  <2>2. CASE g # h
    BY <1>1, <1>2, <2>2 DEF FetchedOnce
  <2> QED BY <2>1, <2>2
<1> QED
  BY <1>3, <1>4, <1>5, <1>6 DEF HeadInv

(* Every step of the new heads keeps the invariant. *)
LEMMA HeadStep == HeadInv /\ [HeadNext]_headVars => HeadInv'
<1> SUFFICES ASSUME HeadInv, [HeadNext]_headVars PROVE HeadInv'
  OBVIOUS
<1>1. CASE HearHeads \/ LeaveHeads \/ StopHeads
  BY <1>1, HearHeadsKeeps, LeaveHeadsKeeps, StopHeadsKeeps
<1>2. CASE NodeTakesRequest \/ NodeAnnounces \/ MessageArrives
  BY <1>2, NodeTakesRequestKeeps, NodeAnnouncesKeeps, MessageArrivesKeeps
<1>3. ASSUME NEW h \in 1 .. MaxHead, HeadFetched(h) \/ HeadFails(h) PROVE HeadInv'
  BY <1>3, HeadFetchedKeeps, HeadFailsKeeps
<1>4. CASE UNCHANGED headVars
  <2>1. UNCHANGED <<head, nodeSubscriptions, toNode, toClient, hearing, starts, allMessages, owedHeads,
                    stoppedEarly, subscriptionId, fetching, givenHeads, givenTwice, headFaults>>
    BY <1>4 DEF headVars, nodeHeadVars, socketVars, headListenerVars, headOutVars
  <2>2. HeadTypeOK'
    BY <2>1 DEF HeadInv, HeadTypeOK
  <2>3. CancelInv' /\ AnnouncedTogether' /\ HeadsOnce'
    BY <2>1 DEF HeadInv, CancelInv, AnnouncedTogether, HeadsOnce
  <2>4. FetchedOnce'
    BY <2>1 DEF HeadInv, FetchedOnce
  <2> QED BY <2>2, <2>3, <2>4 DEF HeadInv
<1> QED
  BY <1>1, <1>2, <1>3, <1>4 DEF HeadNext

(* Nothing is left at the node once its queue is empty. *)
LEMMA HeadInvUnsubscribed == HeadInv => HeadsUnsubscribed
<1> SUFFICES ASSUME HeadInv, ~allMessages, ~stoppedEarly, toNode = <<>> PROVE nodeSubscriptions = {}
  BY DEF HeadsUnsubscribed
<1>1. DOMAIN toNode = {}
  OBVIOUS
<1> QED
  BY <1>1 DEF HeadInv, CancelInv

(* watchBlockHeaders() of Ethereum keeps well-formed state: subscriptions,   *)
(* requests and messages belong to a start, heads to the chain.              *)
THEOREM HeadTypeCorrect == HeadSpec => []HeadTypeOK
<1>1. HeadInv => HeadTypeOK
  BY DEF HeadInv
<1> QED
  BY <1>1, HeadInitially, HeadStep, PTL DEF HeadSpec

(* watchBlockHeaders() of Ethereum gives no head twice, for any number of    *)
(* starts, also those stopped before their subscription ID arrived: the      *)
(* subscriptions they leave at the node are announced the same heads.        *)
THEOREM HeadsGivenOnce == HeadSpec => []HeadsOnce
<1>1. HeadInv => HeadsOnce
  BY DEF HeadInv
<1> QED
  BY <1>1, HeadInitially, HeadStep, PTL DEF HeadSpec

(* The producer of watchBlockHeaders() cancels every subscription, if each   *)
(* start was stopped after its subscription ID had arrived.                  *)
THEOREM HeadsAlwaysUnsubscribed == HeadSpec => []HeadsUnsubscribed
  BY HeadInvUnsubscribed, HeadInitially, HeadStep, PTL DEF HeadSpec

=============================================================================
