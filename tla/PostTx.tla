------------------------------- MODULE PostTx -------------------------------
(***************************************************************************)
(* The BlockInfo that postTx() of the four connections returns, over       *)
(* DefaultValueProducer and ValueAndUpdates of iov-stream.                 *)
(*                                                                         *)
(* BNS waits for the transaction on a liveTx() stream and then counts      *)
(* block headers; Lisk, Ethereum and Cosmos Hub ask for the transaction    *)
(* every few seconds, whether or not the last question was answered.  The  *)
(* polling starts with the first listener of `updates` and stops, one turn *)
(* of the event loop late, when the last one has left.  waitFor() is a     *)
(* listener that leaves when it has seen what it looks for; here, that the *)
(* transaction is no longer pending.                                       *)
(***************************************************************************)
EXTENDS Naturals, FiniteSets

CONSTANTS
  PostHeight,   \* bound on the height of the chain
  Slots,        \* bound on the polls under way at a time
  PostFaults    \* bound on requests and streams that fail

ASSUME PostTxAssumption ==
  /\ PostHeight \in Nat \ {0}
  /\ IsFiniteSet(Slots)
  /\ PostFaults \in Nat

VARIABLES
  connection,   \* the kind of connection postTx() was called on
  posted,       \* the promise of postTx()
  height,       \* height of the chain
  tx,           \* the transaction: its height, 0 before, and its success
  value,        \* DefaultValueProducer.internalValue
  lastEventSent,
  listeners,    \* listeners of `updates`
  running,      \* the producer was started and not stopped
  wait,         \* the promise of waitFor()
  interval,     \* an interval timer runs
  calls,        \* calls[s]: a poll under way
  overlap,      \* a poll began while another one was under way
  liveTx,       \* the liveTx() subscription of BNS
  headers,      \* its block header subscription: the next header, or off
  faults

chainVars == <<connection, posted, height, tx>>
producerVars == <<value, lastEventSent, listeners, running, wait>>
pollVars == <<interval, calls, overlap>>
bnsVars == <<liveTx, headers>>
postVars == <<chainVars, producerVars, pollVars, bnsVars, faults>>

Pollers == {"lisk", "ethereum", "cosmoshub"}
Connection == {"bns"} \cup Pollers

Pending == [state |-> "pending"]
Succeeded(h, n) == [state |-> "succeeded", height |-> h, confirmations |-> n]
Failed(h) == [state |-> "failed", height |-> h]
NoEvent == [state |-> "none"]
BlockInfo ==
  {Pending} \cup {Succeeded(h, n) : h, n \in 1 .. PostHeight} \cup {Failed(h) : h \in 1 .. PostHeight}

IdleCall == [step |-> "idle", height |-> 0, confirmations |-> 0]

PostInit ==
  /\ connection = "none" /\ posted = "none"
  /\ height = 1 /\ tx = [height |-> 0, ok |-> TRUE]
  /\ value = Pending /\ lastEventSent = NoEvent
  /\ listeners = {} /\ running = FALSE /\ wait = "none"
  /\ interval = FALSE /\ calls = [s \in Slots |-> IdleCall] /\ overlap = FALSE
  /\ liveTx = "off" /\ headers = [state |-> "off", next |-> 0]
  /\ faults = 0

(* postTx(): the node takes the transaction, or the promise is rejected.    *)
(* Only BNS has its first event count as sent.                              *)
CallPostTx(c) ==
  /\ posted = "none"
  /\ connection' = c
  /\ posted' \in {"resolved", "rejected"}
  /\ lastEventSent' = IF c = "bns" THEN Pending ELSE NoEvent
  /\ UNCHANGED <<height, tx, value, listeners, running, wait, pollVars, bnsVars, faults>>

(* A block, with the transaction or without.  Lisk has no transactions in   *)
(* its blocks that fail.                                                    *)
NewBlock ==
  /\ posted = "resolved"
  /\ height < PostHeight
  /\ height' = height + 1
  /\ tx' \in {tx} \cup (IF tx.height > 0 THEN {}
                        ELSE [height : {height + 1}, ok : IF connection = "lisk" THEN {TRUE} ELSE BOOLEAN])
  /\ UNCHANGED <<connection, posted, producerVars, pollVars, bnsVars, faults>>
-----------------------------------------------------------------------------
(* Mutant: waitFor() looks at updates only, not at the present value. *)
WaitSeesMutant(v, at) ==
  IF at = "waitFor" /\ v.state # "pending" /\ wait = "pending" THEN "resolved"
  ELSE IF at = "waitFor" /\ wait = "none" THEN "pending" ELSE wait

(* What waitFor() makes of an event: its promise after it. *)
WaitSees(v, at) ==
  IF at = "waitFor" /\ v.state # "pending" /\ wait \in {"none", "pending"} THEN "resolved"
  ELSE IF at = "waitFor" /\ wait = "none" THEN "pending" ELSE wait

(* start(): the listener is given the value, then onStarted. *)
OnStarted ==
  /\ interval' = (connection \in Pollers)
  /\ liveTx' = IF connection = "bns" THEN "on" ELSE liveTx
  /\ UNCHANGED value

(* updates.subscribe() of a user or of waitFor(): the first listener starts *)
(* the producer unless it is only about to be stopped.                      *)
Subscribe(l) ==
  /\ posted = "resolved"
  /\ l \notin listeners
  /\ l = "waitFor" => wait = "none"
  /\ listeners' = listeners \cup {l}
  /\ wait' = WaitSees(value, l)
  /\ IF running THEN UNCHANGED <<running, interval, liveTx, value>>
                ELSE running' = TRUE /\ OnStarted
  /\ UNCHANGED <<chainVars, lastEventSent, calls, overlap, headers, faults>>

(* A user leaves, or waitFor() does in a timeout after it has resolved. *)
Unsubscribe(l) ==
  /\ l \in listeners
  /\ l = "waitFor" => wait = "resolved"
  /\ listeners' = listeners \ {l}
  /\ UNCHANGED <<chainVars, value, lastEventSent, running, wait, pollVars, bnsVars, faults>>

(* Mutant: the header subscription is forgotten. *)
OnStopMutant ==
  /\ interval' = FALSE
  /\ liveTx' = "off"
  /\ UNCHANGED headers

OnStop ==
  /\ interval' = FALSE
  /\ liveTx' = "off"
  /\ headers' = [state |-> "off", next |-> 0]

(* The stream stops its producer when nobody has come back. *)
StopNow ==
  /\ running
  /\ listeners = {}
  /\ running' = FALSE
  /\ OnStop
  /\ UNCHANGED <<chainVars, value, lastEventSent, listeners, wait, calls, overlap, faults>>

(* update(): the listeners there are get the event. *)
Update(v) ==
  /\ value' = v
  /\ wait' = IF "waitFor" \in listeners THEN WaitSees(v, "waitFor") ELSE wait
  /\ lastEventSent' = v
  /\ UNCHANGED <<listeners, running>>

UpdateUnlessEqual(v) == IF v = lastEventSent THEN UNCHANGED producerVars ELSE Update(v)
-----------------------------------------------------------------------------
(* The interval timer fires: a poll begins. *)
Tick(s) ==
  /\ interval
  /\ calls[s].step = "idle"
  /\ calls' = [calls EXCEPT ![s].step = "search"]
  /\ overlap' = \E t \in Slots : calls[t].step # "idle"
  /\ UNCHANGED <<chainVars, producerVars, interval, bnsVars, faults>>

Depth == height - tx.height + 1

(* The node answers the search.  An empty answer ends the poll.  Ethereum   *)
(* and Cosmos Hub ask a second question, the height or the sender's nonce.  *)
NodeAnswersSearch(s) ==
  /\ calls[s].step = "search"
  /\ calls' = [calls EXCEPT ![s] =
                 IF tx.height = 0 THEN IdleCall
                 ELSE IF connection = "lisk"
                 THEN [step |-> "answered", height |-> tx.height, confirmations |-> Depth]
                 ELSE [step |-> "second", height |-> tx.height, confirmations |-> 0]]
  /\ UNCHANGED <<chainVars, producerVars, interval, overlap, bnsVars, faults>>

(* Ethereum: the height now, less the height of the transaction, plus one.  *)
(* Cosmos Hub gives parseTxsResponse() the height of the response for the   *)
(* current height.                                                          *)
SecondAnswer(h) == IF connection = "ethereum" THEN height - h + 1 ELSE (h - h) + 1

NodeAnswersSecond(s) ==
  /\ calls[s].step = "second"
  /\ calls' = [calls EXCEPT ![s].step = "answered", ![s].confirmations = SecondAnswer(calls[s].height)]
  /\ UNCHANGED <<chainVars, producerVars, interval, overlap, bnsVars, faults>>

(* The answer reaches the poll, after later ones perhaps. *)
PollEnds(s) ==
  /\ calls[s].step = "answered"
  /\ calls' = [calls EXCEPT ![s] = IdleCall]
  /\ LET event == Succeeded(calls[s].height, calls[s].confirmations)
     IN IF connection = "ethereum"
        THEN /\ value' = event
             /\ wait' = IF "waitFor" \in listeners THEN WaitSees(event, "waitFor") ELSE wait
             /\ UNCHANGED <<lastEventSent, listeners, running>>
        ELSE UpdateUnlessEqual(event)
  /\ UNCHANGED <<chainVars, interval, overlap, bnsVars, faults>>

(* A request fails, or is never answered because its connection was lost:   *)
(* the rejection of the interval's callback is not handled, the next poll   *)
(* is tried all the same.                                                   *)
PollFails(s) ==
  /\ calls[s].step # "idle"
  /\ faults < PostFaults
  /\ faults' = faults + 1
  /\ calls' = [calls EXCEPT ![s] = IdleCall]
  /\ UNCHANGED <<chainVars, producerVars, interval, overlap, bnsVars>>
-----------------------------------------------------------------------------
(* Mutant: a transaction that failed is not told from one that succeeded. *)
LiveTxEmitsMutant ==
  /\ liveTx = "on"
  /\ tx.height > 0
  /\ liveTx' = "done"
  /\ Update(Succeeded(tx.height, 1)) /\ headers' = [headers EXCEPT !.state = "asked"]
  /\ UNCHANGED <<chainVars, pollVars, faults>>

(* BNS: the transaction, by search or by subscription.  The headers are     *)
(* subscribed to when it has succeeded.                                     *)
LiveTxEmits ==
  /\ liveTx = "on"
  /\ tx.height > 0
  /\ liveTx' = "done"
  /\ \/ tx.ok /\ Update(Succeeded(tx.height, 1)) /\ headers' = [headers EXCEPT !.state = "asked"]
     \/ ~tx.ok /\ Update(Failed(tx.height)) /\ UNCHANGED headers
  /\ UNCHANGED <<chainVars, pollVars, faults>>

NodeSubscribesHeaders ==
  /\ headers.state = "asked"
  /\ headers' = [state |-> "on", next |-> height + 1]
  /\ UNCHANGED <<chainVars, producerVars, pollVars, liveTx, faults>>

(* Mutant: headers are handled in any order. *)
HeaderArrivesMutant ==
  /\ headers.state = "on"
  /\ \E h \in headers.next .. height : UpdateUnlessEqual(Succeeded(tx.height, h - tx.height + 1))
  /\ UNCHANGED <<chainVars, pollVars, bnsVars, faults>>

HeaderArrives ==
  /\ headers.state = "on"
  /\ headers.next <= height
  /\ headers' = [headers EXCEPT !.next = @ + 1]
  /\ UpdateUnlessEqual(Succeeded(tx.height, headers.next - tx.height + 1))
  /\ UNCHANGED <<chainVars, pollVars, liveTx, faults>>

(* One of the two streams fails, or the headers end: error() fails the      *)
(* stream of the listeners, which stops the producer.  With no listener the *)
(* error goes nowhere and the subscription that failed is dead.             *)
BnsStreamFails ==
  /\ liveTx \in {"on", "done"}
  /\ faults < PostFaults
  /\ faults' = faults + 1
  /\ IF listeners = {}
     THEN /\ \/ liveTx' = "dead" /\ UNCHANGED headers
             \/ headers.state # "off" /\ headers' = [headers EXCEPT !.state = "off"] /\ UNCHANGED liveTx
          /\ UNCHANGED <<listeners, running, wait, interval>>
     ELSE /\ listeners' = {}
          /\ running' = FALSE
          /\ wait' = IF wait = "pending" THEN "rejected" ELSE wait
          /\ OnStop
  /\ UNCHANGED <<chainVars, value, lastEventSent, calls, overlap>>
-----------------------------------------------------------------------------
PostNext ==
  \/ \E c \in Connection : CallPostTx(c)
  \/ NewBlock
  \/ \E l \in {"user", "waitFor"} : Subscribe(l) \/ Unsubscribe(l)
  \/ StopNow
  \/ \E s \in Slots :
       Tick(s) \/ NodeAnswersSearch(s) \/ NodeAnswersSecond(s) \/ PollEnds(s) \/ PollFails(s)
  \/ LiveTxEmits
  \/ NodeSubscribesHeaders
  \/ HeaderArrives
  \/ BnsStreamFails

PostSpec == PostInit /\ [][PostNext]_postVars

(* Timers fire and polls are answered, but for PostFaults of them.  liveTx() *)
(* need not emit the transaction: it misses one that is written between its *)
(* search and its subscription (PromisedIsEmitted of LiveTx excludes it).   *)
(* Nobody has to listen or to leave, and no block has to come.              *)
PostFairness ==
  /\ WF_postVars(\E s \in Slots : Tick(s))
  /\ \A s \in Slots : WF_postVars(NodeAnswersSearch(s) \/ NodeAnswersSecond(s) \/ PollEnds(s))
-----------------------------------------------------------------------------
(* Types: the transaction is in the chain, what was answered fits it. *)
PostTypeOK ==
  /\ connection \in Connection \cup {"none"}
  /\ posted \in {"none", "resolved", "rejected"}
  /\ height \in 1 .. PostHeight
  /\ tx \in [height : 0 .. height, ok : BOOLEAN]
  /\ value \in BlockInfo /\ lastEventSent \in BlockInfo \cup {NoEvent}
  /\ listeners \subseteq {"user", "waitFor"}
  /\ running \in BOOLEAN /\ interval \in BOOLEAN /\ overlap \in BOOLEAN
  /\ wait \in {"none", "pending", "resolved", "rejected"}
  /\ calls \in [Slots -> [step : {"idle", "search", "second", "answered"},
                          height : 0 .. height, confirmations : 0 .. height]]
  /\ liveTx \in {"off", "on", "done", "dead"}
  /\ headers \in [state : {"off", "asked", "on"}, next : 0 .. height + 1]
  /\ faults \in 0 .. PostFaults

(* "depth of the transaction's block, starting at 1" (connection.ts:74):    *)
(* whatever was answered and however late, the height reported is the       *)
(* transaction's, it is not reported deeper than it is, and a transaction   *)
(* that succeeded is never reported as failed.  On BNS one that failed is   *)
(* not reported as succeeded either; on the others see FailureIsReported.   *)
ReportIsTrue ==
  /\ value.state # "pending" => tx.height > 0 /\ value.height = tx.height
  /\ value.state = "succeeded" => value.confirmations \in 1 .. Depth
  /\ value.state = "failed" => ~tx.ok
  /\ connection = "bns" /\ value.state = "succeeded" => tx.ok

(* "executing the transaction failed" (connection.ts:62) is a state of its  *)
(* own: Succeeded is for transactions that were executed successfully.      *)
(* Ethereum and Cosmos Hub do not ask for the outcome.                      *)
FailureIsReported == value.state = "succeeded" => tx.ok

(* When the last listener has gone nothing is left behind: no timer and no  *)
(* subscription, also after a failure and after a listener that came back   *)
(* just before the producer was stopped.                                    *)
StopReleases ==
  ~running => ~interval /\ liveTx = "off" /\ headers.state = "off" /\ listeners = {}

(* A transaction that was seen in a block is not reported as pending again, *)
(* nor in another state or at another height, whoever listens when; and the *)
(* confirmations do not go back while answers come before the next poll and *)
(* the BNS listener has not just come back.                                 *)
ReportAdvances ==
  [][value.state # "pending" =>
       /\ value'.state = value.state /\ value'.height = value.height
       /\ value.state = "succeeded" /\ ~overlap /\ liveTx # "on" =>
            value'.confirmations >= value.confirmations]_postVars

(* waitFor(): once the transaction is in a block the promise is settled,    *)
(* although polls fail and overlap and other listeners come and go.  Only a *)
(* liveTx() stream of BNS that has not emitted the transaction, or that     *)
(* failed in the moment nobody listened, can leave it pending.              *)
WaitIsSettled ==
  <>[](tx.height > 0 /\ wait = "pending" => connection = "bns" /\ liveTx \in {"on", "dead"})
=============================================================================
