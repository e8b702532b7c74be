------------------------------- MODULE LiveTx -------------------------------
(***************************************************************************)
(* BnsConnection.liveTx(): a search for the transactions that are in the   *)
(* chain, followed by a subscription to new ones.                          *)
(*                                                                         *)
(* The requests and the messages of the Tendermint node are two queues, as *)
(* WebsocketClient keeps them on one connection; the node handles requests *)
(* in their order while blocks are committed at any time.  The search is   *)
(* txSearchAll(), which asks for one page after the other, followed by a   *)
(* status request; its results go through fromListPromise, concat and      *)
(* dropDuplicates.  A transaction is named by its position in the chain.   *)
(***************************************************************************)
EXTENDS StreamOperators, TxSearch

CONSTANTS
  MaxChain,     \* bound on the matching transactions of the chain
  Before,       \* those committed before liveTx() is called, at most
  Ranks         \* possible orders of the node's results

ASSUME LiveTxAssumption ==
  /\ MaxChain \in Nat
  /\ Before \in 0 .. MaxChain
  /\ Ranks \subseteq [1 .. MaxChain -> 1 .. MaxChain]

VARIABLES
  rank,         \* rank[t]: place of t in the node's order of a whole chain
  committed,    \* number of matching transactions committed
  requests,     \* requests the node has not handled
  messages,     \* messages the client has not received
  subscribed,   \* the node has handled the subscription
  search,       \* the searchTx promise
  history,      \* the listener has been given the search results
  concat,       \* the concatenation of search results and updates
  emitted,      \* what the listener of liveTx() was given
  promised      \* transactions that must reach the listener

nodeVars == <<rank, committed, requests, messages, subscribed>>
liveVars == <<nodeVars, search, history, concat, emitted, promised>>

LiveTxs == 1 .. MaxChain
Committed == 1 .. committed

LiveInit ==
  /\ rank \in Ranks
  /\ committed \in 0 .. Before
  /\ requests = <<>>
  /\ messages = <<>>
  /\ subscribed = FALSE
  /\ search = [state |-> "none", page |-> 0, txs |-> <<>>]
  /\ history = FALSE
  /\ concat = [NewConcat(2) EXCEPT !.status = "stopped"]
  /\ emitted = <<>>
  /\ promised = {}

(* The stream passes values on to the listener through dropDuplicates.     *)
Deliver(c) ==
  /\ concat' = c
  /\ emitted' = emitted \o DropDuplicates(emitted, SubSeq(concat'.out, Len(concat.out) + 1, Len(concat'.out)))
-----------------------------------------------------------------------------
(* liveTx() calls searchTx(), which asks for the first page at once.       *)
CallLiveTx ==
  /\ search.state = "none"
  /\ search' = [state |-> "searching", page |-> 1, txs |-> <<>>]
  /\ requests' = Append(requests, [kind |-> "search", page |-> 1])
  /\ promised' = Committed
  /\ UNCHANGED <<rank, committed, messages, subscribed, history, concat, emitted>>

(* A listener comes: concat subscribes to both streams, the second of which *)
(* asks the node for a subscription.                                       *)
ListenLive ==
  /\ search.state # "none"
  /\ concat.status = "stopped"
  /\ concat' = NewConcat(2)
  /\ requests' = Append(requests, [kind |-> "subscribe"])
  /\ UNCHANGED <<rank, committed, messages, subscribed, search, history, emitted, promised>>

(* The search promise is settled and somebody listens: fromListPromise     *)
(* emits its elements and completes, or fails.                             *)
DeliverHistory ==
  /\ concat.status = "running"
  /\ ~history
  /\ search.state \in {"resolved", "rejected"}
  /\ history' = TRUE
  /\ Deliver(IF search.state = "resolved" THEN EmitListPromise(concat, 1, search.txs)
                                          ELSE ConcatError(concat))
  /\ UNCHANGED <<nodeVars, search, promised>>

(* Transactions ordered by their places, equal ones as they come.          *)
ByPlace(txs, place) ==
  FlattenSeq([p \in 1 .. MaxChain |-> Those(txs, {t \in 1 .. MaxChain : place[t] = p})])

(* Array.sort by height, which keeps the order of equal elements.          *)
SortByHeight(txs) == ByPlace(txs, [t \in 1 .. MaxChain |-> t])

(* Mutant: the last page is taken for complete one transaction too early.  *)
ReceivePageMutant(m) ==
  LET txs == search.txs \o m.txs
  IN IF Len(txs) + 1 < m.totalCount
     THEN /\ search' = [search EXCEPT !.txs = txs, !.page = @ + 1]
          /\ requests' = Append(requests, [kind |-> "search", page |-> search.page + 1])
     ELSE /\ search' = [search EXCEPT !.txs = SortByHeight(txs)]
          /\ requests' = Append(requests, [kind |-> "status"])

(* The loop of txSearchAll: another page while fewer transactions than the *)
(* node reports were received, then the sort and searchTx's height().      *)
ReceivePage(m) ==
  LET txs == search.txs \o m.txs
  IN IF Len(txs) < m.totalCount
     THEN /\ search' = [search EXCEPT !.txs = txs, !.page = @ + 1]
          /\ requests' = Append(requests, [kind |-> "search", page |-> search.page + 1])
     ELSE /\ search' = [search EXCEPT !.txs = SortByHeight(txs)]
          /\ requests' = Append(requests, [kind |-> "status"])

Receive ==
  /\ messages # <<>>
  /\ messages' = Tail(messages)
  /\ LET m == Head(messages)
     IN \/ m.kind = "page" /\ ReceivePage(m) /\ UNCHANGED <<concat, emitted>>
        \/ /\ m.kind \in {"status", "error"}
           /\ search' = [search EXCEPT !.state = IF m.kind = "status" THEN "resolved" ELSE "rejected"]
           /\ UNCHANGED <<requests, concat, emitted>>
        \/ /\ m.kind = "tx"
           /\ IF concat.status = "running" THEN Deliver(ConcatNext(concat, 2, m.tx))
                                           ELSE UNCHANGED <<concat, emitted>>
           /\ UNCHANGED <<requests, search>>
  /\ UNCHANGED <<rank, committed, subscribed, history, promised>>
-----------------------------------------------------------------------------
(* The node: results of tx_search in its own order, cut into pages.        *)
Results == ByPlace([t \in Committed |-> t], rank)

Page(p) == [kind |-> "page", totalCount |-> Len(Results), txs |-> PageOf(Results, p)]

NodeHandles ==
  /\ requests # <<>>
  /\ requests' = Tail(requests)
  /\ LET r == Head(requests)
     IN \/ r.kind = "search" /\ messages' = Append(messages, Page(r.page)) /\ UNCHANGED subscribed
        \/ r.kind = "status" /\ messages' = Append(messages, r) /\ UNCHANGED subscribed
        \/ r.kind = "subscribe" /\ subscribed' = TRUE /\ UNCHANGED messages
        \/ /\ r.kind \in {"search", "status"}
           /\ messages' = Append(messages, [kind |-> "error"])
           /\ UNCHANGED subscribed
  /\ UNCHANGED <<rank, committed, search, history, concat, emitted, promised>>

NodeCommits ==
  /\ committed < MaxChain
  /\ committed' = committed + 1
  /\ messages' = IF subscribed THEN Append(messages, [kind |-> "tx", tx |-> committed + 1]) ELSE messages
  /\ promised' = IF subscribed THEN promised \cup {committed + 1} ELSE promised
  /\ UNCHANGED <<rank, requests, subscribed, search, history, concat, emitted>>
-----------------------------------------------------------------------------
LiveNext ==
  \/ CallLiveTx
  \/ ListenLive
  \/ DeliverHistory
  \/ Receive
  \/ NodeHandles
  \/ NodeCommits

LiveSpec == LiveInit /\ [][LiveNext]_liveVars

(* The node answers, messages arrive, promises that are settled run their  *)
(* callbacks.  Nobody has to call, to listen or to commit a block.         *)
LiveFairness ==
  WF_liveVars(NodeHandles) /\ WF_liveVars(Receive) /\ WF_liveVars(DeliverHistory)
-----------------------------------------------------------------------------
LiveRequest == [kind : {"search"}, page : Nat \ {0}] \cup [kind : {"status", "subscribe"}]

LiveMessage ==
  [kind : {"page"}, totalCount : Nat, txs : Seq(LiveTxs)] \cup [kind : {"status", "error"}]
    \cup [kind : {"tx"}, tx : LiveTxs]

(* Types: what the queues hold and what the search has collected.          *)
LiveTypeOK ==
  /\ rank \in Ranks
  /\ committed \in 0 .. MaxChain
  /\ requests \in Seq(LiveRequest)
  /\ messages \in Seq(LiveMessage)
  /\ subscribed \in BOOLEAN
  /\ search \in [state : {"none", "searching", "resolved", "rejected"}, page : Nat, txs : Seq(LiveTxs)]
  /\ history \in BOOLEAN
  /\ concat \in [queues : [1 .. 2 -> Seq(LiveTxs)], completed : SUBSET (1 .. 2), active : 1 .. 2,
                 out : Seq(LiveTxs), status : {"stopped", "running", "failed"}]
  /\ emitted \in Seq(LiveTxs)
  /\ promised \subseteq Committed

(* A transaction is given to the listener once, although it may be in two  *)
(* pages of the search and in an update; and from a node that orders       *)
(* results by height, in the order of the chain, although updates arrive   *)
(* before the search has ended.                                            *)
EmittedOnceInOrder ==
  /\ IsInjective(emitted)
  /\ (\A t \in 1 .. MaxChain : rank[t] = t) =>
       \A m, n \in DOMAIN emitted : m < n => emitted[m] < emitted[n]

(* A transaction that was in the chain when liveTx() was called, or was     *)
(* committed with the subscription in place, reaches the listener: when no  *)
(* more blocks come, a listener whose stream has not failed has them all.   *)
PromisedIsEmitted == <>[](concat.status = "running" => promised \subseteq ToSet(emitted))

(* "It returns a stream starting the array of all existing transactions and *)
(* then continuing with live feeds": once a listener has the history and   *)
(* everything sent was received, it has every transaction of the chain.    *)
NothingIsMissed ==
  concat.status = "running" /\ history /\ requests = <<>> /\ messages = <<>> =>
    ToSet(emitted) = Committed
=============================================================================
