---------------------------- MODULE AtomicSwaps ----------------------------
(***************************************************************************)
(* AtomicSwapMerger of iov-bcp and the two users of it in BnsConnection,   *)
(* watchSwaps() and getSwaps().                                            *)
(*                                                                         *)
(* The chain is the sequence of confirmed transactions on swaps that match *)
(* the query.  An offer sets the key of the query; a claim or abort sets   *)
(* or deletes it ("setTxs may be a claim/abort, delTxs must be").  The two *)
(* live streams of watchSwaps(), for keys set and keys deleted, deliver    *)
(* the transactions in the order of the chain, each at its own pace; the   *)
(* two searches of getSwaps() happen one after the other, each page by     *)
(* page from a node that orders results as it likes, while the chain goes  *)
(* on.                                                                     *)
(***************************************************************************)
EXTENDS Naturals, Sequences, SequencesExt, Sublists, TxSearch

CONSTANT Swap

VARIABLES
  chain,        \* confirmed transactions
  merger,       \* AtomicSwapMerger of watchSwaps()
  taken,        \* taken[tag]: how far in the chain each live stream has come
  out,          \* out[w]: states of swap w that watchSwaps() has emitted
  failed,       \* process() threw and the stream has failed
  query         \* a getSwaps() call

swapVars == <<chain, merger, taken, out, failed, query>>

Tag == {"set", "del"}
Settled == {"claimed", "aborted"}
Event ==
  [swap : Swap, kind : {"open"}, tag : {"set"}] \cup [swap : Swap, kind : Settled, tag : Tag]

(* What process() makes of a swap: the state returned, undefined or throw. *)
Result == {"open", "undefined", "throw"} \cup Settled
-----------------------------------------------------------------------------
NewMerger == [open |-> {}, settling |-> {}]

SettlingFor(m, w) == {s \in m.settling : s.swap = w}

ProcessOpen(m, e) ==
  IF SettlingFor(m, e.swap) # {}
  THEN [merger |-> [m EXCEPT !.settling = @ \ SettlingFor(m, e.swap)],
        result |-> (CHOOSE s \in SettlingFor(m, e.swap) : TRUE).kind]
  ELSE IF e.swap \in m.open THEN [merger |-> m, result |-> "throw"]
  ELSE [merger |-> [m EXCEPT !.open = @ \cup {e.swap}], result |-> "open"]

(* Mutant: a claim or abort that comes before its offer is forgotten.      *)
ProcessSettlingMutant(m, e) ==
  IF e.swap \in m.open
  THEN [merger |-> [m EXCEPT !.open = @ \ {e.swap}], result |-> e.kind]
  ELSE [merger |-> m, result |-> "undefined"]

ProcessSettling(m, e) ==
  IF e.swap \in m.open
  THEN [merger |-> [m EXCEPT !.open = @ \ {e.swap}], result |-> e.kind]
  ELSE IF SettlingFor(m, e.swap) # {} THEN [merger |-> m, result |-> "throw"]
  ELSE [merger |-> [m EXCEPT !.settling = @ \cup {[swap |-> e.swap, kind |-> e.kind]}],
        result |-> "undefined"]

process(m, e) == IF e.kind = "open" THEN ProcessOpen(m, e) ELSE ProcessSettling(m, e)

(* The transactions whose tag a search or a live stream asks for.          *)
Tagged(txs, tag) == Those(txs, {e \in Event : e.tag = tag})
-----------------------------------------------------------------------------
(* A getSwaps() call.  A step "set" or "del" is the search for that tag;     *)
(* then found has the node's results, in its order, page is the page to     *)
(* ask for and txs what the pages before it had.                            *)
NoQuery ==
  [step |-> "none", found |-> <<>>, page |-> 1, txs |-> <<>>,
   setTxs |-> <<>>,                           \* result of the first search
   start |-> 0, end |-> 0,                    \* history: where the chain ended at the call and at its end
   moved |-> FALSE,                           \* history: results have moved behind a page that was read
   result |-> [w \in Swap |-> "undefined"]]

SwapInit ==
  /\ chain = <<>>
  /\ merger = NewMerger
  /\ taken = [t \in Tag |-> 0]
  /\ out = [w \in Swap |-> <<>>]
  /\ failed = FALSE
  /\ query = NoQuery

(* The state of a swap after the first n transactions of the chain.        *)
StateAt(w, n) ==
  LET of == {i \in 1 .. n : chain[i].swap = w}
  IN IF of = {} THEN "undefined" ELSE chain[Max(of)].kind

(* A new transaction takes its place among the results of a search that is *)
(* under way, wherever the node's order has it.                            *)
JoinResults(e) ==
  IF query.step = e.tag
  THEN \E k \in 0 .. Len(query.found) :
         query' = [query EXCEPT !.found = InsertAt(@, k + 1, e),
                                !.moved = @ \/ k < (query.page - 1) * PerPage]
  ELSE UNCHANGED query

(* The chain accepts an offer once and one claim or abort of an open swap. *)
Confirm(e) ==
  /\ IF e.kind = "open" THEN StateAt(e.swap, Len(chain)) = "undefined"
                        ELSE StateAt(e.swap, Len(chain)) = "open"
  /\ chain' = Append(chain, e)
  /\ JoinResults(e)
  /\ UNCHANGED <<merger, taken, out, failed>>

(* The transactions that are next in one of the live streams.              *)
NextTagged(tag) ==
  {n \in taken[tag] + 1 .. Len(chain) :
     chain[n].tag = tag /\ \A m \in taken[tag] + 1 .. n - 1 : chain[m].tag # tag}

(* One of the merged streams emits its next transaction.                   *)
WatchEvent(tag) ==
  /\ ~failed
  /\ \E n \in NextTagged(tag) :
       LET e == chain[n]
           p == process(merger, e)
       IN /\ merger' = p.merger
          /\ failed' = (p.result = "throw")
          /\ out' = IF p.result \in {"throw", "undefined"} THEN out
                    ELSE [out EXCEPT ![e.swap] = Append(@, p.result)]
          /\ taken' = [taken EXCEPT ![tag] = n]
  /\ UNCHANGED <<chain, query>>

(* The orders in which a node may have the results of a search.            *)
Orders(txs) == {s \in [DOMAIN txs -> ToSet(txs)] : IsInjective(s) /\ ToSet(s) = ToSet(txs)}

(* getSwaps() begins with the search for keys set.  One call is followed.  *)
GetSwaps ==
  /\ query.step = "none"
  /\ \E order \in Orders(Tagged(chain, "set")) :
       query' = [NoQuery EXCEPT !.step = "set", !.found = order, !.start = Len(chain)]
  /\ UNCHANGED <<chain, merger, taken, out, failed>>

(* txs.sort() by height. *)
ByBlock(txs) == FlattenSeq([n \in DOMAIN chain |-> Those(txs, {chain[n]})])

(* Mutant: only the deletions are taken for claims and aborts.             *)
ReleasesMutant(setTxs, delTxs) == delTxs

(* Claims and aborts among both search results, setTxs first.              *)
Releases(setTxs, delTxs) == Those(setTxs, {e \in Event : e.kind # "open"}) \o delTxs

(* A merger of its own processes the offers, then the releases: the states *)
(* returned last, the open swaps among them being openSwaps(), and whether *)
(* process() threw.                                                        *)
MergeNone == [merger |-> NewMerger, states |-> [w \in Swap |-> "undefined"], threw |-> FALSE]

MergeOne(acc, e) ==
  LET p == process(acc.merger, e)
  IN [merger |-> p.merger,
      states |-> [acc.states EXCEPT ![e.swap] = IF p.result = "undefined" THEN @ ELSE p.result],
      threw |-> acc.threw \/ p.result = "throw"]

MergeAll(events) ==
  LET merged[n \in 0 .. Len(events)] == IF n = 0 THEN MergeNone ELSE MergeOne(merged[n - 1], events[n])
  IN merged[Len(events)]

(* What getSwaps() does with the result of a search: the next search, or   *)
(* the merge.                                                              *)
Searched(txs) ==
  \/ /\ query.step = "set"
     /\ \E order \in Orders(Tagged(chain, "del")) :
          query' = [query EXCEPT !.step = "del", !.setTxs = txs, !.found = order, !.page = 1, !.txs = <<>>]
  \/ /\ query.step = "del"
     /\ LET offers == Those(query.setTxs, {e \in Event : e.kind = "open"})
            merged == MergeAll(offers \o Releases(query.setTxs, txs))
        IN query' = [NoQuery EXCEPT !.step = IF merged.threw THEN "rejected" ELSE "done",
                       !.start = query.start, !.end = Len(chain), !.moved = query.moved,
                       !.result = merged.states]

(* One page of txSearchAll(): another one while fewer transactions than the *)
(* node has were read, then the sort.                                       *)
ReadPage ==
  /\ query.step \in Tag
  /\ LET txs == query.txs \o PageOf(query.found, query.page)
     IN IF Len(txs) < Len(query.found) THEN query' = [query EXCEPT !.txs = txs, !.page = @ + 1]
                                       ELSE Searched(ByBlock(txs))
  /\ UNCHANGED <<chain, merger, taken, out, failed>>

(* A request of a search fails. *)
SearchRejects ==
  /\ query.step \in Tag
  /\ query' = [NoQuery EXCEPT !.step = "failed"]
  /\ UNCHANGED <<chain, merger, taken, out, failed>>

SwapNext ==
  \/ \E e \in Event : Confirm(e)
  \/ \E tag \in Tag : WatchEvent(tag)
  \/ GetSwaps
  \/ ReadPage
  \/ SearchRejects

SwapSpec == SwapInit /\ [][SwapNext]_swapVars
-----------------------------------------------------------------------------
(* Types: the pools of the merger hold a swap once, and not both pools; a  *)
(* query has seen a part of the chain.                                     *)
SwapTypeOK ==
  /\ chain \in Seq(Event)
  /\ merger \in [open : SUBSET Swap, settling : SUBSET [swap : Swap, kind : Settled]]
  /\ \A s, t \in merger.settling : s.swap = t.swap => s = t
  /\ \A s \in merger.settling : s.swap \notin merger.open
  /\ taken \in [Tag -> 0 .. Len(chain)]
  /\ out \in [Swap -> Seq(Result \ {"undefined", "throw"})]
  /\ failed \in BOOLEAN
  /\ query \in [step : {"none", "done", "rejected", "failed"} \cup Tag, found : Seq(Event), page : Nat \ {0},
                txs : Seq(Event), setTxs : Seq(Event), start : 0 .. Len(chain), end : 0 .. Len(chain),
                moved : BOOLEAN, result : [Swap -> Result]]

(* Although offers, claims and aborts come over two streams in either      *)
(* order, process() never throws because a pool gets a swap twice;         *)
(* watchSwaps() emits a swap as open at most once and before it is settled, *)
(* and settled at most once, in the way the chain has settled it; and when *)
(* both streams have delivered everything, what it emitted last is the     *)
(* state of the swap.                                                      *)
WatchFollowsChain ==
  ~failed /\ \A w \in Swap :
    LET state == StateAt(w, Len(chain))
    IN /\ out[w] \in {<<>>, <<"open">>} \cup (IF state \in Settled THEN {<<state>>, <<"open", state>>}
                                                                   ELSE {})
       /\ (\A tag \in Tag : NextTagged(tag) = {}) =>
            (IF state = "undefined" THEN out[w] = <<>> ELSE out[w] # <<>> /\ Last(out[w]) = state)

(* getSwaps() reports every swap in a state that it had at some moment of  *)
(* the call, although its two searches see the chain at different times,   *)
(* and pages of them do: transactions may be found twice, and those that   *)
(* come during the call may be missed.  An offer that is found twice makes *)
(* process() throw, and getSwaps() is rejected; but only when the results  *)
(* have moved behind a page that was read, as they do not at a node that   *)
(* orders them by height.                                                  *)
GetSwapsIsConsistent ==
  /\ query.step = "done" =>
       \A w \in Swap : \E n \in query.start .. query.end : query.result[w] = StateAt(w, n)
  /\ query.step = "rejected" => query.moved
=============================================================================
