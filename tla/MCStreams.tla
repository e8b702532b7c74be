----------------------------- MODULE MCStreams -----------------------------
(***************************************************************************)
(* The streams of the connections, one at a time: `part` says which of the *)
(* eight specifications a behaviour belongs to, the variables of the others *)
(* keep an initial value in which none of their fair actions is enabled.   *)
(***************************************************************************)
EXTENDS ConcatStream, AtomicSwaps, LiveTx, PostTx, Watchers, AddressFeed, NewHeads, SwapLogs

CONSTANTS a, b, w1, w2, t1, t2

MCValue == {a, b}
MCSwap == {w1, w2}

(* A node that orders results by height, or by the digits of the height:   *)
(* the transactions are at heights 8, 9, 10 and 11.                        *)
ByHeight == [t \in 1 .. MaxChain |-> t]
ByDigits == [t \in 1 .. MaxChain |-> CASE t = 1 -> 3 [] t = 2 -> 4 [] t = 3 -> 1 [] OTHER -> 2]
BothOrders == {ByHeight, ByDigits}

(* A token transfer from the address, which is in its list at the scraper   *)
(* too, and one to the address, which is not.                               *)
MCTx == {t1, t2}
MCSourcesOf == (t1 :> {"scraper", "outgoing"}) @@ (t2 :> {"incoming"})
MCQueries == {[min |-> 0, max |-> 9], [min |-> 2, max |-> 2]}

(* The same ID bytes on both swap contracts, offers to two recipients, in   *)
(* tokens that were configured in checksummed form and in lower case, and   *)
(* one in a token that the connection does not know.                        *)
MCSwapIds == ("ether" :> {"i1"}) @@ ("erc20" :> {"i1", "i2"})
OfferTo(r, t) == [sender |-> "s", recipient |-> r, hash |-> "h", amount |-> 5, timeout |-> 7, token |-> t]
MCOffers == {OfferTo("r1", "known"), OfferTo("r2", "lower case"), OfferTo("r1", "unknown")}

VARIABLE part

Parts == {"concat", "swaps", "live", "post", "watch", "feed", "heads", "logs"}

AllInit ==
  /\ part \in Parts
  /\ StreamInit /\ SwapInit /\ LiveInit /\ PostInit /\ WatchInit /\ FeedInit
  /\ HeadInit /\ SwapLogInit
  /\ part # "live" => committed = 0 /\ rank = ByHeight
  /\ part # "feed" => txHeight = [t \in Tx |-> 0]

AllNext ==
  /\ \/ part = "concat" /\ StreamNext
        /\ UNCHANGED <<swapVars, liveVars, postVars, watchVars, feedVars, headVars, swapLogVars>>
     \/ part = "swaps" /\ SwapNext
        /\ UNCHANGED <<streamVars, liveVars, postVars, watchVars, feedVars, headVars, swapLogVars>>
     \/ part = "live" /\ LiveNext
        /\ UNCHANGED <<streamVars, swapVars, postVars, watchVars, feedVars, headVars, swapLogVars>>
     \/ part = "post" /\ PostNext
        /\ UNCHANGED <<streamVars, swapVars, liveVars, watchVars, feedVars, headVars, swapLogVars>>
     \/ part = "watch" /\ WatchNext
        /\ UNCHANGED <<streamVars, swapVars, liveVars, postVars, feedVars, headVars, swapLogVars>>
     \/ part = "feed" /\ FeedNext
        /\ UNCHANGED <<streamVars, swapVars, liveVars, postVars, watchVars, headVars, swapLogVars>>
     \/ part = "heads" /\ HeadNext
        /\ UNCHANGED <<streamVars, swapVars, liveVars, postVars, watchVars, feedVars, swapLogVars>>
     \/ part = "logs" /\ SwapLogNext
        /\ UNCHANGED <<streamVars, swapVars, liveVars, postVars, watchVars, feedVars, headVars>>
  /\ UNCHANGED part

allVars == <<part, streamVars, swapVars, liveVars, postVars, watchVars, feedVars, headVars, swapLogVars>>

AllSpec ==
  /\ AllInit /\ [][AllNext]_allVars
  /\ LiveFairness /\ PostFairness /\ WatchFairness /\ HeadFairness
-----------------------------------------------------------------------------
(* A producer that was stopped leaves nothing behind, neither timers of the *)
(* client nor subscriptions at a node, after listeners that came back in    *)
(* time or late and after failures: stop() of the producers of postTx(),    *)
(* watchAccount() of Lisk and watchBlockHeaders() of Ethereum.              *)
NothingStaysBehind == StopReleases /\ TimersStop /\ HeadsUnsubscribed
=============================================================================
