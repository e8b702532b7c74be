---------------------------- MODULE AddressFeed ----------------------------
(***************************************************************************)
(* liveTx() and listenTx() for the transactions of an address on Lisk and  *)
(* Ethereum connections.                                                   *)
(*                                                                         *)
(* Lisk polls its node.  Ethereum polls a scraper and the logs of the node *)
(* and merges what they give with dropDuplicates; a transaction may be     *)
(* known to one of them or to both, and the scraper lags behind.  Every    *)
(* source keeps the height from which the next poll searches.  The order   *)
(* in which transactions are given is left out.                            *)
(***************************************************************************)
EXTENDS Naturals, Sequences, FiniteSets, SequencesExt

CONSTANTS
  Tx,           \* transactions of the address
  SourcesOf,    \* SourcesOf[t]: the requests of Ethereum that find transaction t
  FeedHeight,   \* bound on the height of the chain
  Queries,      \* minHeight and maxHeight of the queries
  FeedSlots     \* bound on the searches under way at a time

ASSUME FeedAssumption ==
  /\ IsFiniteSet(Tx) /\ SourcesOf \in [Tx -> (SUBSET {"scraper", "outgoing", "incoming"}) \ {{}}]
  /\ FeedHeight \in Nat \ {0} /\ Queries \subseteq [min : Nat, max : Nat]
  /\ FeedSlots \in Nat /\ FeedSlots >= 2

VARIABLES
  feed,         \* which stream was asked for, and with which query
  top,          \* height of the chain
  txHeight,     \* txHeight[t]: 0 before t is in a block
  scraped,      \* the height up to which the scraper knows the chain
  source,       \* source[s]: how far start() is, and minHeight
  searches,     \* the searches under way, in the order of their start
  given,        \* transactions the listener was given
  repeated,     \* those it was given more than once
  owed,         \* transactions that must reach the listener
  listening,    \* the listener is there
  feedOverlap,  \* on Lisk, a search began while another was under way
  between       \* history: heights of blocks that came between the two
                \* answers of one search of the logs

ledgerVars == <<top, txHeight, scraped>>
outVars == <<given, repeated>>
feedVars == <<feed, ledgerVars, source, searches, outVars, owed, listening, feedOverlap, between>>

Sources == {"node", "scraper", "logs"}
Feeds == {"lisk live", "ethereum live", "ethereum listen"}
SourceList(stream) == IF stream = "lisk live" THEN <<"node">> ELSE <<"scraper", "logs">>
Active == ToSet(SourceList(feed.stream))

(* The requests of one search: the logs are asked for transfers from the    *)
(* address and for transfers to it, both at once.                           *)
Requests == {"node", "scraper", "outgoing", "incoming"}
RequestsOf(s) == IF s = "logs" THEN {"outgoing", "incoming"} ELSE {s}

FeedInit ==
  /\ feed = [stream |-> "none", query |-> [min |-> 0, max |-> 0]]
  /\ top = 1 /\ txHeight \in [Tx -> 0 .. 1] /\ scraped = 1
  /\ source = [s \in Sources |-> [state |-> "none", min |-> 0]]
  /\ searches = <<>>
  /\ given = {} /\ repeated = {}
  /\ owed = {} /\ listening = FALSE /\ feedOverlap = FALSE /\ between = {}

(* Blocks with any of the transactions that are not in one; the scraper     *)
(* takes over whole blocks.  What happens after the listener has left, but  *)
(* for the end of the searches under way, is left out.                      *)
BlockComes ==
  /\ top < FeedHeight
  /\ listening \/ feed.stream = "none"
  /\ top' = top + 1
  /\ \E new \in SUBSET {t \in Tx : txHeight[t] = 0} :
       /\ txHeight' = [t \in Tx |-> IF t \in new THEN top + 1 ELSE txHeight[t]]
       /\ owed' = IF feed.stream # "none" /\ \A s \in Active : source[s].state # "height"
                      THEN owed \cup new ELSE owed
  /\ UNCHANGED <<feed, scraped, source, searches, outVars, listening, feedOverlap, between>>

ScraperFollows ==
  /\ scraped < top
  /\ listening /\ feed.stream # "lisk live"
  /\ scraped' = scraped + 1
  /\ UNCHANGED <<feed, top, txHeight, source, searches, outVars, owed, listening, feedOverlap, between>>
-----------------------------------------------------------------------------
(* A search under way: the requests not answered yet and, between the two   *)
(* answers of one, the height of the chain at the first.                    *)
Search(s, min) == [of |-> s, min |-> min, waits |-> RequestsOf(s), at |-> 0, found |-> {}]

SendSearch(s, min) ==
  /\ Len(searches) < FeedSlots
  /\ searches' = Append(searches, Search(s, min))

(* A listener comes to a stream: start() of every source.  liveTx() sends   *)
(* its first search at once, listenTx() first asks for the height.          *)
StartFeed(stream, query) ==
  /\ feed.stream = "none"
  /\ feed' = [stream |-> stream, query |-> query]
  /\ listening' = TRUE
  /\ LET sources == SourceList(stream)
         state == IF stream = "ethereum listen" THEN "height" ELSE "first"
     IN /\ source' = [s \in Sources |-> IF s \in ToSet(sources) THEN [state |-> state, min |-> query.min]
                                                               ELSE source[s]]
        /\ searches' = IF state = "first" THEN [n \in DOMAIN sources |-> Search(sources[n], query.min)]
                                          ELSE <<>>
  /\ owed' = IF stream = "ethereum listen" THEN {} ELSE {t \in Tx : txHeight[t] > 0}
  /\ UNCHANGED <<ledgerVars, outVars, feedOverlap, between>>

(* height() in start() of listenTx(): the scraper goes back one block from  *)
(* it, the logs begin with the next block.                                  *)
HeightKnown(s) ==
  /\ source[s].state = "height"
  /\ LET start == IF s = "scraper" THEN top - 1 ELSE top + 1
         min == Max({feed.query.min, start})
     IN /\ source' = [source EXCEPT ![s] = [state |-> "first", min |-> min]]
        /\ SendSearch(s, min)
  /\ UNCHANGED <<feed, ledgerVars, outVars, owed, listening, feedOverlap, between>>

(* What a request finds: whole blocks, as far as the one who answers knows  *)
(* the chain.  Lisk filters by height itself.  The transactions are then    *)
(* asked for by ID, which changes neither the set nor their heights.        *)
Found(q, min) ==
  {t \in Tx : /\ q = "node" \/ q \in SourcesOf[t]
              /\ txHeight[t] > 0
              /\ txHeight[t] \in min .. feed.query.max
              /\ q = "scraper" => txHeight[t] <= scraped}

(* One request of a search is answered.  The two of Promise.all are not     *)
(* answered at the same height.                                             *)
SourceAnswers(f, q) ==
  /\ f <= Len(searches)
  /\ q \in searches[f].waits
  /\ searches' = [searches EXCEPT ![f].waits = @ \ {q},
                                 ![f].at = IF searches[f].waits = {q} THEN 0 ELSE top,
                                 ![f].found = @ \cup Found(q, searches[f].min)]
  /\ between' = IF searches[f].at = 0 THEN between ELSE between \cup (searches[f].at + 1 .. top)
  /\ UNCHANGED <<feed, ledgerVars, source, outVars, owed, listening, feedOverlap>>

(* "we assume we got all matching transactions from block item.height now": *)
(* minHeight after the loop over the results.                               *)
NextMinHeight(min, found) == Max({min} \cup {txHeight[t] + 1 : t \in found})

(* What the listener is given: Ethereum drops duplicates, Lisk does not.    *)
Give(found) ==
  /\ given' = IF listening THEN given \cup found ELSE given
  /\ repeated' = IF listening /\ feed.stream = "lisk live" THEN repeated \cup (given \cap found)
                                                           ELSE repeated

(* Mutant: the next search begins after the block that is the last now. *)
SearchEndsMutant(f) ==
  /\ f <= Len(searches)
  /\ searches[f].waits = {}
  /\ searches' = RemoveAt(searches, f)
  /\ Give(searches[f].found)
  /\ source' = [source EXCEPT ![searches[f].of] = [state |-> "ticking", min |-> top + 1]]
  /\ UNCHANGED <<feed, ledgerVars, owed, listening, feedOverlap, between>>

(* The results of a search are given to the listener; after the first       *)
(* search the timer is set, although the listener may have gone.            *)
SearchEnds(f) ==
  /\ f <= Len(searches)
  /\ searches[f].waits = {}
  /\ searches' = RemoveAt(searches, f)
  /\ Give(searches[f].found)
  /\ source' = [source EXCEPT ![searches[f].of] =
                  [state |-> IF @.state = "first" THEN "ticking" ELSE @.state,
                   min |-> NextMinHeight(@.min, searches[f].found)]]
  /\ UNCHANGED <<feed, ledgerVars, owed, listening, feedOverlap, between>>

(* The interval timer fires. *)
SearchAgain(s) ==
  /\ source[s].state = "ticking"
  /\ listening
  /\ SendSearch(s, source[s].min)
  /\ feedOverlap' = (feedOverlap \/ (s = "node" /\ searches # <<>>))
  /\ UNCHANGED <<feed, ledgerVars, source, outVars, owed, listening, between>>

(* A request fails, one of the first or a later one by ID: the search is    *)
(* rejected, whatever its other requests have found.  When it is the first  *)
(* search, or the height was asked for, start() is rejected and the source  *)
(* is never polled; nobody is told.                                         *)
SearchFails(f) ==
  /\ f <= Len(searches)
  /\ searches' = RemoveAt(searches, f)
  /\ source' = [source EXCEPT ![searches[f].of].state = IF @ = "first" THEN "failed" ELSE @]
  /\ UNCHANGED <<feed, ledgerVars, outVars, owed, listening, feedOverlap, between>>

StartFails(s) ==
  /\ source[s].state = "height"
  /\ source' = [source EXCEPT ![s].state = "failed"]
  /\ UNCHANGED <<feed, ledgerVars, searches, outVars, owed, listening, feedOverlap, between>>

(* The listener leaves: the timers that are set are cleared. *)
StopFeed ==
  /\ listening
  /\ listening' = FALSE
  /\ source' = [s \in Sources |-> [source[s] EXCEPT !.state = IF @ = "ticking" THEN "stopped" ELSE @]]
  /\ UNCHANGED <<feed, ledgerVars, searches, outVars, owed, feedOverlap, between>>

FeedNext ==
  \/ BlockComes
  \/ ScraperFollows
  \/ \E stream \in Feeds, query \in Queries : StartFeed(stream, query)
  \/ \E s \in Sources : HeightKnown(s) \/ StartFails(s) \/ SearchAgain(s)
  \/ \E f \in 1 .. FeedSlots : \/ \E q \in Requests : SourceAnswers(f, q)
                             \/ SearchEnds(f) \/ SearchFails(f)
  \/ StopFeed

FeedSpec == FeedInit /\ [][FeedNext]_feedVars
-----------------------------------------------------------------------------
(* Types: what was given twice was given, the scraper knows blocks there are. *)
FeedTypeOK ==
  /\ feed \in [stream : Feeds \cup {"none"}, query : [min : Nat, max : Nat]]
  /\ top \in 1 .. FeedHeight /\ scraped \in 1 .. top /\ txHeight \in [Tx -> 0 .. top]
  /\ source \in [Sources -> [state : {"none", "height", "first", "ticking", "stopped", "failed"}, min : Nat]]
  /\ searches \in Seq([of : Sources, min : Nat, waits : SUBSET Requests, at : Nat, found : SUBSET Tx])
  /\ between \subseteq 1 .. top
  /\ given \subseteq Tx /\ repeated \subseteq given /\ owed \subseteq Tx
  /\ listening \in BOOLEAN /\ feedOverlap \in BOOLEAN

(* The listener is given a transaction once: on Ethereum whatever the two   *)
(* sources and overlapping searches find, on Lisk while every answer comes  *)
(* before the next search.                                                  *)
FeedOnce == repeated # {} => feed.stream = "lisk live" /\ feedOverlap

(* Nothing outside of the query is given to the listener, whichever source  *)
(* found it and whenever its search began.                                  *)
FeedInRange ==
  \A t \in given : txHeight[t] \in feed.query.min .. feed.query.max

(* Transactions that the next searches of source s cover. *)
Ahead(s) == {t \in Tx : source[s].min <= txHeight[t]}

(* "all historical transactions that match the query, along with all new    *)
(* transactions": no transaction of the query is left behind.  What the     *)
(* listener was not given lies ahead of every source that knows it and that *)
(* could be started, although the scraper lags, answers come late or not at *)
(* all and minHeight moves past the blocks that were found.  For listenTx() *)
(* that holds of what comes after the sources have started, and for the     *)
(* logs of what did not come between the two answers of a search: there     *)
(* minHeight does move past transfers that were not read, against "we       *)
(* assume we got all matching transactions from block `item.height` now"    *)
(* (ethereumconnection.ts:893).                                             *)
FeedComplete ==
  listening =>
    \A t \in owed \ given, s \in Active :
      /\ txHeight[t] \in feed.query.min .. feed.query.max
      /\ s = "node" \/ RequestsOf(s) \cap SourcesOf[t] # {}
      /\ source[s].state # "failed"
      /\ s = "logs" => txHeight[t] \notin between
      => t \in Ahead(s)

(* The feed of an address is exactly what the query asks for: nothing is    *)
(* repeated, out of range or left behind.                                   *)
FeedIsExact == FeedOnce /\ FeedInRange /\ FeedComplete
=============================================================================
