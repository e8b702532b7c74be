------------------------------ MODULE Watchers ------------------------------
(***************************************************************************)
(* The streams that Lisk and Ethereum connections feed by polling:         *)
(* watchAccount() of both, watchBlockHeaders() of Lisk and the             *)
(* waitForTransaction() behind its liveTx().                               *)
(*                                                                         *)
(* Every start of the producer has an interval timer of its own and, for   *)
(* the headers, a height of its own; the variables for the timer and for   *)
(* the last event are shared by all starts of a stream.  Polls overlap     *)
(* when an answer takes longer than the interval, and answers come in any  *)
(* order.  A stream without listeners stops its producer one turn of the   *)
(* event loop late; an error or the end of the stream stops it at once.    *)
(***************************************************************************)
EXTENDS Naturals, Sequences, FiniteSets, SequencesExt

CONSTANTS
  WatchHeight,  \* bound on the height of the chain
  Versions,     \* number of states of the account, 0: it does not exist
  Listeners,    \* bound on the listeners that come one after the other
  MaxPolls,     \* bound on the polls under way at a time
  WatchFaults   \* bound on the requests that fail

ASSUME WatchersAssumption ==
  /\ WatchHeight \in Nat \ {0} /\ Versions \in Nat /\ Listeners \in Nat
  /\ MaxPolls \in Nat /\ WatchFaults \in Nat

VARIABLES
  service,      \* which of the streams was asked for
  ledger,       \* the chain: height, account, and whether it has the transaction
  listener,     \* [n, here]: number of the listener that came last, if it is there
  started,      \* the producer was started and not stopped
  activation,   \* activation[k]: the k-th start of the producer
  pollInternal, \* the start whose timer the variable holds, 0: undefined
  polls,        \* the polls under way, in the order of their start
  lastEvent,
  seen,         \* the last event the listener was given
  givenHeaders, \* the headers it was given
  overlapped,   \* a poll or a start began while a poll was under way
  watchFaults

watchVars == <<service, ledger, listener, started, activation, pollInternal, polls, lastEvent,
               seen, givenHeaders, overlapped, watchFaults>>

Accounts == {"lisk account", "ethereum account"}
Service == Accounts \cup {"lisk headers", "lisk transaction"}

None == [event |-> FALSE, data |-> 0]
SomeEvent(d) == [event |-> TRUE, data |-> d]
Dummy == [event |-> FALSE, data |-> 1]      \* the {} that lastEvent starts with

WatchInit ==
  /\ service = "none"
  /\ ledger = [height |-> 1, account |-> 0, tx |-> FALSE]
  /\ listener = [n |-> 0, here |-> FALSE]
  /\ started = FALSE
  /\ activation = [k \in 1 .. Listeners |-> [state |-> "none", height |-> 0]]
  /\ pollInternal = 0
  /\ polls = <<>>
  /\ lastEvent = Dummy /\ seen = None /\ givenHeaders = {}
  /\ overlapped = FALSE
  /\ watchFaults = 0

(* The caller asks for a stream.                                           *)
Watch(s) ==
  /\ service = "none"
  /\ service' = s
  /\ UNCHANGED <<ledger, listener, started, activation, pollInternal, polls, lastEvent, seen,
                 givenHeaders, overlapped, watchFaults>>

ChainMoves ==
  /\ listener.n > 0
  /\ ledger.height < WatchHeight
  /\ ledger' \in [height : {ledger.height + 1},
                  account : IF service \in Accounts THEN 0 .. Versions - 1 ELSE {0},
                  tx : IF service = "lisk transaction" /\ ~ledger.tx THEN BOOLEAN ELSE {ledger.tx}]
  /\ UNCHANGED <<service, listener, started, activation, pollInternal, polls, lastEvent, seen,
                 givenHeaders, overlapped, watchFaults>>
-----------------------------------------------------------------------------
Ticking == {k \in 1 .. Listeners : activation[k].state = "ticking"}

(* poll(): a request for the account, for the header of a height or for the *)
(* transaction.                                                            *)
Poll(k, height) ==
  /\ Len(polls) < MaxPolls
  /\ polls' = Append(polls, [step |-> "asked", of |-> k, height |-> height, answer |-> None])
  /\ overlapped' = (overlapped \/ polls # <<>>)

(* start() of the producers.  watchAccount() polls at once; only on Lisk is *)
(* the timer kept.  The headers first wait for height().  The timer of     *)
(* waitForTransaction() is not kept.                                       *)
StartPolling(k) ==
  CASE service \in Accounts ->
         /\ activation' = [activation EXCEPT ![k].state = "ticking"]
         /\ pollInternal' = IF service = "lisk account" THEN k ELSE pollInternal
         /\ Poll(k, 0)
    [] service = "lisk headers" ->
         /\ activation' = [activation EXCEPT ![k] = [state |-> "height", height |-> ledger.height]]
         /\ overlapped' = (overlapped \/ polls # <<>>)
         /\ UNCHANGED <<pollInternal, polls>>
    [] service = "lisk transaction" ->
         /\ activation' = [activation EXCEPT ![k].state = "ticking"]
         /\ UNCHANGED <<pollInternal, polls, overlapped>>

(* A listener comes; a producer that is about to be stopped goes on.       *)
ListenWatch ==
  /\ service # "none"
  /\ ~listener.here
  /\ listener.n < Listeners
  /\ listener' = [n |-> listener.n + 1, here |-> TRUE]
  /\ seen' = None /\ givenHeaders' = {}
  /\ started' = TRUE
  /\ IF started THEN UNCHANGED <<activation, pollInternal, polls, overlapped>>
                ELSE StartPolling(listener.n + 1)
  /\ UNCHANGED <<service, ledger, lastEvent, watchFaults>>

Leave ==
  /\ listener.here
  /\ listener' = [listener EXCEPT !.here = FALSE]
  /\ UNCHANGED <<service, ledger, started, activation, pollInternal, polls, lastEvent, seen, givenHeaders,
                 overlapped, watchFaults>>

(* stop(): the timer is cleared if the variable holds one.                 *)
StopPolling ==
  /\ started' = FALSE
  /\ activation' = [k \in DOMAIN activation |->
                      IF k = pollInternal THEN [activation[k] EXCEPT !.state = "cleared"] ELSE activation[k]]
  /\ pollInternal' = 0

StopUnheard ==
  /\ started
  /\ ~listener.here
  /\ StopPolling
  /\ UNCHANGED <<service, ledger, listener, polls, lastEvent, seen, givenHeaders, overlapped, watchFaults>>

(* height() of the headers' start is answered: the timer is set and the    *)
(* first poll sent, also when the listener has gone and the producer was   *)
(* stopped meanwhile.                                                      *)
HeightArrives(k) ==
  /\ activation[k].state = "height"
  /\ \E h \in activation[k].height .. ledger.height :
       /\ activation' = [activation EXCEPT ![k] = [state |-> "ticking", height |-> h]]
       /\ Poll(k, h)
  /\ pollInternal' = k
  /\ UNCHANGED <<service, ledger, listener, started, lastEvent, seen, givenHeaders, watchFaults>>

(* height() fails: start() is rejected and nobody handles it.              *)
HeightFails(k) ==
  /\ activation[k].state = "height"
  /\ watchFaults < WatchFaults
  /\ watchFaults' = watchFaults + 1
  /\ activation' = [activation EXCEPT ![k].state = "failed"]
  /\ UNCHANGED <<service, ledger, listener, started, pollInternal, polls, lastEvent, seen, givenHeaders,
                 overlapped>>

(* Polls for a height far past the chain's are left out.                   *)
TimerFires(k) ==
  /\ activation[k].state = "ticking"
  /\ activation[k].height <= WatchHeight + 1
  /\ Poll(k, activation[k].height)
  /\ UNCHANGED <<service, ledger, listener, started, activation, pollInternal, lastEvent, seen, givenHeaders,
                 watchFaults>>
-----------------------------------------------------------------------------
(* What the node knows: no event stands for "Block does not exist" and for *)
(* an empty search.                                                        *)
NodeKnows(height) ==
  CASE service \in Accounts -> SomeEvent(ledger.account)
    [] service = "lisk headers" -> IF height <= ledger.height THEN SomeEvent(height) ELSE None
    [] service = "lisk transaction" -> IF ledger.tx THEN SomeEvent(1) ELSE None

NodeAnswers(p) ==
  /\ p <= Len(polls)
  /\ polls[p].step = "asked"
  /\ polls' = [polls EXCEPT ![p].step = "answered", ![p].answer = NodeKnows(polls[p].height)]
  /\ UNCHANGED <<service, ledger, listener, started, activation, pollInternal, lastEvent, seen, givenHeaders,
                 overlapped, watchFaults>>

(* listener.next()                                                         *)
GiveEvent(e) ==
  /\ seen' = IF listener.here THEN e ELSE seen
  /\ givenHeaders' = IF listener.here /\ service = "lisk headers" THEN givenHeaders \cup {e} ELSE givenHeaders

(* listener.error() or listener.complete()                                 *)
EndStream ==
  IF listener.here
  THEN listener' = [listener EXCEPT !.here = FALSE] /\ StopPolling
  ELSE UNCHANGED <<listener, started, activation, pollInternal>>

AccountArrives(e) ==
  IF e = lastEvent THEN UNCHANGED <<seen, givenHeaders, lastEvent>> ELSE GiveEvent(e) /\ lastEvent' = e

(* Mutant: the height does not advance after a header.                     *)
HeaderPollEndsMutant(e, k) ==
  /\ IF e = None \/ e = lastEvent THEN UNCHANGED <<seen, givenHeaders, lastEvent>>
                                  ELSE GiveEvent(e) /\ lastEvent' = e
  /\ UNCHANGED activation

HeaderPollEnds(e, k) ==
  IF e = None \/ e = lastEvent THEN UNCHANGED <<seen, givenHeaders, lastEvent, activation>>
  ELSE /\ GiveEvent(e)
       /\ lastEvent' = e
       /\ activation' = [activation EXCEPT ![k].height = @ + 1]

AnswerArrives(p) ==
  /\ p <= Len(polls)
  /\ polls[p].step = "answered"
  /\ polls' = RemoveAt(polls, p)
  /\ LET e == polls[p].answer
     IN \/ /\ service \in Accounts
           /\ AccountArrives(e)
           /\ UNCHANGED <<listener, started, activation, pollInternal>>
        \/ /\ service = "lisk headers"
           /\ HeaderPollEnds(e, polls[p].of)
           /\ UNCHANGED <<listener, started, pollInternal>>
        \/ /\ service = "lisk transaction"
           /\ IF e = None THEN UNCHANGED <<seen, givenHeaders, listener, started, activation, pollInternal>>
                          ELSE GiveEvent(e) /\ EndStream
           /\ UNCHANGED lastEvent
  /\ UNCHANGED <<service, ledger, overlapped, watchFaults>>

(* A request fails: the stream fails for its listener.                     *)
RequestFails(p) ==
  /\ p <= Len(polls)
  /\ polls[p].step = "asked"
  /\ watchFaults < WatchFaults
  /\ watchFaults' = watchFaults + 1
  /\ polls' = RemoveAt(polls, p)
  /\ EndStream
  /\ UNCHANGED <<service, ledger, lastEvent, seen, givenHeaders, overlapped>>

WatchNext ==
  \/ \E s \in Service : Watch(s)
  \/ ChainMoves
  \/ ListenWatch \/ Leave \/ StopUnheard
  \/ \E k \in 1 .. Listeners : HeightArrives(k) \/ HeightFails(k) \/ TimerFires(k)
  \/ \E p \in 1 .. MaxPolls : NodeAnswers(p) \/ AnswerArrives(p) \/ RequestFails(p)

WatchSpec == WatchInit /\ [][WatchNext]_watchVars

(* Timers fire and the oldest poll is answered in the end.                  *)
WatchFairness ==
  /\ \A k \in 1 .. Listeners : WF_watchVars(TimerFires(k)) /\ WF_watchVars(HeightArrives(k))
  /\ WF_watchVars(NodeAnswers(1) \/ AnswerArrives(1))
-----------------------------------------------------------------------------
WatchEventType == [event : BOOLEAN, data : Nat]

(* Types: polls belong to a start, the timer variable to one that ticks.   *)
WatchTypeOK ==
  /\ service \in Service \cup {"none"}
  /\ ledger \in [height : 1 .. WatchHeight, account : Nat, tx : BOOLEAN]
  /\ listener \in [n : 0 .. Listeners, here : BOOLEAN]
  /\ started \in BOOLEAN /\ overlapped \in BOOLEAN /\ watchFaults \in 0 .. WatchFaults
  /\ activation \in [1 .. Listeners -> [state : {"none", "height", "ticking", "cleared", "failed"}, height : Nat]]
  /\ pollInternal \in 0 .. Listeners
  /\ pollInternal # 0 => activation[pollInternal].state = "ticking"
  /\ polls \in Seq([step : {"asked", "answered"}, of : 1 .. Listeners, height : Nat, answer : WatchEventType])
  /\ \A p \in DOMAIN polls : activation[polls[p].of].state \in {"ticking", "cleared"}
  /\ lastEvent \in WatchEventType /\ seen \in WatchEventType /\ givenHeaders \subseteq WatchEventType
  /\ service = "lisk headers" => seen = None \/ seen \in givenHeaders

(* watchAccount() of Lisk: there is one timer while the producer runs and  *)
(* none when it does not, after listeners that came back in time, late or  *)
(* after an error.                                                         *)
TimersStop == service = "lisk account" => Ticking = (IF started THEN {pollInternal} ELSE {})

(* watchBlockHeaders() of Lisk: while answers come before the next poll and *)
(* no timer was left behind, the header after a header is that of the next *)
(* block.                                                                  *)
HeadersConsecutive ==
  [][/\ service = "lisk headers" /\ ~overlapped /\ Cardinality(Ticking) = 1
     /\ seen.event /\ seen' # seen /\ seen'.event
     => seen'.data = seen.data + 1]_watchVars

Current ==
  CASE service \in Accounts -> SomeEvent(ledger.account)
    [] service = "lisk headers" -> SomeEvent(ledger.height)
    [] service = "lisk transaction" -> IF ledger.tx THEN SomeEvent(1) ELSE None
    [] OTHER -> None

FirstListener ==
  listener.here /\ listener.n = 1 /\ activation[1].state = "ticking" /\ (service = "lisk headers" => ~overlapped)

(* The first listener of a stream ends up with what the chain has: the     *)
(* state of the account although late answers may show it an older one in  *)
(* between, the latest header, the transaction.                            *)
FirstListenerCatchesUp == <>[](FirstListener => seen = Current)

(* A listener follows the chain: block by block, and to its present state.  *)
FirstListenerFollows == HeadersConsecutive /\ FirstListenerCatchesUp

(* "Ensures the stream does not contain duplicates": a listener is given a *)
(* header once.                                                            *)
NoDuplicateHeaders ==
  [][service = "lisk headers" /\ seen' # seen /\ seen'.event => seen' \notin givenHeaders]_watchVars
=============================================================================
