------------------------------ MODULE NewHeads ------------------------------
(***************************************************************************)
(* EthereumConnection.watchBlockHeaders(): a newHeads subscription at the  *)
(* node, over the socket of WsEthereumRpcClient.                           *)
(*                                                                         *)
(* Requests and messages are queues.  A head that is announced is fetched  *)
(* by its number after a delay, and the answers come in any order.  Every  *)
(* start of the producer subscribes anew, with the same request ID; the    *)
(* variable for the subscription ID is shared by all starts.  The node's   *)
(* k-th subscription is k, so that it belongs to the k-th start.           *)
(* Reconnections of the socket are left out.                               *)
(***************************************************************************)
EXTENDS Naturals, Sequences, FiniteSets

CONSTANTS
  MaxHead,      \* bound on the height of the chain
  MaxStarts,    \* bound on the starts of the producer
  HeadFaults    \* bound on the headers that cannot be fetched

ASSUME NewHeadsAssumption == MaxHead \in Nat /\ MaxStarts \in Nat /\ HeadFaults \in Nat

VARIABLES
  head,             \* height of the chain
  nodeSubscriptions,
  toNode,           \* requests the node has not handled
  toClient,         \* messages the client has not received
  hearing,          \* somebody listens to the stream
  starts,           \* number of starts of the producer
  allMessages,      \* the producer runs, its subscription to `events` is there
  subscriptionId,   \* 0: undefined
  fetching,         \* fetching[h]: fetches of head h under way
  givenHeads,       \* heads listeners were given
  givenTwice,       \* those given more than once
  owedHeads,        \* heads that the listener must be given
  stoppedEarly,     \* a start was stopped before its subscription ID arrived
  headFaults

nodeHeadVars == <<head, nodeSubscriptions>>
socketVars == <<toNode, toClient>>
headListenerVars == <<hearing, starts, allMessages, owedHeads, stoppedEarly>>
headOutVars == <<givenHeads, givenTwice>>
headVars ==
  <<nodeHeadVars, socketVars, headListenerVars, subscriptionId, fetching, headOutVars, headFaults>>

HeadInit ==
  /\ head = 0 /\ nodeSubscriptions = {} /\ toNode = <<>> /\ toClient = <<>>
  /\ hearing = FALSE /\ starts = 0 /\ allMessages = FALSE /\ subscriptionId = 0
  /\ fetching = [h \in 1 .. MaxHead |-> 0] /\ givenHeads = {} /\ givenTwice = {} /\ owedHeads = {}
  /\ stoppedEarly = FALSE /\ headFaults = 0

(* A listener comes.  The producer starts unless it is about to be stopped. *)
HearHeads ==
  /\ ~hearing
  /\ hearing' = TRUE
  /\ owedHeads' = {}
  /\ IF allMessages THEN UNCHANGED <<starts, allMessages, toNode>>
     ELSE /\ starts < MaxStarts
          /\ starts' = starts + 1
          /\ allMessages' = TRUE
          /\ toNode' = Append(toNode, [method |-> "eth_subscribe", id |-> starts + 1])
  /\ UNCHANGED <<nodeHeadVars, toClient, subscriptionId, fetching, headOutVars, stoppedEarly, headFaults>>

LeaveHeads ==
  /\ hearing
  /\ hearing' = FALSE
  /\ UNCHANGED <<nodeHeadVars, socketVars, starts, allMessages, owedHeads, stoppedEarly, subscriptionId,
                 fetching, headOutVars, headFaults>>

(* stop(): with no ID it throws ("This should not happen."); the ID may be  *)
(* that of an earlier start.                                                *)
StopProducer ==
  /\ allMessages' = FALSE
  /\ stoppedEarly' = (stoppedEarly \/ subscriptionId # starts)
  /\ toNode' = IF subscriptionId = 0 THEN toNode
               ELSE Append(toNode, [method |-> "eth_unsubscribe", id |-> subscriptionId])

StopHeads ==
  /\ allMessages
  /\ ~hearing
  /\ StopProducer
  /\ UNCHANGED <<nodeHeadVars, toClient, hearing, starts, owedHeads, subscriptionId, fetching, headOutVars,
                 headFaults>>
-----------------------------------------------------------------------------
NodeTakesRequest ==
  /\ toNode # <<>>
  /\ toNode' = Tail(toNode)
  /\ LET r == Head(toNode)
     IN \/ /\ r.method = "eth_subscribe"
           /\ nodeSubscriptions' = nodeSubscriptions \cup {r.id}
           /\ toClient' = Append(toClient, [kind |-> "result", subscription |-> r.id, number |-> 0])
        \/ /\ r.method = "eth_unsubscribe"
           /\ nodeSubscriptions' = nodeSubscriptions \ {r.id}
           /\ UNCHANGED toClient
  /\ UNCHANGED <<head, headListenerVars, subscriptionId, fetching, headOutVars, headFaults>>

(* A block: the node announces it to every subscription, in their order.    *)
NodeAnnounces ==
  /\ head < MaxHead
  /\ head' = head + 1
  /\ \E order \in [1 .. Cardinality(nodeSubscriptions) -> nodeSubscriptions] :
       /\ \A i, j \in DOMAIN order : i < j => order[i] < order[j]
       /\ toClient' = toClient \o
            [i \in DOMAIN order |-> [kind |-> "head", subscription |-> order[i], number |-> head + 1]]
  /\ owedHeads' = IF hearing /\ starts \in nodeSubscriptions THEN owedHeads \cup {head + 1} ELSE owedHeads
  /\ UNCHANGED <<nodeSubscriptions, toNode, hearing, starts, allMessages, stoppedEarly, subscriptionId,
                 fetching, headOutVars, headFaults>>

(* Mutant: the ID in the response is not kept. *)
OnResultMutant(m) ==
  IF m.kind = "head"
  THEN fetching' = (IF m.subscription = subscriptionId THEN [fetching EXCEPT ![m.number] = @ + 1] ELSE fetching)
       /\ UNCHANGED subscriptionId
  ELSE UNCHANGED <<subscriptionId, fetching>>

OnMessage(m) ==
  IF m.kind = "head"
  THEN fetching' = (IF m.subscription = subscriptionId THEN [fetching EXCEPT ![m.number] = @ + 1] ELSE fetching)
       /\ UNCHANGED subscriptionId
  ELSE subscriptionId' = m.subscription /\ UNCHANGED fetching

(* A message arrives; nobody sees it while the producer is stopped. *)
MessageArrives ==
  /\ toClient # <<>>
  /\ toClient' = Tail(toClient)
  /\ IF allMessages THEN OnMessage(Head(toClient)) ELSE UNCHANGED <<subscriptionId, fetching>>
  /\ UNCHANGED <<nodeHeadVars, toNode, headListenerVars, headOutVars, headFaults>>

(* The delay has passed and the header arrives: whoever listens gets it. *)
HeadFetched(h) ==
  /\ fetching[h] > 0
  /\ fetching' = [fetching EXCEPT ![h] = @ - 1]
  /\ givenHeads' = IF hearing THEN givenHeads \cup {h} ELSE givenHeads
  /\ givenTwice' = IF hearing THEN givenTwice \cup (givenHeads \cap {h}) ELSE givenTwice
  /\ UNCHANGED <<nodeHeadVars, socketVars, headListenerVars, subscriptionId, headFaults>>

(* The header cannot be fetched: the stream fails for its listener. *)
HeadFails(h) ==
  /\ fetching[h] > 0
  /\ headFaults < HeadFaults
  /\ headFaults' = headFaults + 1
  /\ fetching' = [fetching EXCEPT ![h] = @ - 1]
  /\ hearing' = FALSE
  /\ IF hearing THEN StopProducer ELSE UNCHANGED <<allMessages, stoppedEarly, toNode>>
  /\ UNCHANGED <<nodeHeadVars, toClient, starts, owedHeads, subscriptionId, headOutVars>>

HeadNext ==
  \/ HearHeads \/ LeaveHeads \/ StopHeads
  \/ NodeTakesRequest \/ NodeAnnounces \/ MessageArrives
  \/ \E h \in 1 .. MaxHead : HeadFetched(h) \/ HeadFails(h)

HeadSpec == HeadInit /\ [][HeadNext]_headVars

(* The node handles requests, messages arrive, headers can be fetched. *)
HeadFairness ==
  /\ WF_headVars(NodeTakesRequest) /\ WF_headVars(MessageArrives)
  /\ \A h \in 1 .. MaxHead : WF_headVars(HeadFetched(h))
-----------------------------------------------------------------------------
(* Types: subscriptions belong to a start, heads are blocks of the chain.  *)
HeadTypeOK ==
  /\ head \in 0 .. MaxHead /\ starts \in 0 .. MaxStarts /\ headFaults \in 0 .. HeadFaults
  /\ hearing \in BOOLEAN /\ allMessages \in BOOLEAN /\ stoppedEarly \in BOOLEAN
  /\ hearing => allMessages
  /\ nodeSubscriptions \subseteq 1 .. starts /\ subscriptionId \in 0 .. starts
  /\ toNode \in Seq([method : {"eth_subscribe", "eth_unsubscribe"}, id : 1 .. starts])
  /\ toClient \in Seq([kind : {"result"}, subscription : 1 .. starts, number : {0}]
                        \cup [kind : {"head"}, subscription : 1 .. starts, number : 1 .. head])
  /\ fetching \in [1 .. MaxHead -> Nat]
  /\ \A h \in 1 .. MaxHead : fetching[h] > 0 => h <= head
  /\ givenHeads \subseteq 1 .. head /\ owedHeads \subseteq 1 .. head
  /\ givenTwice \subseteq givenHeads

(* A header is given once, although subscriptions that nobody cancelled are *)
(* announced the same heads and their IDs arrive during a later start.      *)
HeadsOnce == givenTwice = {}

(* Nothing is left at the node when the producer has stopped, if every start *)
(* was stopped after its subscription ID had arrived.                       *)
HeadsUnsubscribed ==
  ~allMessages /\ ~stoppedEarly /\ toNode = <<>> => nodeSubscriptions = {}

(* A listener is given every head announced to the subscription of its      *)
(* start, also after starts that were stopped early.                        *)
HeadsComplete == <>[](hearing => owedHeads \subseteq givenHeads)

(* Every head that is announced to a listener's subscription is given to it *)
(* in the end, and no head twice.                                           *)
HeadsExact == []HeadsOnce /\ HeadsComplete
=============================================================================
