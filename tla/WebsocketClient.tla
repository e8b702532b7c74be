--------------------------- MODULE WebsocketClient ---------------------------
(***************************************************************************)
(* iov-tendermint-rpc/src/rpcclients/websocketclient.ts: JSON-RPC calls    *)
(* and subscriptions over a ReconnectingSocket, which is represented by    *)
(* its abstract specification RequestTransport together with what the      *)
(* code relies on of the other end:                                        *)
(*   - requests are transmitted while the connection is up, those of one   *)
(*     query in the order they were queued (that the socket can reorder    *)
(*     them after a failure is shown on ReconnectingSocket and not         *)
(*     repeated here); answers and events arrive in order, and are lost    *)
(*     with the connection, as if the request itself had been;             *)
(*   - a lost connection shows as Disconnected, a connection that the      *)
(*     server closed cleanly goes on showing as Connected;                 *)
(*   - the server forgets the subscriptions of a closed connection.        *)
(*                                                                         *)
(* A request is <<kind, id, n>>.  All requests of a query carry the id of  *)
(* the request that listen() was first called with; n only tells apart     *)
(* equal texts.  Streams behave as in xstream: the last listener's         *)
(* departure stops the producer in a later task, a new listener before     *)
(* that keeps it, and a completed stream starts again for a new listener.  *)
(***************************************************************************)
EXTENDS RequestTransport, Naturals, Sequences

CONSTANTS Calls,       \* ids of execute() requests
          Queries,     \* queries of listen(); also the id of the query's requests
          MaxStarts,   \* bound on producer starts per query
          MaxEvents,   \* bound on events the server emits
          MaxInbox     \* bound on messages on their way to the client

ASSUME Disjointness == Calls \cap Queries = {}
ASSUME Bounds == {MaxStarts, MaxEvents, MaxInbox} \subseteq Nat
ASSUME RequestShape ==
  Requests = {<<"call", c, 0>> : c \in Calls} \cup ({"subscribe", "unsubscribe"} \X Queries \X (0 .. MaxStarts))

VARIABLES
  outcome,      \* execute() promise per call: "none", "pending", "resolved", "rejected"
  listening,    \* the user listens to the query's stream
  running,      \* RpcEventProducer.running
  stopDue,      \* xstream's timer that will stop the producer
  idSubs,       \* open idSubscriptions of the query's producer
  eventSubs,    \* open idEventSubscriptions (and nonResponseSubscriptions)
  starts,       \* number of producer starts
  stops,        \* number of producer stops
  received,     \* history: numbers of the events passed to the listener, since it listens
  link,         \* "down", "up", "closed" (cleanly, by the server)
  serverSubs,   \* queries the server has a subscription for on this connection
  inbox,        \* messages from the server on this connection
  emitted,      \* number of events emitted by the server
  reopened      \* history: requests were transmitted on an earlier connection

producerVars == <<listening, running, stopDue, idSubs, eventSubs, starts, stops, received>>
serverVars == <<link, serverSubs, inbox, emitted, reopened>>
vars == <<status, waiting, transmitted, released, ended, outcome, producerVars, serverVars>>

Message == [type : {"reply"}, id : Calls \cup Queries, ok : BOOLEAN]
             \cup [type : {"event"}, id : Queries, number : 1 .. MaxEvents]

TransportTypeOK ==
  /\ status \in {"Unconnected", "Connecting", "Connected", "Disconnected"}
  /\ waiting \subseteq Requests /\ transmitted \subseteq Requests
  /\ released \in BOOLEAN /\ ended \in BOOLEAN

ProducerTypeOK ==
  /\ listening \in [Queries -> BOOLEAN]
  /\ running \in [Queries -> BOOLEAN] /\ stopDue \in [Queries -> BOOLEAN]
  /\ idSubs \in [Queries -> 0 .. MaxStarts]
  /\ eventSubs \in [Queries -> 0 .. MaxStarts]
  /\ starts \in [Queries -> 0 .. MaxStarts] /\ stops \in [Queries -> 0 .. MaxStarts]
  /\ received \in [Queries -> Seq(1 .. MaxEvents)]

ServerTypeOK ==
  /\ link \in {"down", "up", "closed"}
  /\ serverSubs \subseteq Queries
  /\ inbox \in Seq(Message)
  /\ emitted \in 0 .. MaxEvents
  /\ reopened \in BOOLEAN

TypeOK ==
  /\ TransportTypeOK
  /\ outcome \in [Calls -> {"none", "pending", "resolved", "rejected"}]
  /\ ProducerTypeOK
  /\ ServerTypeOK

(* The constructor connects the socket. *)
Init ==
  /\ status = "Connecting"
  /\ waiting = {} /\ transmitted = {} /\ released = FALSE /\ ended = FALSE
  /\ outcome = [c \in Calls |-> "none"]
  /\ listening = [q \in Queries |-> FALSE]
  /\ running = [q \in Queries |-> FALSE]
  /\ stopDue = [q \in Queries |-> FALSE]
  /\ idSubs = [q \in Queries |-> 0]
  /\ eventSubs = [q \in Queries |-> 0]
  /\ starts = [q \in Queries |-> 0]
  /\ stops = [q \in Queries |-> 0]
  /\ received = [q \in Queries |-> <<>>]
  /\ link = "down" /\ serverSubs = {} /\ inbox = <<>> /\ emitted = 0 /\ reopened = FALSE
-----------------------------------------------------------------------------
(* The transport and the server *)

Opens ==
  /\ status = "Connecting"
  /\ StatusChange("Connected")
  /\ link' = "up" /\ serverSubs' = {} /\ inbox' = <<>>
  /\ reopened' = (transmitted # {} \/ reopened)
  /\ UNCHANGED <<emitted, outcome, producerVars>>

Drops ==
  /\ status \in {"Connecting", "Connected"} /\ link # "closed"
  /\ StatusChange("Disconnected")
  /\ link' = "down" /\ serverSubs' = {} /\ inbox' = <<>>
  /\ UNCHANGED <<emitted, reopened, outcome, producerVars>>

Retries ==
  /\ status = "Disconnected"
  /\ StatusChange("Connecting")
  /\ UNCHANGED <<serverVars, outcome, producerVars>>

(* The closing handshake comes after everything sent before it. *)
ServerCloses ==
  /\ link = "up" /\ inbox = <<>>
  /\ link' = "closed" /\ serverSubs' = {}
  /\ UNCHANGED <<transportVars, inbox, emitted, reopened, outcome, producerVars>>

Reply(id, ok) == [type |-> "reply", id |-> id, ok |-> ok]

(* The server answers; it refuses to subscribe twice and to unsubscribe     *)
(* what is not subscribed.                                                  *)
ServerHandles(kind, id) ==
  \/ /\ kind = "call"
     /\ \E ok \in BOOLEAN : inbox' = Append(inbox, Reply(id, ok))
     /\ UNCHANGED serverSubs
  \/ /\ kind = "subscribe"
     /\ inbox' = Append(inbox, Reply(id, id \notin serverSubs))
     /\ serverSubs' = serverSubs \cup {id}
  \/ /\ kind = "unsubscribe"
     /\ inbox' = Append(inbox, Reply(id, id \in serverSubs))
     /\ serverSubs' = serverSubs \ {id}

Transmits(m) ==
  /\ link = "up" /\ Len(inbox) < MaxInbox
  /\ \A k \in waiting \ {m} : k[2] = m[2] => m[3] < k[3] \/ (m[3] = k[3] /\ k[1] = "unsubscribe")
  /\ Transmit(m)
  /\ ServerHandles(m[1], m[2])
  /\ UNCHANGED <<link, emitted, reopened, outcome, producerVars>>

ServerEmits ==
  /\ link = "up" /\ emitted < MaxEvents /\ Len(inbox) < MaxInbox
  /\ emitted' = emitted + 1
  /\ \E q \in serverSubs :
       inbox' = Append(inbox, [type |-> "event", id |-> q, number |-> emitted + 1])
  /\ UNCHANGED <<transportVars, link, serverSubs, reopened, outcome, producerVars>>
-----------------------------------------------------------------------------
(* Mutant: the refusal of the request is swallowed. *)
ExecuteMutant(c) ==
  /\ outcome[c] = "none"
  /\ outcome' = [outcome EXCEPT ![c] = "pending"]
  /\ Submit(<<"call", c, 0>>) \/ (ended /\ UNCHANGED transportVars)
  /\ UNCHANGED <<serverVars, producerVars>>

(* execute(): the response is awaited before the request is queued; a       *)
(* socket that was disconnected refuses the request.                        *)
Execute(c) ==
  /\ outcome[c] = "none"
  /\ \/ /\ Submit(<<"call", c, 0>>)
        /\ outcome' = [outcome EXCEPT ![c] = "pending"]
     \/ /\ ended /\ UNCHANGED transportVars
        /\ outcome' = [outcome EXCEPT ![c] = "rejected"]
  /\ UNCHANGED <<serverVars, producerVars>>

(* RpcEventProducer.start(): subscribe to the answers, then queue the       *)
(* request.  After disconnect() the second part throws.                     *)
StartProducer(q) ==
  /\ ~running[q] /\ starts[q] < MaxStarts
  /\ starts' = [starts EXCEPT ![q] = @ + 1]
  /\ running' = [running EXCEPT ![q] = TRUE]
  /\ idSubs' = [idSubs EXCEPT ![q] = @ + 1]
  /\ eventSubs' = [eventSubs EXCEPT ![q] = @ + 1]
  /\ \/ Submit(<<"subscribe", q, starts[q]>>)
     \/ ended /\ UNCHANGED transportVars
  /\ UNCHANGED <<stopDue, stops>>

(* listen(query).subscribe(): one stream per query, whose producer starts   *)
(* with its first listener.                                                 *)
Listen(q) ==
  /\ ~listening[q]
  /\ listening' = [listening EXCEPT ![q] = TRUE]
  /\ received' = [received EXCEPT ![q] = <<>>]
  /\ \/ /\ ~stopDue[q] /\ StartProducer(q)
     \/ /\ stopDue[q] /\ stopDue' = [stopDue EXCEPT ![q] = FALSE]
        /\ UNCHANGED <<transportVars, running, idSubs, eventSubs, starts, stops>>
  /\ UNCHANGED <<outcome, serverVars>>

Unlisten(q) ==
  /\ listening[q]
  /\ listening' = [listening EXCEPT ![q] = FALSE]
  /\ stopDue' = [stopDue EXCEPT ![q] = TRUE]
  /\ UNCHANGED <<transportVars, outcome, running, idSubs, eventSubs, starts, stops, received, serverVars>>

(* RpcEventProducer.stop() for the producers of Q: tell the server, unless  *)
(* the socket was disconnected.  The subscriptions stay open.               *)
StopProducers(Q) ==
  /\ running' = [q \in Queries |-> running[q] /\ q \notin Q]
  /\ stops' = [q \in Queries |-> IF q \in Q THEN stops[q] + 1 ELSE stops[q]]
  /\ waiting' = waiting \cup (IF ended THEN {} ELSE {<<"unsubscribe", q, stops[q]>> : q \in Q})
  /\ UNCHANGED <<transmitted, starts>>

(* Mutant: stop() does not tell the server. *)
StopLaterMutant(q) ==
  /\ stopDue[q]
  /\ stopDue' = [stopDue EXCEPT ![q] = FALSE]
  /\ running' = [running EXCEPT ![q] = FALSE]
  /\ UNCHANGED <<transportVars, starts, stops, outcome, listening, idSubs, eventSubs, received, serverVars>>

StopLater(q) ==
  /\ stopDue[q]
  /\ stopDue' = [stopDue EXCEPT ![q] = FALSE]
  /\ StopProducers({q})
  /\ UNCHANGED <<status, released, ended, outcome, listening, idSubs, eventSubs, received, serverVars>>

(* closeSubscriptions() and listener.error(): the stream ends and stops its *)
(* producer.  Without a listener nothing is left to stop.                   *)
FailStream(q) ==
  /\ idSubs' = [idSubs EXCEPT ![q] = 0]
  /\ eventSubs' = [eventSubs EXCEPT ![q] = 0]
  /\ listening' = [listening EXCEPT ![q] = FALSE]
  /\ IF listening[q] THEN StopProducers({q}) ELSE UNCHANGED <<running, stops, transmitted, waiting, starts>>
  /\ UNCHANGED <<stopDue, received, status, released, ended, outcome>>

(* A message reaches the client: toJsonRpcResponse and the filters by id.   *)
ReceiveReply(m) ==
  /\ m.type = "reply" /\ m.id \in Calls
  /\ outcome' = [outcome EXCEPT ![m.id] = IF @ = "pending" THEN IF m.ok THEN "resolved" ELSE "rejected" ELSE @]
  /\ UNCHANGED <<transportVars, producerVars>>

ReceiveSubscriptionReply(m) ==
  /\ m.type = "reply" /\ m.id \in Queries
  /\ IF idSubs[m.id] > 0 /\ ~m.ok
       THEN FailStream(m.id)
       ELSE /\ idSubs' = [idSubs EXCEPT ![m.id] = 0]
            /\ UNCHANGED <<transportVars, outcome, listening, running, stopDue, eventSubs, starts, stops, received>>

(* Every open idEventSubscription passes the event on. *)
ReceiveEvent(m) ==
  /\ m.type = "event"
  /\ received' = [received EXCEPT ![m.id] =
       IF listening[m.id] THEN @ \o [i \in 1 .. eventSubs[m.id] |-> m.number] ELSE @]
  /\ UNCHANGED <<transportVars, outcome, listening, running, stopDue, idSubs, eventSubs, starts, stops>>

Receive ==
  /\ inbox # <<>>
  /\ inbox' = Tail(inbox)
  /\ ReceiveReply(Head(inbox)) \/ ReceiveSubscriptionReply(Head(inbox)) \/ ReceiveEvent(Head(inbox))
  /\ UNCHANGED <<link, serverSubs, emitted, reopened>>

(* disconnect(): completing the socket's events rejects the calls that wait *)
(* and completes the streams, whose producers stop while the socket still   *)
(* accepts requests.                                                        *)
Disconnect ==
  /\ ~ended
  /\ status' = "Disconnected" /\ released' = TRUE /\ ended' = TRUE
  /\ outcome' = [c \in Calls |-> IF outcome[c] = "pending" THEN "rejected" ELSE outcome[c]]
  /\ idSubs' = [q \in Queries |-> 0]
  /\ eventSubs' = [q \in Queries |-> 0]
  /\ listening' = [q \in Queries |-> FALSE]
  /\ StopProducers({q \in Queries : listening[q]})
  /\ link' = "down" /\ serverSubs' = {} /\ inbox' = <<>>
  /\ UNCHANGED <<stopDue, received, emitted, reopened>>

(* disconnect() when the last attempt to connect timed out: the socket      *)
(* throws before it ends anything.                                          *)
DisconnectThrows ==
  /\ ~ended /\ status = "Disconnected"
  /\ Release /\ ended' = ended
  /\ UNCHANGED <<outcome, producerVars, serverVars>>
-----------------------------------------------------------------------------
Network == Opens \/ Drops \/ Retries \/ ServerCloses \/ ServerEmits \/ \E m \in Requests : Transmits(m)

User ==
  \/ \E c \in Calls : Execute(c)
  \/ \E q \in Queries : Listen(q) \/ Unlisten(q)
  \/ Disconnect \/ DisconnectThrows

Next == Network \/ User \/ Receive \/ \E q \in Queries : StopLater(q)

Spec == Init /\ [][Next]_vars

(* Messages that arrived are handled and xstream's timers fire. *)
FairSpec == Spec /\ WF_vars(Receive) /\ \A q \in Queries : WF_vars(StopLater(q))
-----------------------------------------------------------------------------
(* After disconnect() no execute() is left waiting: those that waited are   *)
(* rejected and later ones are refused (websocketclient.ts:167-176).        *)
CallsSettleAtEnd == ended => \A c \in Calls : outcome[c] # "pending"

(* execute() only resolves after its own request was transmitted, whatever  *)
(* other answers arrive (websocketclient.ts:209-211).                       *)
ResolvedWasTransmitted ==
  \A c \in Calls : outcome[c] = "resolved" => <<"call", c, 0>> \in transmitted

(* A call is settled for the right reason and never left alone: by an       *)
(* answer to its own request, or at the latest by disconnect(), although    *)
(* answers are lost with their connection.                                  *)
CallsSettleRightly == ResolvedWasTransmitted /\ CallsSettleAtEnd

(* On its first connection, once all requests are transmitted and answered, *)
(* the server has a subscription exactly for the queries with a listener or *)
(* a stop to come: restarting a stream does not cancel its own new          *)
(* subscription, and none is left behind (websocketclient.ts:45-76).        *)
ServerFollowsListeners ==
  link = "up" /\ ~reopened /\ ~released /\ waiting = {} /\ inbox = <<>> =>
    serverSubs = {q \in Queries : listening[q] \/ stopDue[q]}

StrictlyIncreasing(seq) == \A i, j \in DOMAIN seq : i < j => seq[i] < seq[j]

(* "can listen to the same query twice" (websocketclient.spec.ts:78):       *)
(* a listener gets every event once.                                        *)
EventsReceivedOnce == \A q \in Queries : StrictlyIncreasing(received[q])

(* "this will fire in case the websocket disconnects cleanly"               *)
(* (websocketclient.ts:110): then the streams complete.                     *)
CleanCloseEndsStreams ==
  \A q \in Queries : (link = "closed" /\ running[q]) ~> ~running[q]
=============================================================================
