------------------------ MODULE WebsocketClientProofs ------------------------
(***************************************************************************)
(* Proofs about the WebSocket client for any number of calls, queries,     *)
(* starts of a stream, events and messages.                                *)
(***************************************************************************)
EXTENDS WebsocketClient, SequenceTheorems, TLAPS

(* A producer runs as long as somebody listens or its stop is still to come, *)
(* so every stop belongs to a start (websocketclient.ts:45-76).              *)
ProducerInv ==
  \A q \in Queries :
    /\ running[q] <=> listening[q] \/ stopDue[q]
    /\ ~(listening[q] /\ stopDue[q])
    /\ running[q] => starts[q] = stops[q] + 1
    /\ ~running[q] => starts[q] = stops[q]
    /\ idSubs[q] <= starts[q] /\ eventSubs[q] <= starts[q]

(* The n-th requests of a query. *)
Subscribe(q, n) == <<"subscribe", q, n>>
Unsubscribe(q, n) == <<"unsubscribe", q, n>>

(* The requests of a query are those of its starts and stops, ... *)
Submitted(q) ==
  \A n \in 0 .. MaxStarts :
    /\ Subscribe(q, n) \in waiting \cup transmitted <=> n < starts[q]
    /\ Unsubscribe(q, n) \in waiting \cup transmitted <=> n < stops[q]

(* ... they are transmitted in the order subscribe, unsubscribe, subscribe, ... *)
InOrder(q) ==
  \A n, k \in 0 .. MaxStarts :
    /\ Subscribe(q, n) \in waiting /\ Subscribe(q, k) \in transmitted => k < n
    /\ Subscribe(q, n) \in waiting /\ Unsubscribe(q, k) \in transmitted => k < n
    /\ Unsubscribe(q, n) \in waiting /\ Subscribe(q, k) \in transmitted => k <= n
    /\ Unsubscribe(q, n) \in waiting /\ Unsubscribe(q, k) \in transmitted => k < n

(* ... and the server is subscribed between the two. *)
Followed(q) ==
  link = "up" =>
    (q \in serverSubs <=>
       \E n \in 0 .. MaxStarts : Subscribe(q, n) \in transmitted /\ Unsubscribe(q, n) \notin transmitted)

QueryInv(q) == Submitted(q) /\ InOrder(q) /\ Followed(q)

(* All of it as long as disconnect() was not called, on the first connection. *)
FollowInv ==
  /\ ended => released
  /\ ~released /\ ~reopened => \A q \in Queries : QueryInv(q)

-----------------------------------------------------------------------------
(* The requests that the client makes, for every number of starts. *)
LEMMA RequestFacts ==
  /\ \A c \in Calls : <<"call", c, 0>> \in Requests
  /\ \A q \in Queries, n \in 0 .. MaxStarts : Subscribe(q, n) \in Requests /\ Unsubscribe(q, n) \in Requests
BY RequestShape DEF Subscribe, Unsubscribe

(* Stopping producers that run keeps the types and the balance of starts     *)
(* and stops.                                                                *)
LEMMA StopFacts ==
  ASSUME TypeOK, ProducerInv, NEW Q \in SUBSET Queries, \A q \in Q : running[q], StopProducers(Q)
  PROVE  /\ waiting' \subseteq Requests /\ transmitted' = transmitted /\ starts' = starts
         /\ running' \in [Queries -> BOOLEAN] /\ stops' \in [Queries -> 0 .. MaxStarts]
         /\ \A q \in Q : ~running'[q] /\ stops'[q] = stops[q] + 1 /\ starts[q] = stops[q] + 1
         /\ \A q \in Queries \ Q : running'[q] = running[q] /\ stops'[q] = stops[q]
<1>b. MaxStarts \in Nat
  BY Bounds
<1>1. waiting' \subseteq Requests
  <2>1. \A q \in Q : <<"unsubscribe", q, stops[q]>> \in Requests
    BY RequestFacts DEF Unsubscribe, TypeOK, TransportTypeOK, ProducerTypeOK
  <2> QED
    BY <2>1 DEF StopProducers, TypeOK, TransportTypeOK, ProducerTypeOK
<1>2. running' \in [Queries -> BOOLEAN]
  BY DEF StopProducers, TypeOK, TransportTypeOK, ProducerTypeOK
<1>3. \A q \in Q : ~running'[q] /\ stops'[q] = stops[q] + 1 /\ starts[q] = stops[q] + 1
  BY DEF StopProducers, TypeOK, ProducerTypeOK, ProducerInv
<1>4. \A q \in Queries \ Q : running'[q] = running[q] /\ stops'[q] = stops[q]
  BY DEF StopProducers, TypeOK, TransportTypeOK, ProducerTypeOK
<1>5. stops' \in [Queries -> 0 .. MaxStarts]
  <2>0. \A q \in Queries : stops[q] \in 0 .. MaxStarts /\ starts[q] \in 0 .. MaxStarts
    BY DEF TypeOK, TransportTypeOK, ProducerTypeOK
  <2>1. \A q \in Queries : stops'[q] \in 0 .. MaxStarts
    BY <1>3, <1>4, <1>b, <2>0
  <2> QED
    BY <2>1 DEF StopProducers
<1> QED
  BY <1>1, <1>2, <1>3, <1>4, <1>5 DEF StopProducers

(* Every event that is passed on repeats its number once per subscription. *)
LEMMA PassedOn ==
  ASSUME TypeOK, NEW q \in Queries, NEW number \in 1 .. MaxEvents
  PROVE  LET new == [i \in 1 .. eventSubs[q] |-> number]
         IN  /\ new \in Seq(1 .. MaxEvents) /\ Len(new) = eventSubs[q]
             /\ \A i \in 1 .. Len(new) : new[i] = number
             /\ received[q] \o new \in Seq(1 .. MaxEvents)
<1> DEFINE new == [i \in 1 .. eventSubs[q] |-> number]
<1>1. eventSubs[q] \in Nat
  BY Bounds DEF TypeOK, TransportTypeOK, ProducerTypeOK
<1>2. new \in [1 .. eventSubs[q] -> 1 .. MaxEvents]
  OBVIOUS
<1>3. new \in Seq(1 .. MaxEvents)
  BY <1>1, <1>2, SeqDef
<1>4. Len(new) = eventSubs[q] /\ \A i \in 1 .. eventSubs[q] : new[i] = number
  BY <1>1, <1>3
<1>5. received[q] \in Seq(1 .. MaxEvents)
  BY DEF TypeOK, TransportTypeOK, ProducerTypeOK
<1> HIDE DEF new
<1>6. received[q] \o new \in Seq(1 .. MaxEvents)
  BY <1>3, <1>5
<1> QED
  BY <1>3, <1>4, <1>6 DEF new

(* What a step does to the messages under way. *)
Emptied == inbox' = <<>>
Arrived == inbox # <<>> /\ inbox' = Tail(inbox)
Added(m) == inbox' = Append(inbox, m)

(* The positions of the messages after a step. *)
LEMMA InboxFacts ==
  ASSUME inbox \in Seq(Message)
  PROVE  /\ Emptied => DOMAIN inbox' = {}
         /\ Arrived => /\ 1 \in DOMAIN inbox /\ Head(inbox) = inbox[1]
                       /\ \A i \in DOMAIN inbox' : i \in Nat /\ i > 0 /\ i + 1 \in DOMAIN inbox /\ inbox'[i] = inbox[i + 1]
         /\ \A m \in Message : Added(m) =>
              \A i \in DOMAIN inbox' : (i \in DOMAIN inbox /\ inbox'[i] = inbox[i])
                                       \/ (i \notin DOMAIN inbox /\ i = Len(inbox) + 1 /\ inbox'[i] = m)
<1>1. Emptied => DOMAIN inbox' = {}
  BY DEF Emptied
<1>2. ASSUME Arrived
      PROVE  /\ 1 \in DOMAIN inbox /\ Head(inbox) = inbox[1]
             /\ \A i \in DOMAIN inbox' : i \in Nat /\ i > 0 /\ i + 1 \in DOMAIN inbox /\ inbox'[i] = inbox[i + 1]
  BY <1>2 DEF Arrived
<1>3. ASSUME NEW m \in Message, Added(m)
      PROVE  \A i \in DOMAIN inbox' : (i \in DOMAIN inbox /\ inbox'[i] = inbox[i])
                                      \/ (i \notin DOMAIN inbox /\ i = Len(inbox) + 1 /\ inbox'[i] = m)
  BY <1>3 DEF Added
<1> QED
  BY <1>1, <1>2, <1>3

(* What the server sends in answer to a request. *)
LEMMA TransmitFacts ==
  ASSUME TypeOK, NEW r \in Requests, Transmits(r)
  PROVE  /\ transmitted' = transmitted \cup {r}
         /\ \E m \in Message : Added(m) /\ m.type = "reply" /\ m.id = r[2]
<1>1. (r[1] = "call" /\ r[2] \in Calls) \/ (r[1] # "call" /\ r[2] \in Queries)
  BY RequestShape
<1>2. \A ok \in BOOLEAN : Reply(r[2], ok) \in Message /\ Reply(r[2], ok).type = "reply" /\ Reply(r[2], ok).id = r[2]
  BY <1>1 DEF Reply, Message
<1>3. \E ok \in BOOLEAN : Added(Reply(r[2], ok))
  <2> DEFINE has == r[2] \in serverSubs
             hasNot == r[2] \notin serverSubs
  <2>1. has \in BOOLEAN /\ hasNot \in BOOLEAN
    OBVIOUS
  <2>2. \/ \E ok \in BOOLEAN : inbox' = Append(inbox, Reply(r[2], ok))
        \/ inbox' = Append(inbox, Reply(r[2], has))
        \/ inbox' = Append(inbox, Reply(r[2], hasNot))
    BY Zenon DEF Transmits, ServerHandles
  <2> HIDE DEF has, hasNot
  <2> QED
    BY <2>1, <2>2, Zenon DEF Added
<1> QED
  BY <1>2, <1>3 DEF Transmits, Transmit

(* Every step keeps the types and ProducerInv.  The steps of the network and *)
(* of execute() leave the producers alone; for the others the producers that *)
(* they stop are the ones that run.                                          *)
LEMMA NetworkTypes == TypeOK /\ ProducerInv /\ Network => TypeOK' /\ ProducerInv'
<1> SUFFICES ASSUME TypeOK, ProducerInv, Network PROVE TypeOK' /\ ProducerInv'
  OBVIOUS
<1>1. UNCHANGED <<producerVars, outcome, released, ended>>
  BY DEF Network, Opens, Drops, Retries, ServerCloses, ServerEmits, Transmits, Transmit, StatusChange, transportVars
<1>2. ProducerInv' /\ ProducerTypeOK'
  BY <1>1 DEF TypeOK, ProducerTypeOK, ProducerInv, producerVars
<1>3. TransportTypeOK'
  BY <1>1 DEF TypeOK, TransportTypeOK, Network, Opens, Drops, Retries, ServerCloses, ServerEmits, Transmits,
              Transmit, StatusChange, transportVars
<1>4. ServerTypeOK'
  <2> USE DEF TypeOK, ServerTypeOK
  <2>1. <<>> \in Seq(Message)
    OBVIOUS
  <2>2. CASE Opens
    <3>1. reopened' \in BOOLEAN
      BY <2>2, Zenon DEF Opens
    <3> QED
      BY <2>1, <2>2, <3>1 DEF Opens
  <2>3. CASE Drops \/ Retries \/ ServerCloses
    BY <2>1, <2>3 DEF Drops, Retries, ServerCloses, serverVars
  <2>4. CASE ServerEmits
    <3>1. PICK q \in serverSubs : inbox' = Append(inbox, [type |-> "event", id |-> q, number |-> emitted + 1])
      BY <2>4 DEF ServerEmits
    <3>2. emitted' \in 0 .. MaxEvents /\ emitted + 1 \in 1 .. MaxEvents
      BY <2>4, Bounds DEF ServerEmits
    <3>3. [type |-> "event", id |-> q, number |-> emitted + 1] \in Message
      BY <3>2 DEF Message
    <3>4. inbox' \in Seq(Message)
      BY <3>1, <3>3
    <3> QED
      BY <2>4, <3>2, <3>4 DEF ServerEmits
  <2>5. ASSUME NEW r \in Requests, Transmits(r) PROVE ServerTypeOK'
    <3>1. PICK m \in Message : inbox' = Append(inbox, m)
      BY <2>5, TransmitFacts DEF Added
    <3>2. r[2] \in Queries \/ r[1] = "call"
      BY RequestShape
    <3>3. serverSubs' \subseteq Queries
      BY <2>5, <3>2 DEF Transmits, ServerHandles
    <3> QED
      BY <2>5, <3>1, <3>3 DEF Transmits
  <2> QED
    BY <2>2, <2>3, <2>4, <2>5 DEF Network
<1> QED
  BY <1>1, <1>2, <1>3, <1>4 DEF TypeOK

(* The steps of the producers and of their listeners. *)
LEMMA ProducerTypes ==
  ASSUME TypeOK, ProducerInv, NEW q \in Queries, Listen(q) \/ Unlisten(q) \/ StopLater(q)
  PROVE  TypeOK' /\ ProducerInv'
<1>b. MaxStarts \in Nat /\ <<>> \in Seq(1 .. MaxEvents)
  BY Bounds
<1>1. UNCHANGED <<outcome, serverVars>>
  BY DEF Listen, Unlisten, StopLater
<1>2. ServerTypeOK' /\ outcome' \in [Calls -> {"none", "pending", "resolved", "rejected"}]
  BY <1>1 DEF TypeOK, ServerTypeOK, serverVars
<1>3. CASE Unlisten(q)
  BY <1>2, <1>3 DEF Unlisten, TypeOK, TransportTypeOK, ProducerTypeOK, ProducerInv, transportVars
<1>4. CASE StopLater(q)
  <2>1. StopProducers({q}) /\ \A p \in {q} : running[p]
    BY <1>4 DEF StopLater, ProducerInv
  <2>2. /\ waiting' \subseteq Requests /\ transmitted' = transmitted /\ starts' = starts
        /\ running' \in [Queries -> BOOLEAN] /\ stops' \in [Queries -> 0 .. MaxStarts]
        /\ ~running'[q] /\ stops'[q] = stops[q] + 1 /\ starts[q] = stops[q] + 1
        /\ \A p \in Queries \ {q} : running'[p] = running[p] /\ stops'[p] = stops[p]
    BY <2>1, StopFacts
  <2>3. TransportTypeOK'
    BY <1>4, <2>2 DEF StopLater, TypeOK, TransportTypeOK
  <2>4. ProducerTypeOK'
    BY <1>4, <2>2 DEF StopLater, TypeOK, ProducerTypeOK
  <2>5. ProducerInv'
    BY <1>4, <2>2 DEF StopLater, TypeOK, ProducerTypeOK, ProducerInv
  <2> QED
    BY <1>2, <2>3, <2>4, <2>5 DEF TypeOK
<1>5. CASE Listen(q) /\ stopDue[q]
  <2>1. TransportTypeOK' /\ ProducerTypeOK'
    BY <1>b, <1>5 DEF Listen, StartProducer, TypeOK, TransportTypeOK, ProducerTypeOK, transportVars
  <2>2. ProducerInv'
    BY <1>5 DEF Listen, StartProducer, TypeOK, ProducerTypeOK, ProducerInv
  <2> QED
    BY <1>2, <2>1, <2>2 DEF TypeOK
<1>6. CASE Listen(q) /\ ~stopDue[q]
  <2>1. StartProducer(q)
    BY <1>6 DEF Listen
  <2>2. TransportTypeOK'
    <3>1. Subscribe(q, starts[q]) \in Requests
      BY RequestFacts DEF TypeOK, ProducerTypeOK
    <3> QED
      BY <2>1, <3>1 DEF StartProducer, Submit, Subscribe, TypeOK, TransportTypeOK, transportVars
  <2>3. starts[q] < MaxStarts /\ starts[q] + 1 \in 0 .. MaxStarts
    BY <1>b, <2>1 DEF StartProducer, TypeOK, ProducerTypeOK
  <2>4. idSubs[q] + 1 \in 0 .. MaxStarts /\ eventSubs[q] + 1 \in 0 .. MaxStarts
    BY <1>b, <2>3 DEF TypeOK, ProducerTypeOK, ProducerInv
  <2>5. ProducerTypeOK'
    BY <1>b, <1>6, <2>1, <2>3, <2>4 DEF Listen, StartProducer, TypeOK, ProducerTypeOK
  <2>6. ProducerInv'
    BY <1>6, <2>1 DEF Listen, StartProducer, TypeOK, ProducerTypeOK, ProducerInv
  <2> QED
    BY <1>2, <2>2, <2>5, <2>6 DEF TypeOK
<1> QED
  BY <1>3, <1>4, <1>5, <1>6

(* execute() and disconnect(). *)
LEMMA UserTypes ==
  ASSUME TypeOK, ProducerInv, (\E c \in Calls : Execute(c)) \/ Disconnect \/ DisconnectThrows
  PROVE  TypeOK' /\ ProducerInv'
<1>1. ASSUME NEW c \in Calls, Execute(c) PROVE TypeOK' /\ ProducerInv'
  <2>1. UNCHANGED <<serverVars, producerVars>>
    BY <1>1 DEF Execute
  <2>2. <<"call", c, 0>> \in Requests
    BY RequestFacts
  <2>3. TransportTypeOK' /\ outcome' \in [Calls -> {"none", "pending", "resolved", "rejected"}]
    BY <1>1, <2>2 DEF Execute, Submit, TypeOK, TransportTypeOK, transportVars
  <2> QED
    BY <2>1, <2>3 DEF TypeOK, ProducerTypeOK, ServerTypeOK, ProducerInv, serverVars, producerVars
<1>2. CASE DisconnectThrows
  <2>1. TransportTypeOK'
    BY <1>2 DEF DisconnectThrows, Release, TypeOK, TransportTypeOK
  <2> QED
    BY <1>2, <2>1 DEF DisconnectThrows, TypeOK, ProducerTypeOK, ServerTypeOK, ProducerInv, serverVars, producerVars
<1>3. CASE Disconnect
  <2> DEFINE Q == {q \in Queries : listening[q]}
  <2>b. MaxStarts \in Nat /\ <<>> \in Seq(Message)
    BY Bounds
  <2>1. StopProducers(Q) /\ \A q \in Q : running[q]
    BY <1>3 DEF Disconnect, ProducerInv
  <2>2. /\ waiting' \subseteq Requests /\ transmitted' = transmitted /\ starts' = starts
        /\ running' \in [Queries -> BOOLEAN] /\ stops' \in [Queries -> 0 .. MaxStarts]
        /\ \A q \in Q : ~running'[q] /\ stops'[q] = stops[q] + 1 /\ starts[q] = stops[q] + 1
        /\ \A q \in Queries \ Q : running'[q] = running[q] /\ stops'[q] = stops[q]
    BY <2>1, StopFacts
  <2>3. TransportTypeOK' /\ ServerTypeOK'
    BY <1>3, <2>b, <2>2 DEF Disconnect, TypeOK, TransportTypeOK, ServerTypeOK
  <2>4. outcome' \in [Calls -> {"none", "pending", "resolved", "rejected"}]
    BY <1>3 DEF Disconnect, TypeOK
  <2>5. ProducerTypeOK'
    BY <1>3, <2>b, <2>2 DEF Disconnect, TypeOK, ProducerTypeOK
  <2>6. ProducerInv'
    <3> SUFFICES ASSUME NEW q \in Queries
                 PROVE  /\ running'[q] <=> listening'[q] \/ stopDue'[q]
                        /\ ~(listening'[q] /\ stopDue'[q])
                        /\ running'[q] => starts'[q] = stops'[q] + 1
                        /\ ~running'[q] => starts'[q] = stops'[q]
                        /\ idSubs'[q] <= starts'[q] /\ eventSubs'[q] <= starts'[q]
      BY DEF ProducerInv
    <3>1. stopDue' = stopDue /\ ~listening'[q] /\ idSubs'[q] = 0 /\ eventSubs'[q] = 0
      BY <1>3 DEF Disconnect
    <3>2. CASE q \in Q
      BY <2>2, <3>1, <3>2 DEF ProducerInv, TypeOK, ProducerTypeOK
    <3>3. CASE q \notin Q
      BY <2>2, <3>1, <3>3 DEF ProducerInv, TypeOK, ProducerTypeOK
    <3> QED
      BY <3>2, <3>3
  <2> QED
    BY <2>3, <2>4, <2>5, <2>6 DEF TypeOK
<1> QED
  BY <1>1, <1>2, <1>3

(* The two sorts of messages. *)
LEMMA MessageFacts ==
  ASSUME NEW m \in Message
  PROVE  /\ m.type \in {"reply", "event"}
         /\ m.type = "reply" => m.id \in Calls \cup Queries /\ m.ok \in BOOLEAN
         /\ m.type = "event" => m.id \in Queries /\ m.number \in 1 .. MaxEvents
BY DEF Message

(* A refused subscription stops a stream that has a listener. *)
LEMMA FailTypes ==
  ASSUME TypeOK, ProducerInv, NEW q \in Queries, FailStream(q)
  PROVE  TransportTypeOK' /\ ProducerTypeOK' /\ ProducerInv'
<1>b. MaxStarts \in Nat /\ 0 \in 0 .. MaxStarts
  BY Bounds
<1>1. CASE listening[q]
  <2>1. StopProducers({q}) /\ \A p \in {q} : running[p]
    BY <1>1 DEF FailStream, ProducerInv
  <2>2. /\ waiting' \subseteq Requests /\ transmitted' = transmitted /\ starts' = starts
        /\ running' \in [Queries -> BOOLEAN] /\ stops' \in [Queries -> 0 .. MaxStarts]
        /\ ~running'[q] /\ stops'[q] = stops[q] + 1 /\ starts[q] = stops[q] + 1
        /\ \A p \in Queries \ {q} : running'[p] = running[p] /\ stops'[p] = stops[p]
    BY <2>1, StopFacts
  <2>3. TransportTypeOK'
    BY <2>2 DEF FailStream, TypeOK, TransportTypeOK
  <2>i. /\ [idSubs EXCEPT ![q] = 0] \in [Queries -> 0 .. MaxStarts]
        /\ [eventSubs EXCEPT ![q] = 0] \in [Queries -> 0 .. MaxStarts]
        /\ [listening EXCEPT ![q] = FALSE] \in [Queries -> BOOLEAN]
    BY <1>b DEF TypeOK, ProducerTypeOK
  <2>4. ProducerTypeOK'
    BY <2>2, <2>i DEF FailStream, TypeOK, ProducerTypeOK
  <2>5. ProducerInv'
    BY <1>1, <2>2 DEF FailStream, TypeOK, ProducerTypeOK, ProducerInv
  <2> QED
    BY <2>3, <2>4, <2>5
<1>2. CASE ~listening[q]
  BY <1>b, <1>2 DEF FailStream, TypeOK, TransportTypeOK, ProducerTypeOK, ProducerInv
<1> QED
  BY <1>1, <1>2

(* The messages that arrive. *)
LEMMA ReceiveTypes == TypeOK /\ ProducerInv /\ Receive => TypeOK' /\ ProducerInv'
<1> SUFFICES ASSUME TypeOK, ProducerInv, Receive PROVE TypeOK' /\ ProducerInv'
  OBVIOUS
<1> DEFINE m == Head(inbox)
<1>b. MaxStarts \in Nat /\ 0 \in 0 .. MaxStarts
  BY Bounds
<1>1. m \in Message /\ Tail(inbox) \in Seq(Message)
  BY DEF Receive, TypeOK, ServerTypeOK
<1>2. ServerTypeOK'
  BY <1>1 DEF Receive, TypeOK, ServerTypeOK
<1>3. ReceiveReply(m) \/ ReceiveSubscriptionReply(m) \/ ReceiveEvent(m)
  BY DEF Receive
<1> HIDE DEF m
<1>4. CASE ReceiveReply(m)
  <2>1. outcome' \in [Calls -> {"none", "pending", "resolved", "rejected"}]
    BY <1>4 DEF ReceiveReply, TypeOK
  <2> QED
    BY <1>2, <1>4, <2>1
    DEF ReceiveReply, TypeOK, TransportTypeOK, ProducerTypeOK, ProducerInv, transportVars, producerVars
<1>5. CASE ReceiveSubscriptionReply(m)
  <2>1. m.id \in Queries
    BY <1>5 DEF ReceiveSubscriptionReply
  <2>2. CASE FailStream(m.id)
    <3>1. outcome' = outcome
      BY <2>2 DEF FailStream
    <3> QED
      BY <1>2, <2>1, <2>2, <3>1, FailTypes DEF TypeOK
  <2>3. CASE ~FailStream(m.id)
    <3>1. /\ idSubs' = [idSubs EXCEPT ![m.id] = 0]
          /\ UNCHANGED <<transportVars, outcome, listening, running, stopDue, eventSubs, starts, stops, received>>
      BY <1>5, <2>3 DEF ReceiveSubscriptionReply
    <3>2. idSubs' \in [Queries -> 0 .. MaxStarts]
      BY <1>b, <2>1, <3>1 DEF TypeOK, ProducerTypeOK
    <3>3. ProducerInv'
      BY <2>1, <3>1 DEF TypeOK, ProducerTypeOK, ProducerInv
    <3> QED
      BY <1>2, <3>1, <3>2, <3>3 DEF TypeOK, TransportTypeOK, ProducerTypeOK, transportVars
  <2> QED
    BY <2>2, <2>3
<1>6. CASE ReceiveEvent(m)
  <2>1. m.id \in Queries /\ m.number \in 1 .. MaxEvents
    BY <1>1, <1>6, MessageFacts DEF ReceiveEvent
  <2>2. received[m.id] \o [i \in 1 .. eventSubs[m.id] |-> m.number] \in Seq(1 .. MaxEvents)
    BY <2>1, PassedOn
  <2>3. received' \in [Queries -> Seq(1 .. MaxEvents)]
    BY <1>6, <2>1, <2>2 DEF ReceiveEvent, TypeOK, ProducerTypeOK
  <2> QED
    BY <1>2, <1>6, <2>3 DEF ReceiveEvent, TypeOK, TransportTypeOK, ProducerTypeOK, ProducerInv, transportVars
<1> QED
  BY <1>3, <1>4, <1>5, <1>6

(* The types and ProducerInv are inductive. *)
LEMMA TypesStep == TypeOK /\ ProducerInv /\ [Next]_vars => TypeOK' /\ ProducerInv'
<1> SUFFICES ASSUME TypeOK, ProducerInv, [Next]_vars PROVE TypeOK' /\ ProducerInv'
  OBVIOUS
<1>1. CASE UNCHANGED vars
  BY <1>1 DEF vars, TypeOK, TransportTypeOK, ProducerTypeOK, ServerTypeOK, ProducerInv, producerVars, serverVars
<1> QED
  BY <1>1, NetworkTypes, ProducerTypes, UserTypes, ReceiveTypes DEF Next, User

(* Every variable keeps its type, and a stop always belongs to a start: no   *)
(* query is stopped more often than started and no request is made up        *)
(* (websocketclient.ts:45-76).                                               *)
THEOREM TypeCorrect == Spec => [](TypeOK /\ ProducerInv)
<1>1. Init => TypeOK /\ ProducerInv
  <2> SUFFICES ASSUME Init PROVE TypeOK /\ ProducerInv
    OBVIOUS
  <2>1. 0 \in 0 .. MaxStarts /\ 0 \in 0 .. MaxEvents /\ <<>> \in Seq(1 .. MaxEvents) /\ <<>> \in Seq(Message)
    BY Bounds
  <2>2. TransportTypeOK /\ ServerTypeOK
    BY <2>1 DEF Init, TransportTypeOK, ServerTypeOK
  <2>3. ProducerTypeOK /\ ProducerInv
    BY <2>1 DEF Init, ProducerTypeOK, ProducerInv
  <2> QED
    BY <2>2, <2>3 DEF Init, TypeOK
<1> QED
  BY <1>1, TypesStep, PTL DEF Spec

-----------------------------------------------------------------------------
(* The answers to calls under way belong to requests that were transmitted. *)
AnswersAreDue ==
  \A i \in DOMAIN inbox :
    inbox[i].type = "reply" /\ inbox[i].id \in Calls => <<"call", inbox[i].id, 0>> \in transmitted

(* Answers are only added by a transmission, of the request they answer. *)
LEMMA AnswersStep == TypeOK /\ AnswersAreDue /\ [Next]_vars => AnswersAreDue' /\ transmitted \subseteq transmitted'
<1> SUFFICES ASSUME TypeOK, AnswersAreDue, [Next]_vars PROVE AnswersAreDue' /\ transmitted \subseteq transmitted'
  OBVIOUS
<1>t. inbox \in Seq(Message)
  BY DEF TypeOK, ServerTypeOK
<1>1. CASE transmitted' = transmitted /\ (Emptied \/ Arrived \/ inbox' = inbox)
  BY <1>1, <1>t, InboxFacts DEF AnswersAreDue
<1>2. CASE ServerEmits
  <2>1. PICK q \in serverSubs : inbox' = Append(inbox, [type |-> "event", id |-> q, number |-> emitted + 1])
    BY <1>2 DEF ServerEmits
  <2> DEFINE m == [type |-> "event", id |-> q, number |-> emitted + 1]
  <2>2. m \in Message /\ m.type = "event" /\ Added(m)
    BY <1>2, <2>1, Bounds DEF ServerEmits, TypeOK, ServerTypeOK, Message, Added
  <2>3. transmitted' = transmitted
    BY <1>2 DEF ServerEmits, transportVars
  <2> HIDE DEF m
  <2> QED
    BY <1>t, <2>2, <2>3, InboxFacts DEF AnswersAreDue
<1>3. ASSUME NEW r \in Requests, Transmits(r) PROVE AnswersAreDue' /\ transmitted \subseteq transmitted'
  <2>1. PICK m \in Message : Added(m) /\ m.type = "reply" /\ m.id = r[2]
    BY <1>3, TransmitFacts
  <2>2. transmitted' = transmitted \cup {r}
    BY <1>3, TransmitFacts
  <2>3. m.id \in Calls => <<"call", m.id, 0>> = r
    BY <2>1, RequestShape, Disjointness
  <2> QED
    BY <1>t, <2>1, <2>2, <2>3, InboxFacts DEF AnswersAreDue
<1>4. CASE Opens \/ Drops \/ Retries \/ ServerCloses \/ Disconnect \/ DisconnectThrows
  BY <1>1, <1>4
  DEF Opens, Drops, Retries, ServerCloses, Disconnect, DisconnectThrows, StopProducers, Release, StatusChange,
      Emptied, serverVars, transportVars
<1>5. ASSUME NEW c \in Calls, Execute(c) PROVE AnswersAreDue' /\ transmitted \subseteq transmitted'
  BY <1>1, <1>5 DEF Execute, Submit, serverVars, transportVars
<1>6. ASSUME NEW q \in Queries, Listen(q) \/ Unlisten(q) \/ StopLater(q)
      PROVE  AnswersAreDue' /\ transmitted \subseteq transmitted'
  BY <1>1, <1>6 DEF Listen, Unlisten, StopLater, StartProducer, StopProducers, Submit, serverVars, transportVars
<1>7. CASE Receive
  <2>1. Arrived
    BY <1>7 DEF Receive, Arrived
  <2>2. transmitted' = transmitted
    BY <1>7 DEF Receive, ReceiveReply, ReceiveSubscriptionReply, ReceiveEvent, FailStream, StopProducers, transportVars
  <2> QED
    BY <1>1, <2>1, <2>2
<1>8. CASE UNCHANGED vars
  BY <1>1, <1>8 DEF vars, serverVars
<1> QED
  BY <1>2, <1>3, <1>4, <1>5, <1>6, <1>7, <1>8 DEF Next, Network, User

(* Who settles a call: its own answer, a refusing socket or disconnect(). *)
LEMMA CallStep ==
  TypeOK /\ AnswersAreDue /\ CallsSettleRightly /\ [Next]_vars => CallsSettleRightly'
<1> SUFFICES ASSUME TypeOK, AnswersAreDue, CallsSettleRightly, [Next]_vars PROVE CallsSettleRightly'
  OBVIOUS
<1> USE DEF CallsSettleRightly, ResolvedWasTransmitted, CallsSettleAtEnd
<1>m. transmitted \subseteq transmitted'
  BY AnswersStep
<1>t. outcome \in [Calls -> {"none", "pending", "resolved", "rejected"}]
  BY DEF TypeOK
<1>1. CASE outcome' = outcome /\ ended' = ended
  BY <1>1, <1>m
<1>2. ASSUME NEW c \in Calls, Execute(c) PROVE CallsSettleRightly'
  BY <1>2, <1>m, <1>t DEF Execute, Submit, transportVars
<1>3. CASE Disconnect
  BY <1>3, <1>m, <1>t DEF Disconnect
<1>4. CASE Receive
  <2>1. inbox \in Seq(Message) /\ inbox # <<>> /\ Head(inbox) = inbox[1] /\ 1 \in DOMAIN inbox
    BY <1>4 DEF Receive, TypeOK, ServerTypeOK
  <2>2. CASE ReceiveReply(Head(inbox))
    <3>1. <<"call", Head(inbox).id, 0>> \in transmitted
      BY <2>1, <2>2 DEF ReceiveReply, AnswersAreDue
    <3> QED
      BY <1>m, <1>t, <2>2, <3>1 DEF ReceiveReply, transportVars
  <2>3. CASE ReceiveSubscriptionReply(Head(inbox)) \/ ReceiveEvent(Head(inbox))
    BY <1>1, <2>3 DEF ReceiveSubscriptionReply, ReceiveEvent, FailStream, transportVars
  <2> QED
    BY <1>4, <2>2, <2>3 DEF Receive
<1>5. CASE Network
  BY <1>1, <1>5
  DEF Network, Opens, Drops, Retries, ServerCloses, ServerEmits, Transmits, Transmit, StatusChange, transportVars
<1>6. CASE DisconnectThrows
  BY <1>1, <1>6 DEF DisconnectThrows
<1>7. ASSUME NEW q \in Queries, Listen(q) \/ Unlisten(q) \/ StopLater(q) PROVE CallsSettleRightly'
  BY <1>1, <1>7 DEF Listen, Unlisten, StopLater, StartProducer, Submit, transportVars
<1>8. CASE UNCHANGED vars
  BY <1>1, <1>8 DEF vars
<1> QED
  BY <1>2, <1>3, <1>4, <1>5, <1>6, <1>7, <1>8 DEF Next, User

(* An execute() promise resolves only after its request was transmitted, and *)
(* none is left pending by disconnect(), for any number of calls and however *)
(* connections break (websocketclient.ts:167-211).                           *)
THEOREM CallsStayRight == Spec => []CallsSettleRightly
<1>1. Init => AnswersAreDue /\ CallsSettleRightly
  BY DEF Init, AnswersAreDue, CallsSettleRightly, ResolvedWasTransmitted, CallsSettleAtEnd
<1> QED
  BY <1>1, AnswersStep, CallStep, TypeCorrect, PTL DEF Spec

-----------------------------------------------------------------------------
(* The requests can be told apart, and there are no others. *)
LEMMA RequestNames ==
  /\ \A q, p \in Queries : \A n, k \in 0 .. MaxStarts :
       /\ Subscribe(q, n) = Subscribe(p, k) <=> q = p /\ n = k
       /\ Unsubscribe(q, n) = Unsubscribe(p, k) <=> q = p /\ n = k
       /\ Subscribe(q, n) # Unsubscribe(p, k)
  /\ \A q \in Queries : \A n \in 0 .. MaxStarts : \A c \in Calls :
       Subscribe(q, n) # <<"call", c, 0>> /\ Unsubscribe(q, n) # <<"call", c, 0>>
  /\ \A r \in Requests : \/ \E c \in Calls : r = <<"call", c, 0>>
                         \/ \E q \in Queries, n \in 0 .. MaxStarts : r = Subscribe(q, n) \/ r = Unsubscribe(q, n)
<1>1. \A q, p \in Queries : \A n, k \in 0 .. MaxStarts :
       /\ Subscribe(q, n) = Subscribe(p, k) <=> q = p /\ n = k
       /\ Unsubscribe(q, n) = Unsubscribe(p, k) <=> q = p /\ n = k
       /\ Subscribe(q, n) # Unsubscribe(p, k)
  BY DEF Subscribe, Unsubscribe
<1>2. \A q \in Queries : \A n \in 0 .. MaxStarts : \A c \in Calls :
       Subscribe(q, n) # <<"call", c, 0>> /\ Unsubscribe(q, n) # <<"call", c, 0>>
  BY DEF Subscribe, Unsubscribe
<1>3. ASSUME NEW r \in Requests
      PROVE  \/ \E c \in Calls : r = <<"call", c, 0>>
             \/ \E q \in Queries, n \in 0 .. MaxStarts : r = Subscribe(q, n) \/ r = Unsubscribe(q, n)
  BY RequestShape DEF Subscribe, Unsubscribe
<1> QED
  BY <1>1, <1>2, <1>3

(* A start queues the next subscription. *)
LEMMA StartFollows ==
  ASSUME TypeOK, ProducerInv, NEW q \in Queries, NEW p \in Queries, QueryInv(p),
         ~running[q], starts[q] < MaxStarts,
         waiting' = waiting \cup {Subscribe(q, starts[q])},
         starts' = [starts EXCEPT ![q] = @ + 1],
         UNCHANGED <<transmitted, stops, link, serverSubs>>
  PROVE  QueryInv(p)'
<1>t. /\ MaxStarts \in Nat /\ starts[q] \in 0 .. MaxStarts /\ stops[q] = starts[q]
      /\ starts[p] \in 0 .. MaxStarts /\ stops[p] \in 0 .. MaxStarts
  BY Bounds DEF TypeOK, ProducerTypeOK, ProducerInv
<1>1. \A n \in 0 .. MaxStarts :
        /\ Subscribe(p, n) \in waiting' <=> Subscribe(p, n) \in waiting \/ (p = q /\ n = starts[q])
        /\ Unsubscribe(p, n) \in waiting' <=> Unsubscribe(p, n) \in waiting
  BY <1>t, RequestNames
<1>2. starts'[p] = IF p = q THEN starts[q] + 1 ELSE starts[p]
  BY DEF TypeOK, ProducerTypeOK
<1>3. Submitted(p)'
  BY <1>t, <1>1, <1>2 DEF QueryInv, Submitted, Subscribe, Unsubscribe
<1>4. InOrder(p)'
  BY <1>t, <1>1 DEF QueryInv, Submitted, InOrder, Subscribe, Unsubscribe
<1>5. Followed(p)'
  BY DEF QueryInv, Followed, Subscribe, Unsubscribe
<1> QED
  BY <1>3, <1>4, <1>5 DEF QueryInv

(* A stop queues the next end of a subscription. *)
LEMMA StopFollows ==
  ASSUME TypeOK, ProducerInv, NEW q \in Queries, NEW p \in Queries, QueryInv(p),
         running[q], ~ended, StopProducers({q}), UNCHANGED <<link, serverSubs>>
  PROVE  QueryInv(p)'
<1>t. /\ MaxStarts \in Nat /\ stops[q] \in 0 .. MaxStarts /\ starts[q] = stops[q] + 1
      /\ starts[p] \in 0 .. MaxStarts /\ stops[p] \in 0 .. MaxStarts
  BY Bounds DEF TypeOK, ProducerTypeOK, ProducerInv
<1>s. waiting' = waiting \cup {Unsubscribe(q, stops[q])} /\ transmitted' = transmitted /\ starts' = starts
  BY DEF StopProducers, Unsubscribe
<1>1. \A n \in 0 .. MaxStarts :
        /\ Unsubscribe(p, n) \in waiting' <=> Unsubscribe(p, n) \in waiting \/ (p = q /\ n = stops[q])
        /\ Subscribe(p, n) \in waiting' <=> Subscribe(p, n) \in waiting
  BY <1>t, <1>s, RequestNames
<1>2. stops'[p] = IF p = q THEN stops[q] + 1 ELSE stops[p]
  BY DEF StopProducers
<1>3. Submitted(p)'
  BY <1>t, <1>s, <1>1, <1>2 DEF QueryInv, Submitted, Subscribe, Unsubscribe
<1>4. InOrder(p)'
  BY <1>t, <1>s, <1>1 DEF QueryInv, Submitted, InOrder, Subscribe, Unsubscribe
<1>5. Followed(p)'
  BY <1>s DEF QueryInv, Followed, Subscribe, Unsubscribe
<1> QED
  BY <1>3, <1>4, <1>5 DEF QueryInv

(* A transmission of another request, for example of a call. *)
LEMMA OtherFollows ==
  ASSUME NEW p \in Queries, QueryInv(p), UNCHANGED <<starts, stops, link>>, p \in serverSubs' <=> p \in serverSubs,
         \A n \in 0 .. MaxStarts :
           /\ Subscribe(p, n) \in waiting' <=> Subscribe(p, n) \in waiting
           /\ Unsubscribe(p, n) \in waiting' <=> Unsubscribe(p, n) \in waiting
           /\ Subscribe(p, n) \in transmitted' <=> Subscribe(p, n) \in transmitted
           /\ Unsubscribe(p, n) \in transmitted' <=> Unsubscribe(p, n) \in transmitted
  PROVE  QueryInv(p)'
BY DEF QueryInv, Submitted, InOrder, Followed, Subscribe, Unsubscribe

(* The transmission of a subscription finds the server not subscribed, that  *)
(* of its end finds it subscribed.                                           *)
LEMMA TransmitFollows ==
  ASSUME TypeOK, ProducerInv, NEW r \in Requests, Transmits(r), NEW p \in Queries, QueryInv(p)
  PROVE  QueryInv(p)'
<1>t. /\ MaxStarts \in Nat /\ starts[p] \in 0 .. MaxStarts /\ stops[p] \in 0 .. MaxStarts
      /\ starts[p] = stops[p] \/ starts[p] = stops[p] + 1
  BY Bounds DEF TypeOK, ProducerTypeOK, ProducerInv
<1>1. /\ r \in waiting /\ waiting' = waiting \ {r} /\ transmitted' = transmitted \cup {r}
      /\ UNCHANGED <<starts, stops, link>> /\ link = "up"
      /\ ServerHandles(r[1], r[2])
  BY DEF Transmits, Transmit, producerVars
<1>o. \A k \in waiting \ {r} : k[2] = r[2] => r[3] < k[3] \/ (r[3] = k[3] /\ k[1] = "unsubscribe")
  BY DEF Transmits
<1>2. CASE \E c \in Calls : r = <<"call", c, 0>>
  <2>1. serverSubs' = serverSubs
    BY <1>1, <1>2 DEF ServerHandles
  <2> QED
    BY <1>1, <1>2, <2>1, RequestNames, OtherFollows
<1>3. ASSUME NEW q \in Queries, NEW m \in 0 .. MaxStarts, r = Subscribe(q, m) \/ r = Unsubscribe(q, m), q # p
      PROVE  QueryInv(p)'
  <2>1. p \in serverSubs' <=> p \in serverSubs
    BY <1>1, <1>3 DEF ServerHandles, Subscribe, Unsubscribe
  <2> QED
    BY <1>1, <1>3, <2>1, RequestNames, OtherFollows
<1>4. ASSUME NEW m \in 0 .. MaxStarts, r = Subscribe(p, m) PROVE QueryInv(p)'
  <2>1. \A n \in 0 .. MaxStarts :
          /\ Subscribe(p, n) \in waiting' <=> Subscribe(p, n) \in waiting /\ n # m
          /\ Unsubscribe(p, n) \in waiting' <=> Unsubscribe(p, n) \in waiting
          /\ Subscribe(p, n) \in transmitted' <=> Subscribe(p, n) \in transmitted \/ n = m
          /\ Unsubscribe(p, n) \in transmitted' <=> Unsubscribe(p, n) \in transmitted
    BY <1>1, <1>4, RequestNames
  <2>2. \A n \in 0 .. MaxStarts :
          /\ Subscribe(p, n) \in waiting /\ n # m => m < n
          /\ Unsubscribe(p, n) \in waiting => m <= n
    <3>1. ASSUME NEW n \in 0 .. MaxStarts, Subscribe(p, n) \in waiting, n # m PROVE m < n
      BY <1>o, <1>4, <3>1 DEF Subscribe
    <3>2. ASSUME NEW n \in 0 .. MaxStarts, Unsubscribe(p, n) \in waiting PROVE m <= n
      BY <1>o, <1>4, <3>2 DEF Subscribe, Unsubscribe
    <3> QED
      BY <3>1, <3>2
  <2>3. p \in serverSubs'
    BY <1>1, <1>4 DEF ServerHandles, Subscribe
  <2>4. Subscribe(p, m) \in waiting
    BY <1>1, <1>4
  <2>5. Submitted(p)'
    BY <1>1, <2>1, <2>4 DEF QueryInv, Submitted, Subscribe, Unsubscribe
  <2>6. InOrder(p)'
    BY <2>1, <2>2 DEF QueryInv, InOrder, Subscribe, Unsubscribe
  <2>7. Unsubscribe(p, m) \notin transmitted
    BY <2>4 DEF QueryInv, InOrder
  <2>8. Followed(p)'
    BY <1>4, <2>1, <2>3, <2>7 DEF Followed, Subscribe, Unsubscribe
  <2> QED
    BY <2>5, <2>6, <2>8 DEF QueryInv
<1>5. ASSUME NEW m \in 0 .. MaxStarts, r = Unsubscribe(p, m) PROVE QueryInv(p)'
  <2>1. \A n \in 0 .. MaxStarts :
          /\ Unsubscribe(p, n) \in waiting' <=> Unsubscribe(p, n) \in waiting /\ n # m
          /\ Subscribe(p, n) \in waiting' <=> Subscribe(p, n) \in waiting
          /\ Unsubscribe(p, n) \in transmitted' <=> Unsubscribe(p, n) \in transmitted \/ n = m
          /\ Subscribe(p, n) \in transmitted' <=> Subscribe(p, n) \in transmitted
    BY <1>1, <1>5, RequestNames
  <2>2. \A n \in 0 .. MaxStarts :
          /\ Unsubscribe(p, n) \in waiting /\ n # m => m < n
          /\ Subscribe(p, n) \in waiting => m < n
    <3>1. ASSUME NEW n \in 0 .. MaxStarts, Unsubscribe(p, n) \in waiting, n # m PROVE m < n
      BY <1>o, <1>5, <3>1 DEF Unsubscribe
    <3>2. ASSUME NEW n \in 0 .. MaxStarts, Subscribe(p, n) \in waiting PROVE m < n
      BY <1>o, <1>5, <3>2 DEF Subscribe, Unsubscribe
    <3> QED
      BY <3>1, <3>2
  <2>3. p \notin serverSubs'
    BY <1>1, <1>5 DEF ServerHandles, Unsubscribe
  <2>4. Unsubscribe(p, m) \in waiting
    BY <1>1, <1>5
  <2>5. Submitted(p)'
    BY <1>1, <2>1, <2>4 DEF QueryInv, Submitted, Subscribe, Unsubscribe
  <2>6. InOrder(p)'
    BY <2>1, <2>2 DEF QueryInv, InOrder, Subscribe, Unsubscribe
  <2>7. \A n \in 0 .. MaxStarts : Subscribe(p, n) \in transmitted => n = m \/ Unsubscribe(p, n) \in transmitted
    <3> SUFFICES ASSUME NEW n \in 0 .. MaxStarts, Subscribe(p, n) \in transmitted, n # m
                 PROVE  Unsubscribe(p, n) \in transmitted
      OBVIOUS
    <3>1. n < m /\ m < stops[p]
      BY <2>4, <1>t DEF QueryInv, InOrder, Submitted
    <3>2. Unsubscribe(p, n) \in waiting \cup transmitted
      BY <3>1, <1>t DEF QueryInv, Submitted
    <3> QED
      BY <2>2, <3>1, <3>2
  <2>8. Followed(p)'
    BY <2>1, <2>3, <2>7 DEF Followed, Subscribe, Unsubscribe
  <2> QED
    BY <2>5, <2>6, <2>8 DEF QueryInv
<1> QED
  BY <1>2, <1>3, <1>4, <1>5, RequestNames

(* FollowInv is inductive. *)
LEMMA FollowStep ==
  TypeOK /\ ProducerInv /\ FollowInv /\ [Next]_vars => FollowInv'
<1> SUFFICES ASSUME TypeOK, ProducerInv, FollowInv, [Next]_vars PROVE FollowInv'
  OBVIOUS
<1>t. released \in BOOLEAN /\ ended \in BOOLEAN /\ reopened \in BOOLEAN
  BY DEF TypeOK, TransportTypeOK, ServerTypeOK
<1>1. ASSUME UNCHANGED <<released, ended>>, ~reopened' => ~reopened,
             ~released /\ ~ended /\ ~reopened /\ ~reopened' => \A p \in Queries : QueryInv(p) => QueryInv(p)'
      PROVE  FollowInv'
  BY <1>1 DEF FollowInv
<1>2. CASE Opens
  <2>1. ASSUME ~reopened' PROVE transmitted = {} /\ transmitted' = {} /\ ~reopened
    BY <1>2, <2>1 DEF Opens, StatusChange
  <2>2. UNCHANGED <<waiting, transmitted, starts, stops>> /\ serverSubs' = {}
    BY <1>2 DEF Opens, StatusChange, producerVars
  <2>3. ASSUME NEW p \in Queries, QueryInv(p), ~reopened' PROVE QueryInv(p)'
    BY <2>1, <2>2, <2>3 DEF QueryInv, Submitted, InOrder, Followed, Subscribe, Unsubscribe
  <2> QED
    BY <1>1, <1>2, <2>1, <2>3 DEF Opens, StatusChange
<1>3. CASE Drops \/ ServerCloses
  <2>1. UNCHANGED <<waiting, transmitted, starts, stops, released, ended, reopened>> /\ link' # "up"
    BY <1>3 DEF Drops, ServerCloses, StatusChange, producerVars, transportVars
  <2>2. ASSUME NEW p \in Queries, QueryInv(p) PROVE QueryInv(p)'
    BY <2>1, <2>2 DEF QueryInv, Submitted, InOrder, Followed, Subscribe, Unsubscribe
  <2> QED
    BY <1>1, <2>1, <2>2
<1>4. ASSUME UNCHANGED <<waiting, transmitted, starts, stops, released, ended, reopened, link, serverSubs>>
      PROVE  FollowInv'
  BY <1>1, <1>4, OtherFollows
<1>5. CASE Retries \/ ServerEmits \/ UNCHANGED vars
  BY <1>4, <1>5 DEF Retries, ServerEmits, StatusChange, vars, producerVars, transportVars, serverVars
<1>6. ASSUME NEW r \in Requests, Transmits(r) PROVE FollowInv'
  BY <1>1, <1>6, TransmitFollows DEF Transmits, Transmit
<1>7. ASSUME NEW c \in Calls, Execute(c) PROVE FollowInv'
  <2>1. /\ UNCHANGED <<transmitted, starts, stops, released, ended, reopened, link, serverSubs>>
        /\ waiting' = waiting \/ waiting' = waiting \cup {<<"call", c, 0>>}
    BY <1>7 DEF Execute, Submit, producerVars, transportVars, serverVars
  <2> QED
    BY <1>1, <2>1, RequestNames, OtherFollows
<1>8. ASSUME NEW q \in Queries, Listen(q) PROVE FollowInv'
  <2>1. UNCHANGED <<released, ended, reopened, link, serverSubs>>
    BY <1>8 DEF Listen, StartProducer, Submit, transportVars, serverVars
  <2>2. CASE StartProducer(q)
    <3>1. ~ended => waiting' = waiting \cup {Subscribe(q, starts[q])} /\ transmitted' = transmitted
      BY <2>2 DEF StartProducer, Submit, Subscribe
    <3> QED
      BY <1>1, <2>1, <2>2, <3>1, StartFollows DEF StartProducer
  <2>3. CASE ~StartProducer(q)
    BY <1>4, <1>8, <2>1, <2>3 DEF Listen, transportVars
  <2> QED
    BY <2>2, <2>3
<1>9. ASSUME NEW q \in Queries, Unlisten(q) PROVE FollowInv'
  BY <1>4, <1>9 DEF Unlisten, transportVars, serverVars
<1>10. ASSUME NEW q \in Queries, StopLater(q) PROVE FollowInv'
  <2>1. StopProducers({q}) /\ running[q] /\ UNCHANGED <<released, ended, reopened, link, serverSubs>>
    BY <1>10 DEF StopLater, ProducerInv, serverVars
  <2> QED
    BY <1>1, <2>1, StopFollows
<1>11. CASE Receive
  <2>1. UNCHANGED <<link, serverSubs, reopened>>
    BY <1>11 DEF Receive
  <2>2. CASE ReceiveReply(Head(inbox)) \/ ReceiveEvent(Head(inbox))
    BY <1>4, <2>1, <2>2 DEF ReceiveReply, ReceiveEvent, producerVars, transportVars
  <2>3. CASE ReceiveSubscriptionReply(Head(inbox))
    <3> DEFINE q == Head(inbox).id
    <3>1. q \in Queries
      BY <2>3 DEF ReceiveSubscriptionReply
    <3>2. CASE FailStream(q) /\ listening[q]
      <4>1. StopProducers({q}) /\ running[q] /\ UNCHANGED <<released, ended>>
        BY <3>1, <3>2 DEF FailStream, ProducerInv
      <4> QED
        BY <1>1, <2>1, <3>1, <4>1, StopFollows
    <3>3. CASE FailStream(q) /\ ~listening[q]
      BY <1>4, <2>1, <3>3 DEF FailStream
    <3>4. CASE ~FailStream(q)
      BY <1>4, <2>1, <2>3, <3>4 DEF ReceiveSubscriptionReply, transportVars
    <3> QED
      BY <3>2, <3>3, <3>4
  <2> QED
    BY <1>11, <2>2, <2>3 DEF Receive
<1>12. CASE Disconnect \/ DisconnectThrows
  BY <1>12 DEF Disconnect, DisconnectThrows, Release, FollowInv
<1> QED
  BY <1>2, <1>3, <1>5, <1>6, <1>7, <1>8, <1>9, <1>10, <1>11, <1>12 DEF Next, Network, User

(* On its first connection, with everything transmitted, the server has a    *)
(* subscription exactly for the queries with a listener or a stop to come,   *)
(* for any number of queries and restarts (websocketclient.ts:45-76).        *)
THEOREM ServerStaysInStep == Spec => []ServerFollowsListeners
<1>1. Init => FollowInv
  <2> SUFFICES ASSUME Init PROVE FollowInv
    OBVIOUS
  <2>1. ASSUME NEW q \in Queries PROVE QueryInv(q)
    BY Bounds DEF Init, QueryInv, Submitted, InOrder, Followed
  <2> QED
    BY <2>1 DEF Init, FollowInv
<1>2. TypeOK /\ ProducerInv /\ FollowInv => ServerFollowsListeners
  <2> SUFFICES ASSUME TypeOK, ProducerInv, FollowInv,
                      link = "up", ~reopened, ~released, waiting = {}, inbox = <<>>
               PROVE  serverSubs = {q \in Queries : listening[q] \/ stopDue[q]}
    BY DEF ServerFollowsListeners
  <2>1. ASSUME NEW q \in Queries PROVE q \in serverSubs <=> listening[q] \/ stopDue[q]
    <3>1. /\ starts[q] \in 0 .. MaxStarts /\ stops[q] \in 0 .. MaxStarts /\ MaxStarts \in Nat
          /\ running[q] <=> listening[q] \/ stopDue[q]
          /\ running[q] => starts[q] = stops[q] + 1
          /\ ~running[q] => starts[q] = stops[q]
      BY Bounds DEF TypeOK, ProducerTypeOK, ProducerInv
    <3>2. q \in serverSubs <=> \E n \in 0 .. MaxStarts : n < starts[q] /\ ~(n < stops[q])
      BY DEF FollowInv, QueryInv, Followed, Submitted
    <3>3. (\E n \in 0 .. MaxStarts : n < starts[q] /\ ~(n < stops[q])) <=> running[q]
      <4>1. CASE running[q]
        BY <3>1, <4>1
      <4>2. CASE ~running[q]
        BY <3>1, <4>2
      <4> QED
        BY <4>1, <4>2
    <3> QED
      BY <3>1, <3>2, <3>3
  <2> QED
    BY <2>1 DEF TypeOK, ServerTypeOK
<1> QED
  BY <1>1, <1>2, FollowStep, TypeCorrect, PTL DEF Spec

=============================================================================
