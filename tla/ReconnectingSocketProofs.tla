----------------------- MODULE ReconnectingSocketProofs -----------------------
(***************************************************************************)
(* Proofs about the socket stack for any number of sockets and requests.   *)
(***************************************************************************)
EXTENDS ReconnectingSocket, TLAPS

(* Indices and delays stay in their ranges (reconnectingsocket.ts:13-15). *)
LEMMA DelayType ==
  ASSUME NEW i \in 0 .. LastIndex
  PROVE  NextIndex(i) \in 0 .. LastIndex /\ calculateTimeout(i) \in Delays
BY DEF LastIndex, NextIndex, Delays

(* A turn of the processQueue() loop keeps the types of what it changes. *)
LEMMA LoopTurnType ==
  ASSUME cur \in Sockets, NEW q \in Seq(Requests), NEW w \in [Sockets -> Seq(Requests)],
         NEW flag \in BOOLEAN, LoopTurn(q, w, flag)
  PROVE  queue' \in Seq(Requests) /\ writes' \in [Sockets -> Seq(Requests)] /\ isProcessingQueue' \in BOOLEAN
<1>1. CASE q = <<>>
  BY <1>1 DEF LoopTurn
<1>2. CASE q # <<>>
  <2>1. Head(q) \in Requests /\ Tail(q) \in Seq(Requests)
    BY <1>2
  <2>2. [w EXCEPT ![cur] = Append(@, Head(q))] \in [Sockets -> Seq(Requests)]
    BY <2>1
  <2> QED
    BY <1>2, <2>1, <2>2 DEF LoopTurn
<1> QED
  BY <1>1, <1>2

(* processQueue() on any queue keeps the types of what it changes. *)
LEMMA ProcessQueueType ==
  ASSUME QueueingTypeOK, NEW q \in Seq(Requests), ProcessQueue(q)
  PROVE  queue' \in Seq(Requests) /\ writes' \in [Sockets -> Seq(Requests)] /\ isProcessingQueue' \in BOOLEAN
BY LoopTurnType DEF QueueingTypeOK, ProcessQueue

(* Every variable keeps its type: in particular nothing but a request is    *)
(* ever queued or handed to a socket (queueingstreamingsocket.ts:100-118).  *)
THEOREM TypeCorrect == Spec => []TypeOK
<1>1. Init => TypeOK
  <2> SUFFICES ASSUME Init PROVE TypeOK
    OBVIOUS
  <2>1. StreamingTypeOK
    BY DEF Init, QueueingInit, WrapperInit, StreamingTypeOK, WrapperTypeOK, ReadyStates
  <2>2. QueueingTypeOK
    <3>1. <<>> \in Seq(Requests)
      OBVIOUS
    <3> QED
      BY <2>1, <3>1, FirstSocketAssumption DEF Init, QueueingInit, QueueingTypeOK, Statuses
  <2>3. 0 \in 0 .. LastIndex /\ 0 \in 0 .. MaxDisconnects
    BY MaxDisconnectsAssumption DEF LastIndex
  <2> QED
    BY <2>2, <2>3 DEF Init, TypeOK
<1>2. TypeOK /\ [Next]_vars => TypeOK'
  <2> SUFFICES ASSUME TypeOK, [Next]_vars PROVE TypeOK'
    OBVIOUS
  <2> USE DEF TypeOK, QueueingTypeOK, StreamingTypeOK, WrapperTypeOK, ReadyStates, Statuses
  <2>d. /\ timeoutIndex \in 0 .. LastIndex
        /\ calculateTimeout(timeoutIndex) \in Delays
        /\ NextIndex(timeoutIndex) \in 0 .. LastIndex
        /\ calculateTimeout(NextIndex(timeoutIndex)) \in Delays
        /\ NextIndex(NextIndex(timeoutIndex)) \in 0 .. LastIndex
        /\ 0 \in 0 .. LastIndex
    BY DelayType DEF LastIndex
  <2>1. CASE Connect
    BY <2>1 DEF Connect, QueueingConnect, StreamingConnect, WrapperConnect, NoStatusUpdate
  <2>2. CASE Disconnect
    <3>1. streamingVars' = streamingVars \/ StreamingDisconnect(cur)
      BY <2>2 DEF Disconnect, QueueingDisconnect
    <3>2. StreamingTypeOK'
      <4>1. CASE streamingVars' = streamingVars
        BY <4>1 DEF streamingVars
      <4>2. CASE StreamingDisconnect(cur)
        BY <4>2 DEF StreamingDisconnect, WrapperDisconnect, StreamEnds, ClearedTimeout
      <4> QED BY <3>1, <4>1, <4>2
    <3>3. timeoutIndex' \in 0 .. LastIndex /\ reconnectTimeout' \in Delays
      BY <2>2, <2>d DEF Disconnect, TwoDisconnectedUpdates, DisconnectedUpdate
    <3>4. disconnects' \in 0 .. MaxDisconnects
      BY <2>2, MaxDisconnectsAssumption DEF Disconnect
    <3> QED
      BY <2>2, <3>2, <3>3, <3>4 DEF Disconnect, QueueingDisconnect
  <2>3. ASSUME NEW r \in Requests, SubmitRequest(r) PROVE TypeOK'
    <3>1. Append(queue, r) \in Seq(Requests) /\ Append(accepted, r) \in Seq(Requests)
      OBVIOUS
    <3> QED
      BY <2>3, <3>1, ProcessQueueType
      DEF SubmitRequest, QueueRequest, NoStatusUpdate, userVars, streamingVars
  <2>4. ASSUME NEW s \in Sockets, ReconnectTimer(s) PROVE TypeOK'
    BY <2>4 DEF ReconnectTimer, Reconnect, StreamingConnect, WrapperConnect, userVars
  <2>5. ASSUME NEW s \in Sockets, SocketOpens(s) PROVE TypeOK'
    <3>1. StreamingTypeOK'
      BY <2>5 DEF SocketOpens, QueueingOpen, OnOpen, ClearedTimeout
    <3>2. queue' \in Seq(Requests) /\ writes' \in [Sockets -> Seq(Requests)] /\ isProcessingQueue' \in BOOLEAN
      <4>1. CASE socket[s] = "set"
        BY <4>1, <2>5, ProcessQueueType DEF SocketOpens, QueueingOpen
      <4>2. CASE socket[s] # "set"
        BY <4>2, <2>5 DEF SocketOpens, QueueingOpen
      <4> QED BY <4>1, <4>2
    <3> QED
      BY <2>5, <2>d, <3>1, <3>2
      DEF SocketOpens, QueueingOpen, ConnectedUpdate, NoStatusUpdate, userVars
  <2>6. ASSUME NEW s \in Sockets, SocketFails(s) PROVE TypeOK'
    <3>1. StreamingTypeOK'
      BY <2>6 DEF SocketFails, QueueingError, OnSocketError, OnError, StreamEnds, ClearedTimeout
    <3> QED
      BY <2>6, <2>d, <3>1
      DEF SocketFails, QueueingError, DisconnectedIf, DisconnectedUpdate, NoStatusUpdate, userVars
  <2>7. ASSUME NEW s \in Sockets, SocketStartsClosing(s) PROVE TypeOK'
    BY <2>7 DEF SocketStartsClosing, QueueingWsCloses, WsCloses, NoStatusUpdate, userVars
  <2>8. ASSUME NEW s \in Sockets, NEW wasClean \in BOOLEAN, SocketCloses(s, wasClean) PROVE TypeOK'
    <3>1. StreamingTypeOK'
      BY <2>8 DEF SocketCloses, QueueingClose, OnSocketClose, OnClose, StreamEnds
    <3> QED
      BY <2>8, <2>d, <3>1
      DEF SocketCloses, QueueingClose, DisconnectedIf, DisconnectedUpdate, NoStatusUpdate, userVars
  <2>9. ASSUME NEW s \in Sockets, ConnectionTimesOut(s) PROVE TypeOK'
    <3>1. StreamingTypeOK'
      BY <2>9 DEF ConnectionTimesOut, QueueingTimeout, OnTimeout
    <3> QED
      BY <2>9, <2>d, <3>1
      DEF ConnectionTimesOut, QueueingTimeout, DisconnectedIf, DisconnectedUpdate, NoStatusUpdate, userVars
  <2>10. ASSUME NEW s \in Sockets, SendSettles(s) PROVE TypeOK'
    <3>1. CASE SendResolves(s)
      <4>1. /\ Head(writes[s]) \in Requests
            /\ [writes EXCEPT ![s] = Tail(@)] \in [Sockets -> Seq(Requests)]
        BY <3>1 DEF SendResolves
      <4>2. queue' \in Seq(Requests) /\ writes' \in [Sockets -> Seq(Requests)] /\ isProcessingQueue' \in BOOLEAN
        BY <3>1, <4>1, LoopTurnType DEF SendResolves
      <4> QED
        BY <2>10, <3>1, <4>1, <4>2 DEF SendSettles, SendResolves, NoStatusUpdate, userVars, streamingVars
    <3>2. CASE SendRejects(s)
      <4>1. /\ Head(writes[s]) \in Requests
            /\ [writes EXCEPT ![s] = Tail(@)] \in [Sockets -> Seq(Requests)]
        BY <3>2 DEF SendRejects
      <4>2. <<Head(writes[s])>> \o queue \in Seq(Requests)
        BY <4>1
      <4> QED
        BY <2>10, <3>2, <4>1, <4>2 DEF SendSettles, SendRejects, NoStatusUpdate, userVars, streamingVars
    <3> QED
      BY <2>10, <3>1, <3>2 DEF SendSettles
  <2>11. CASE UNCHANGED vars
    BY <2>11 DEF vars
  <2> QED
    BY <2>1, <2>2, <2>3, <2>4, <2>5, <2>6, <2>7, <2>8, <2>9, <2>10, <2>11
    DEF Next, User, Environment
<1> QED
  BY <1>1, <1>2, PTL DEF Spec
-----------------------------------------------------------------------------
(* The status is Disconnected only while the timer of the next attempt runs, *)
(* and a connection resets the delays (reconnectingsocket.ts:49-65).         *)
THEOREM RetryIsScheduled == Spec => []RetryScheduled
<1>1. Init => RetryScheduled
  BY DEF Init, QueueingInit, RetryScheduled
<1>2. TypeOK /\ RetryScheduled /\ [Next]_vars => RetryScheduled'
  <2> SUFFICES ASSUME TypeOK, RetryScheduled, [Next]_vars PROVE RetryScheduled'
    OBVIOUS
  <2> USE DEF RetryScheduled
  <2>i. timeoutIndex \in 0 .. 6
    BY DEF TypeOK, LastIndex
  <2>1. ASSUME DisconnectedUpdate, connectionStatus' = "Disconnected" PROVE RetryScheduled'
    BY <2>1, <2>i DEF DisconnectedUpdate, NextIndex, LastIndex
  <2>2. ASSUME TwoDisconnectedUpdates, connectionStatus' = "Disconnected" PROVE RetryScheduled'
    BY <2>2, <2>i DEF TwoDisconnectedUpdates, NextIndex, LastIndex
  <2>3. ASSUME NoStatusUpdate, connectionStatus' = connectionStatus PROVE RetryScheduled'
    BY <2>3 DEF NoStatusUpdate
  <2>4. CASE Connect
    BY <2>4 DEF Connect, QueueingConnect
  <2>5. CASE Disconnect
    BY <2>5, <2>1, <2>2 DEF Disconnect, QueueingDisconnect
  <2>6. ASSUME NEW r \in Requests, SubmitRequest(r) PROVE RetryScheduled'
    BY <2>6, <2>3 DEF SubmitRequest, QueueRequest
  <2>7. ASSUME NEW s \in Sockets, ReconnectTimer(s) PROVE RetryScheduled'
    BY <2>7 DEF ReconnectTimer, Reconnect
  <2>8. ASSUME NEW s \in Sockets, SocketOpens(s) PROVE RetryScheduled'
    BY <2>8, <2>3 DEF SocketOpens, QueueingOpen, ConnectedUpdate
  <2>9. ASSUME NEW s \in Sockets, SocketFails(s) PROVE RetryScheduled'
    BY <2>9, <2>1, <2>3 DEF SocketFails, QueueingError, DisconnectedIf
  <2>10. ASSUME NEW s \in Sockets, SocketStartsClosing(s) PROVE RetryScheduled'
    BY <2>10, <2>3 DEF SocketStartsClosing, QueueingWsCloses
  <2>11. ASSUME NEW s \in Sockets, NEW wasClean \in BOOLEAN, SocketCloses(s, wasClean) PROVE RetryScheduled'
    BY <2>11, <2>1, <2>3 DEF SocketCloses, QueueingClose, DisconnectedIf
  <2>12. ASSUME NEW s \in Sockets, ConnectionTimesOut(s) PROVE RetryScheduled'
    BY <2>12, <2>1, <2>3 DEF ConnectionTimesOut, QueueingTimeout, DisconnectedIf
  <2>13. ASSUME NEW s \in Sockets, SendSettles(s) PROVE RetryScheduled'
    BY <2>13, <2>3 DEF SendSettles, SendResolves, SendRejects
  <2>14. CASE UNCHANGED vars
    BY <2>14 DEF vars
  <2> QED
    BY <2>4, <2>5, <2>6, <2>7, <2>8, <2>9, <2>10, <2>11, <2>12, <2>13, <2>14
    DEF Next, User, Environment
<1> QED
  BY <1>1, <1>2, TypeCorrect, PTL DEF Spec
-----------------------------------------------------------------------------
(* StatusInv is inductive.  Only the steps that change the state of a socket *)
(* or the status need an argument: as long as disconnect() was not called,   *)
(* a socket that is not silent is the current one.                           *)
LEMMA StatusInvInit == Init => StatusInv
BY FirstSocketAssumption
DEF Init, QueueingInit, WrapperInit, StatusInv, TimeoutOnlyWhileConnecting, StaleSocketsAreSilent,
    Silent, CurrentSocketInv

(* Every step preserves it, by the case of its action. *)
LEMMA StatusInvStep == TypeOK /\ StatusInv /\ [Next]_vars => StatusInv'
<1> SUFFICES ASSUME TypeOK, StatusInv, [Next]_vars PROVE StatusInv'
  OBVIOUS
<1> USE DEF StatusInv, TimeoutOnlyWhileConnecting, StaleSocketsAreSilent, Silent, CurrentSocketInv
<1>t. /\ cur \in Sockets
      /\ readyState \in [Sockets -> ReadyStates]
      /\ socket \in [Sockets -> {"none", "set", "dropped"}]
      /\ timeoutId \in [Sockets -> {"unset", "armed", "off"}]
      /\ closed \in [Sockets -> BOOLEAN]
      /\ connected \in [Sockets -> {"pending", "resolved", "rejected"}]
      /\ events \in [Sockets -> {"idle", "live", "completed", "errored"}]
      /\ connectionStatus \in Statuses
      /\ disconnects \in Nat
  BY MaxDisconnectsAssumption DEF TypeOK, QueueingTypeOK, StreamingTypeOK, WrapperTypeOK
<1>1. CASE Connect
  BY <1>1, <1>t
  DEF Connect, QueueingConnect, StreamingConnect, WrapperConnect, NoStatusUpdate
<1>2. CASE Disconnect
  <2>1. disconnects' # 0
    BY <1>2, <1>t DEF Disconnect
  <2>2. streamingVars' = streamingVars \/ StreamingDisconnect(cur)
    BY <1>2 DEF Disconnect, QueueingDisconnect
  <2>3. CASE streamingVars' = streamingVars
    BY <2>1, <2>3 DEF streamingVars
  <2>4. CASE StreamingDisconnect(cur)
    BY <2>1, <2>4, <1>t DEF StreamingDisconnect, WrapperDisconnect, ClearedTimeout
  <2> QED
    BY <2>2, <2>3, <2>4
<1>3. ASSUME NEW r \in Requests, SubmitRequest(r) PROVE StatusInv'
  BY <1>3 DEF SubmitRequest, QueueRequest, NoStatusUpdate, userVars, streamingVars
<1>4. ASSUME NEW s \in Sockets, ReconnectTimer(s) PROVE StatusInv'
  BY <1>4, <1>t
  DEF ReconnectTimer, Reconnect, StreamingConnect, WrapperConnect, userVars, Statuses
<1>5. ASSUME NEW s \in Sockets, SocketOpens(s) PROVE StatusInv'
  <2>1. CASE socket[s] = "set"
    <3>1. disconnects = 0 => s = cur /\ connectionStatus = "Connecting"
      BY <1>5, <2>1, <1>t DEF SocketOpens, QueueingOpen, OnOpen, Statuses
    <3> QED
      BY <1>5, <2>1, <3>1, <1>t
      DEF SocketOpens, QueueingOpen, OnOpen, ClearedTimeout, ConnectedUpdate, userVars
  <2>2. CASE socket[s] = "dropped"
    BY <1>5, <2>2, <1>t
    DEF SocketOpens, QueueingOpen, OnOpen, ClearedTimeout, NoStatusUpdate, userVars
  <2> QED
    BY <1>5, <2>1, <2>2 DEF SocketOpens, QueueingOpen, OnOpen
<1>6. ASSUME NEW s \in Sockets, SocketFails(s) PROVE StatusInv'
  <2>1. CASE socket[s] = "set" /\ events[s] = "live"
    <3>1. disconnects = 0 => s = cur
      BY <1>6, <2>1, <1>t
    <3>2. ErrorCallback(s)
      BY <1>6, <2>1, <1>t
      DEF SocketFails, QueueingError, OnSocketError, StreamEnds, Listening, ErrorCallback
    <3> QED
      BY <1>6, <2>1, <3>1, <3>2, <1>t
      DEF SocketFails, QueueingError, OnSocketError, OnError, StreamEnds, Listening, ClearedTimeout,
          DisconnectedIf, DisconnectedUpdate, userVars
  <2>2. CASE ~(socket[s] = "set" /\ events[s] = "live")
    <3>1. events' = events /\ ~ErrorCallback(s)
      BY <1>6, <2>2, <1>t
      DEF SocketFails, QueueingError, OnSocketError, StreamEnds, Listening, ErrorCallback
    <3> QED
      BY <1>6, <2>2, <3>1, <1>t
      DEF SocketFails, QueueingError, OnSocketError, OnError, ClearedTimeout,
          DisconnectedIf, NoStatusUpdate, userVars, Statuses
  <2> QED
    BY <2>1, <2>2
<1>7. ASSUME NEW s \in Sockets, SocketStartsClosing(s) PROVE StatusInv'
  BY <1>7, <1>t DEF SocketStartsClosing, QueueingWsCloses, WsCloses, NoStatusUpdate, userVars
<1>8. ASSUME NEW s \in Sockets, NEW wasClean \in BOOLEAN, SocketCloses(s, wasClean) PROVE StatusInv'
  <2>1. CASE socket[s] = "set" /\ events[s] = "live"
    <3>1. disconnects = 0 => s = cur /\ connectionStatus \in {"Connected"}
      BY <1>8, <2>1, <1>t DEF SocketCloses, QueueingClose, OnSocketClose, OnClose, Statuses
    <3>2. events' = [events EXCEPT ![s] = IF wasClean THEN "completed" ELSE "errored"]
      BY <1>8, <2>1, <1>t
      DEF SocketCloses, QueueingClose, OnSocketClose, StreamEnds, Listening
    <3>3. CASE wasClean
      <4>1. ~ErrorCallback(s)
        BY <3>2, <3>3, <1>t DEF ErrorCallback
      <4> QED
        BY <1>8, <2>1, <3>1, <3>2, <3>3, <4>1, <1>t
        DEF SocketCloses, QueueingClose, OnSocketClose, OnClose, DisconnectedIf, NoStatusUpdate, userVars
    <3>4. CASE ~wasClean
      <4>1. ErrorCallback(s)
        BY <2>1, <3>2, <3>4, <1>t DEF ErrorCallback
      <4> QED
        BY <1>8, <2>1, <3>1, <3>2, <3>4, <4>1, <1>t
        DEF SocketCloses, QueueingClose, OnSocketClose, OnClose, DisconnectedIf, DisconnectedUpdate, userVars
    <3> QED
      BY <3>3, <3>4
  <2>2. CASE ~(socket[s] = "set" /\ events[s] = "live")
    <3>1. events' = events /\ ~ErrorCallback(s)
      BY <1>8, <2>2, <1>t
      DEF SocketCloses, QueueingClose, OnSocketClose, StreamEnds, Listening, ErrorCallback
    <3> QED
      BY <1>8, <2>2, <3>1, <1>t
      DEF SocketCloses, QueueingClose, OnSocketClose, OnClose, DisconnectedIf, NoStatusUpdate, userVars, Statuses
  <2> QED
    BY <2>1, <2>2
<1>9. ASSUME NEW s \in Sockets, ConnectionTimesOut(s) PROVE StatusInv'
  <2>1. disconnects = 0 => s = cur
    BY <1>9, <1>t DEF ConnectionTimesOut, QueueingTimeout, OnTimeout
  <2>2. connected'[s] = "rejected"
    BY <1>9, <1>t DEF ConnectionTimesOut, QueueingTimeout, OnTimeout
  <2> QED
    BY <1>9, <2>1, <2>2, <1>t
    DEF ConnectionTimesOut, QueueingTimeout, OnTimeout, DisconnectedIf, DisconnectedUpdate, userVars, Statuses
<1>10. ASSUME NEW s \in Sockets, SendSettles(s) PROVE StatusInv'
  <2>1. UNCHANGED <<streamingVars, cur, connectionStatus, reconnectTimeout, userVars>>
    BY <1>10 DEF SendSettles, SendResolves, SendRejects, NoStatusUpdate
  <2> QED
    BY <2>1 DEF streamingVars, userVars
<1>11. CASE UNCHANGED vars
  BY <1>11 DEF vars
<1> QED
  BY <1>1, <1>2, <1>3, <1>4, <1>5, <1>6, <1>7, <1>8, <1>9, <1>10, <1>11
  DEF Next, User, Environment

(* StatusInv holds in every reachable state. *)
LEMMA StatusInvHolds == Spec => []StatusInv
BY StatusInvInit, StatusInvStep, TypeCorrect, PTL DEF Spec

(* The connection timer never outlives the attempt (socketwrapper.ts:109). *)
THEOREM TimeoutIsBounded == Spec => []TimeoutOnlyWhileConnecting
<1>1. StatusInv => TimeoutOnlyWhileConnecting
  BY DEF StatusInv
<1> QED
  BY <1>1, StatusInvHolds, PTL

(* Until disconnect() is called, a socket that reconnect() replaced cannot   *)
(* change the status (queueingstreamingsocket.ts:71-87).                     *)
THEOREM StaleSocketsStaySilent == Spec => []StaleSocketsAreSilent
<1>1. StatusInv => StaleSocketsAreSilent
  BY DEF StatusInv
<1> QED
  BY <1>1, StatusInvHolds, PTL

(* Until disconnect() is called, the status describes the current socket     *)
(* (queueingstreamingsocket.ts:45-63).                                       *)
THEOREM StatusStaysAccurate == Spec => []StatusIsAccurate
<1>1. StatusInv => StatusIsAccurate
  BY DEF StatusInv, StatusIsAccurate, CurrentSocketInv
<1> QED
  BY <1>1, StatusInvHolds, PTL
-----------------------------------------------------------------------------
(* What the operations on a queue do to the requests in it. *)

(* Append(): the new element comes last. *)
LEMMA AppendOnce ==
  ASSUME NEW seq \in Seq(Requests), NEW r \in Requests
  PROVE  /\ Range(Append(seq, r)) = Range(seq) \cup {r}
         /\ IsInjective(seq) /\ r \notin Range(seq) => IsInjective(Append(seq, r))
<1>1. /\ DOMAIN Append(seq, r) = 1 .. Len(seq) + 1 /\ DOMAIN seq = 1 .. Len(seq)
      /\ Append(seq, r)[Len(seq) + 1] = r
      /\ \A i \in 1 .. Len(seq) : Append(seq, r)[i] = seq[i]
  OBVIOUS
<1>2. Range(Append(seq, r)) = Range(seq) \cup {r}
  BY <1>1 DEF Range
<1>3. IsInjective(seq) /\ r \notin Range(seq) => IsInjective(Append(seq, r))
  BY <1>1 DEF Range, IsInjective
<1> QED
  BY <1>2, <1>3

(* shift(): the first element goes. *)
LEMMA TailOnce ==
  ASSUME NEW seq \in Seq(Requests), seq # <<>>
  PROVE  /\ Head(seq) \in Requests /\ Tail(seq) \in Seq(Requests)
         /\ Range(seq) = Range(Tail(seq)) \cup {Head(seq)}
         /\ IsInjective(seq) => IsInjective(Tail(seq)) /\ Head(seq) \notin Range(Tail(seq))
<1> DEFINE rest == Tail(seq)
           first == Head(seq)
<1>1. /\ first \in Requests /\ rest \in Seq(Requests)
      /\ first = seq[1] /\ DOMAIN seq = 1 .. Len(seq) /\ Len(seq) \in Nat \ {0}
      /\ DOMAIN rest = 1 .. Len(seq) - 1
      /\ \A i \in 1 .. Len(seq) - 1 : rest[i] = seq[i + 1]
  OBVIOUS
<1> HIDE DEF rest, first
<1>2. \A i \in DOMAIN seq : i = 1 \/ (i - 1 \in DOMAIN rest /\ seq[i] = rest[i - 1])
  BY <1>1
<1>3. \A i \in DOMAIN rest : i + 1 \in DOMAIN seq /\ i + 1 # 1 /\ rest[i] = seq[i + 1]
  BY <1>1
<1>4. 1 \in DOMAIN seq /\ first = seq[1]
  BY <1>1
<1>5. Range(seq) = Range(rest) \cup {first}
  <2>1. Range(seq) \subseteq Range(rest) \cup {first}
    BY <1>2, <1>4 DEF Range
  <2>2. Range(rest) \cup {first} \subseteq Range(seq)
    BY <1>3, <1>4 DEF Range
  <2> QED
    BY <2>1, <2>2
<1>6. ASSUME IsInjective(seq) PROVE IsInjective(rest) /\ first \notin Range(rest)
  <2>1. \A i, j \in DOMAIN seq : seq[i] = seq[j] => i = j
    BY <1>6 DEF IsInjective
  <2>2. \A i, j \in DOMAIN rest : rest[i] = rest[j] => i = j
    <3>1. \A i, j \in DOMAIN rest : i + 1 = j + 1 => i = j
      BY <1>1
    <3> QED
      BY <1>3, <2>1, <3>1, Zenon
  <2>3. first \notin Range(rest)
    BY <1>3, <1>4, <2>1 DEF Range
  <2> QED
    BY <2>2, <2>3 DEF IsInjective
<1> QED
  BY <1>1, <1>5, <1>6 DEF rest, first

(* unshift(): the new element comes first. *)
LEMMA ConsOnce ==
  ASSUME NEW seq \in Seq(Requests), NEW r \in Requests
  PROVE  /\ Range(<<r>> \o seq) = Range(seq) \cup {r}
         /\ IsInjective(seq) /\ r \notin Range(seq) => IsInjective(<<r>> \o seq)
<1> DEFINE new == <<r>> \o seq
<1>1. /\ DOMAIN new = 1 .. Len(seq) + 1 /\ DOMAIN seq = 1 .. Len(seq) /\ Len(seq) \in Nat
      /\ new[1] = r
      /\ \A i \in 1 .. Len(seq) : new[i + 1] = seq[i]
  OBVIOUS
<1>2. \A i \in DOMAIN new : i = 1 \/ (i - 1 \in DOMAIN seq /\ new[i] = seq[i - 1])
  BY <1>1
<1> HIDE DEF new
<1>3. Range(new) = Range(seq) \cup {r}
  <2>1. Range(new) \subseteq Range(seq) \cup {r}
    BY <1>1, <1>2 DEF Range
  <2>2. r \in Range(new)
    BY <1>1 DEF Range
  <2>3. Range(seq) \subseteq Range(new)
    <3>1. \A i \in DOMAIN seq : i + 1 \in DOMAIN new
      BY <1>1
    <3> QED
      BY <1>1, <3>1 DEF Range
  <2> QED
    BY <2>1, <2>2, <2>3
<1>4. IsInjective(seq) /\ r \notin Range(seq) => IsInjective(new)
  BY <1>1, <1>2 DEF Range, IsInjective
<1> QED
  BY <1>3, <1>4 DEF new
-----------------------------------------------------------------------------
(* The requests handed to the sockets, and EachRequestOnce, for given values *)
(* of the variables.                                                         *)
Held(w) == UNION {Range(w[s]) : s \in Sockets}

Once(acc, q, w, snt) ==
  /\ Range(acc) = Range(q) \cup Range(snt) \cup Held(w)
  /\ IsInjective(q) /\ IsInjective(snt)
  /\ Range(q) \cap Range(snt) = {}
  /\ \A s \in Sockets :
       /\ IsInjective(w[s])
       /\ Range(w[s]) \cap (Range(q) \cup Range(snt)) = {}
       /\ \A t \in Sockets \ {s} : Range(w[s]) \cap Range(w[t]) = {}

(* A turn of the loop moves at most one request, from the queue to a socket. *)
LEMMA LoopTurnOnce ==
  ASSUME cur \in Sockets, NEW q \in Seq(Requests), NEW w \in [Sockets -> Seq(Requests)], NEW flag,
         NEW acc, NEW snt, Once(acc, q, w, snt), LoopTurn(q, w, flag)
  PROVE  /\ Once(acc, queue', writes', snt)
         /\ Range(queue') \cup Held(writes') = Range(q) \cup Held(w)
<1>1. CASE queue' = q /\ writes' = w
  BY <1>1
<1>2. CASE q # <<>> /\ queue' = Tail(q) /\ writes' = [w EXCEPT ![cur] = Append(@, Head(q))]
  <2> DEFINE r == Head(q)
  <2>1. /\ r \in Requests /\ Tail(q) \in Seq(Requests)
        /\ Range(q) = Range(Tail(q)) \cup {r}
        /\ IsInjective(Tail(q)) /\ r \notin Range(Tail(q))
    BY <1>2, TailOnce DEF Once
  <2>2. /\ writes'[cur] = Append(w[cur], r)
        /\ \A s \in Sockets \ {cur} : writes'[s] = w[s]
    BY <1>2
  <2>3. \A s \in Sockets : r \notin Range(w[s])
    BY <2>1 DEF Once
  <2>4. Range(writes'[cur]) = Range(w[cur]) \cup {r} /\ IsInjective(writes'[cur])
    BY <2>1, <2>2, <2>3, AppendOnce DEF Once
  <2> HIDE DEF r
  <2>5. Held(writes') = Held(w) \cup {r}
    BY <2>2, <2>4 DEF Held
  <2>6. Range(queue') \cup Held(writes') = Range(q) \cup Held(w)
    BY <1>2, <2>1, <2>5
  <2>7. Range(acc) = Range(queue') \cup Range(snt) \cup Held(writes')
    BY <2>6 DEF Once
  <2>8. \A s \in Sockets : IsInjective(writes'[s]) /\ Range(writes'[s]) \cap (Range(queue') \cup Range(snt)) = {}
    <3> TAKE s \in Sockets
    <3>1. CASE s = cur
      BY <1>2, <2>1, <2>4, <3>1 DEF Once
    <3>2. CASE s # cur
      BY <1>2, <2>1, <2>2, <3>2 DEF Once
    <3> QED
      BY <3>1, <3>2
  <2>9. \A s \in Sockets : \A t \in Sockets \ {s} : Range(writes'[s]) \cap Range(writes'[t]) = {}
    <3> TAKE s \in Sockets
    <3> TAKE t \in Sockets \ {s}
    <3>1. Range(w[s]) \cap Range(w[t]) = {} /\ r \notin Range(w[s]) /\ r \notin Range(w[t])
      BY <2>3 DEF Once
    <3>2. CASE s = cur
      BY <2>2, <2>4, <3>1, <3>2
    <3>3. CASE t = cur
      BY <2>2, <2>4, <3>1, <3>3
    <3>4. CASE s # cur /\ t # cur
      BY <2>2, <3>1, <3>4
    <3> QED
      BY <3>2, <3>3, <3>4
  <2> QED
    BY <1>2, <2>1, <2>6, <2>7, <2>8, <2>9 DEF Once
<1> QED
  BY <1>1, <1>2 DEF LoopTurn

(* processQueue() on the queue q, likewise. *)
LEMMA ProcessQueueOnce ==
  ASSUME QueueingTypeOK, NEW q \in Seq(Requests), NEW acc, NEW snt,
         Once(acc, q, writes, snt), ProcessQueue(q)
  PROVE  /\ Once(acc, queue', writes', snt)
         /\ Range(queue') \cup Held(writes') = Range(q) \cup Held(writes)
BY LoopTurnOnce DEF QueueingTypeOK, ProcessQueue

(* A new request is nowhere in the stack before it joins the queue. *)
LEMMA SubmitOnce ==
  ASSUME TypeOK, EachRequestOnce, NEW r \in Requests, SubmitRequest(r)
  PROVE  /\ EachRequestOnce'
         /\ r \notin Range(queue) \cup Held(writes) \cup Range(sent)
         /\ Range(queue') \cup Held(writes') = Range(queue) \cup Held(writes) \cup {r}
<1> USE DEF TypeOK, QueueingTypeOK
<1>1. /\ r \notin Range(accepted) /\ accepted' = Append(accepted, r) /\ sent' = sent
      /\ ProcessQueue(Append(queue, r))
  BY DEF SubmitRequest, QueueRequest
<1>2. Once(accepted, queue, writes, sent)
  BY DEF EachRequestOnce, Once, HeldBy, Held
<1>3. r \notin Range(queue) \cup Held(writes) \cup Range(sent)
  BY <1>1, <1>2 DEF Once
<1>4. /\ Append(queue, r) \in Seq(Requests)
      /\ Range(Append(queue, r)) = Range(queue) \cup {r}
      /\ IsInjective(Append(queue, r))
      /\ Range(accepted') = Range(accepted) \cup {r}
  BY <1>1, <1>2, <1>3, AppendOnce DEF Once
<1>5. \A s \in Sockets : r \notin Range(writes[s])
  BY <1>3 DEF Held
<1>6. Once(accepted', Append(queue, r), writes, sent)
  BY <1>2, <1>3, <1>4, <1>5 DEF Once
<1>7. /\ Once(accepted', queue', writes', sent)
      /\ Range(queue') \cup Held(writes') = Range(Append(queue, r)) \cup Held(writes)
  BY <1>1, <1>4, <1>6, ProcessQueueOnce
<1> QED
  BY <1>1, <1>3, <1>4, <1>7 DEF EachRequestOnce, Once, HeldBy, Held

(* A send() that settles takes the oldest request h off its socket. *)
LEMMA OffSocket ==
  ASSUME TypeOK, EachRequestOnce, NEW s \in Sockets, writes[s] # <<>>
  PROVE  LET h == Head(writes[s])
             w == [writes EXCEPT ![s] = Tail(@)]
         IN  /\ h \in Requests /\ w \in [Sockets -> Seq(Requests)]
             /\ h \notin Range(queue) /\ h \notin Range(sent) /\ h \notin Held(w)
             /\ Held(writes) = Held(w) \cup {h}
             /\ \A t \in Sockets : IsInjective(w[t]) /\ Range(w[t]) \subseteq Range(writes[t])
<1> USE DEF TypeOK, QueueingTypeOK
<1> DEFINE h == Head(writes[s])
           rest == Tail(writes[s])
           w == [writes EXCEPT ![s] = Tail(@)]
<1>1. /\ h \in Requests /\ rest \in Seq(Requests)
      /\ Range(writes[s]) = Range(rest) \cup {h}
      /\ IsInjective(rest) /\ h \notin Range(rest)
  <2>1. writes[s] \in Seq(Requests) /\ IsInjective(writes[s])
    BY DEF EachRequestOnce
  <2> QED
    BY <2>1, TailOnce
<1>2. w \in [Sockets -> Seq(Requests)] /\ w[s] = rest /\ \A t \in Sockets \ {s} : w[t] = writes[t]
  BY <1>1
<1> HIDE DEF h, w, rest
<1>3. \A t \in Sockets : IsInjective(w[t]) /\ Range(w[t]) \subseteq Range(writes[t])
  BY <1>1, <1>2 DEF EachRequestOnce
<1>4. h \notin Range(queue) /\ h \notin Range(sent)
  BY <1>1 DEF EachRequestOnce, HeldBy
<1>5. \A t \in Sockets : h \notin Range(w[t])
  BY <1>1, <1>2 DEF EachRequestOnce, HeldBy
<1>6. Held(writes) = Held(w) \cup {h}
  BY <1>1, <1>2 DEF Held
<1>7. h \notin Held(w)
  BY <1>5 DEF Held
<1> QED
  BY <1>1, <1>2, <1>3, <1>4, <1>6, <1>7 DEF h, w

(* A resolved send(): the request h is transmitted, the others stay. *)
LEMMA ResolveOnce ==
  ASSUME TypeOK, EachRequestOnce, NEW s \in Sockets, SendResolves(s)
  PROVE  /\ EachRequestOnce'
         /\ \E h \in Requests :
              /\ h \in Held(writes) /\ h \notin Range(queue)
              /\ Range(sent') = Range(sent) \cup {h}
              /\ Range(queue') \cup Held(writes') = (Range(queue) \cup Held(writes)) \ {h}
<1> USE DEF TypeOK, QueueingTypeOK
<1> DEFINE h == Head(writes[s])
           w == [writes EXCEPT ![s] = Tail(@)]
<1>1. /\ writes[s] # <<>> /\ sent' = Append(sent, h) /\ accepted' = accepted
      /\ LoopTurn(queue, w, FALSE)
  BY DEF SendResolves
<1>2. /\ h \in Requests /\ w \in [Sockets -> Seq(Requests)]
      /\ h \notin Range(queue) /\ h \notin Range(sent) /\ h \notin Held(w)
      /\ Held(writes) = Held(w) \cup {h}
      /\ \A t \in Sockets : IsInjective(w[t]) /\ Range(w[t]) \subseteq Range(writes[t])
  BY <1>1, OffSocket
<1> HIDE DEF h, w
<1>3. Range(sent') = Range(sent) \cup {h} /\ IsInjective(sent')
  BY <1>1, <1>2, AppendOnce DEF EachRequestOnce
<1>4. Once(accepted', queue, w, sent')
  <2>1. Once(accepted, queue, writes, sent)
    BY DEF EachRequestOnce, Once, HeldBy, Held
  <2>2. \A t \in Sockets : h \notin Range(w[t])
    BY <1>2 DEF Held
  <2>3. Range(accepted') = Range(queue) \cup Range(sent') \cup Held(w)
    BY <2>1, <1>1, <1>2, <1>3 DEF Once
  <2>4. \A t \in Sockets : Range(w[t]) \cap (Range(queue) \cup Range(sent')) = {}
    BY <2>1, <2>2, <1>2, <1>3 DEF Once
  <2>5. \A t \in Sockets : \A u \in Sockets \ {t} : Range(w[t]) \cap Range(w[u]) = {}
    BY <2>1, <1>2 DEF Once
  <2> QED
    BY <2>1, <2>3, <2>4, <2>5, <1>2, <1>3 DEF Once
<1>5. Once(accepted', queue', writes', sent') /\ Range(queue') \cup Held(writes') = Range(queue) \cup Held(w)
  BY <1>1, <1>2, <1>4, LoopTurnOnce
<1>6. EachRequestOnce'
  BY <1>5 DEF EachRequestOnce, Once, HeldBy, Held
<1>7. Range(queue') \cup Held(writes') = (Range(queue) \cup Held(writes)) \ {h}
  BY <1>2, <1>5
<1> QED
  BY <1>2, <1>3, <1>6, <1>7

(* A rejected send(): the request goes back to the queue. *)
LEMMA RejectOnce ==
  ASSUME TypeOK, EachRequestOnce, NEW s \in Sockets, SendRejects(s)
  PROVE  EachRequestOnce' /\ Range(queue') \cup Held(writes') = Range(queue) \cup Held(writes)
<1> USE DEF TypeOK, QueueingTypeOK
<1> DEFINE h == Head(writes[s])
           w == [writes EXCEPT ![s] = Tail(@)]
<1>1. /\ writes[s] # <<>> /\ writes' = w /\ queue' = <<h>> \o queue
      /\ accepted' = accepted /\ sent' = sent
  BY DEF SendRejects
<1>2. /\ h \in Requests /\ w \in [Sockets -> Seq(Requests)]
      /\ h \notin Range(queue) /\ h \notin Range(sent) /\ h \notin Held(w)
      /\ Held(writes) = Held(w) \cup {h}
      /\ \A t \in Sockets : IsInjective(w[t]) /\ Range(w[t]) \subseteq Range(writes[t])
  BY <1>1, OffSocket
<1> HIDE DEF h, w
<1>3. Range(queue') = Range(queue) \cup {h} /\ IsInjective(queue')
  BY <1>1, <1>2, ConsOnce DEF EachRequestOnce
<1>4. Once(accepted, queue', w, sent)
  <2>1. Once(accepted, queue, writes, sent)
    BY DEF EachRequestOnce, Once, HeldBy, Held
  <2>2. \A t \in Sockets : h \notin Range(w[t])
    BY <1>2 DEF Held
  <2>3. Range(accepted) = Range(queue') \cup Range(sent) \cup Held(w)
    BY <2>1, <1>2, <1>3 DEF Once
  <2>4. \A t \in Sockets : Range(w[t]) \cap (Range(queue') \cup Range(sent)) = {}
    BY <2>1, <2>2, <1>2, <1>3 DEF Once
  <2>5. \A t \in Sockets : \A u \in Sockets \ {t} : Range(w[t]) \cap Range(w[u]) = {}
    BY <2>1, <1>2 DEF Once
  <2> QED
    BY <2>1, <2>3, <2>4, <2>5, <1>2, <1>3 DEF Once
<1>5. EachRequestOnce'
  BY <1>1, <1>4 DEF EachRequestOnce, Once, HeldBy, Held
<1>6. Range(queue') \cup Held(writes') = Range(queue) \cup Held(writes)
  BY <1>1, <1>2, <1>3
<1> QED
  BY <1>5, <1>6

(* The steps that neither accept, send nor put back a request. *)
KeepsRequests == UNCHANGED <<queue, writes, accepted, sent>>

(* Opening a connection lets the queue be processed, which moves requests    *)
(* from the queue to the socket; the other steps leave all of them alone.    *)
LEMMA OpenOnce ==
  ASSUME TypeOK, EachRequestOnce, NEW s \in Sockets, SocketOpens(s)
  PROVE  EachRequestOnce' /\ Range(queue') \cup Held(writes') = Range(queue) \cup Held(writes)
<1>1. accepted' = accepted /\ sent' = sent
  BY DEF SocketOpens, QueueingOpen
<1>2. Once(accepted, queue, writes, sent)
  BY DEF EachRequestOnce, Once, HeldBy, Held
<1>3. CASE socket[s] = "set"
  <2>1. Once(accepted, queue', writes', sent) /\ Range(queue') \cup Held(writes') = Range(queue) \cup Held(writes)
    BY <1>2, <1>3, ProcessQueueOnce DEF SocketOpens, QueueingOpen, TypeOK, QueueingTypeOK
  <2> QED
    BY <1>1, <2>1 DEF EachRequestOnce, Once, HeldBy, Held
<1>4. CASE socket[s] # "set"
  BY <1>1, <1>4 DEF SocketOpens, QueueingOpen, EachRequestOnce, HeldBy
<1> QED
  BY <1>3, <1>4

(* Every step preserves EachRequestOnce. *)
LEMMA OnceStep == TypeOK /\ EachRequestOnce /\ [Next]_vars => EachRequestOnce'
<1> SUFFICES ASSUME TypeOK, EachRequestOnce, [Next]_vars PROVE EachRequestOnce'
  OBVIOUS
<1>1. ASSUME KeepsRequests PROVE EachRequestOnce'
  BY <1>1 DEF KeepsRequests, EachRequestOnce, HeldBy
<1>2. ASSUME NEW r \in Requests, SubmitRequest(r) PROVE EachRequestOnce'
  BY <1>2, SubmitOnce
<1>3. ASSUME NEW s \in Sockets, SocketOpens(s) PROVE EachRequestOnce'
  BY <1>3, OpenOnce
<1>4. ASSUME NEW s \in Sockets, SendSettles(s) PROVE EachRequestOnce'
  BY <1>4, ResolveOnce, RejectOnce DEF SendSettles
<1>5. CASE Connect \/ Disconnect \/ UNCHANGED vars
  BY <1>1, <1>5 DEF KeepsRequests, Connect, QueueingConnect, Disconnect, QueueingDisconnect, vars
<1>6. ASSUME NEW s \in Sockets,
             \/ ReconnectTimer(s) \/ SocketFails(s) \/ SocketStartsClosing(s)
             \/ (\E wasClean \in BOOLEAN : SocketCloses(s, wasClean)) \/ ConnectionTimesOut(s)
      PROVE  EachRequestOnce'
  BY <1>1, <1>6
  DEF KeepsRequests, ReconnectTimer, Reconnect, SocketFails, QueueingError, SocketStartsClosing,
      QueueingWsCloses, SocketCloses, QueueingClose, ConnectionTimesOut, QueueingTimeout
<1> QED
  BY <1>2, <1>3, <1>4, <1>5, <1>6 DEF Next, User, Environment

(* No request is lost, duplicated or sent twice, with any number of          *)
(* processQueue() loops at work (queueingstreamingsocket.ts:100-118).        *)
THEOREM RequestsStayOnce == Spec => []EachRequestOnce
<1>1. Init => EachRequestOnce
  <2> SUFFICES ASSUME Init PROVE EachRequestOnce
    OBVIOUS
  <2>1. /\ queue = <<>> /\ sent = <<>> /\ accepted = <<>>
        /\ \A s \in Sockets : writes[s] = <<>>
    BY DEF Init, QueueingInit
  <2>2. Range(<<>>) = {} /\ IsInjective(<<>>)
    BY DEF Range, IsInjective
  <2>3. UNION {HeldBy(s) : s \in Sockets} = {}
    BY <2>1, <2>2 DEF HeldBy
  <2> QED
    BY <2>1, <2>2, <2>3 DEF EachRequestOnce, HeldBy
<1> QED
  BY <1>1, OnceStep, TypeCorrect, PTL DEF Spec
-----------------------------------------------------------------------------
(* The refinement of RequestTransport. *)

(* disconnect() is only possible after connect(), which leaves Unconnected   *)
(* for good (reconnectingsocket.ts:69-82).                                   *)
UnconnectedInv == connectionStatus = "Unconnected" => unconnected

(* UnconnectedInv is inductive. *)
LEMMA UnconnectedHolds == Spec => []UnconnectedInv
<1>1. Init => UnconnectedInv
  BY DEF Init, UnconnectedInv
<1>2. UnconnectedInv /\ [Next]_vars => UnconnectedInv'
  <2> SUFFICES ASSUME UnconnectedInv, [Next]_vars PROVE UnconnectedInv'
    OBVIOUS
  <2> USE DEF UnconnectedInv, userVars
  <2>1. CASE Connect \/ Disconnect \/ UNCHANGED vars
    BY <2>1 DEF Connect, QueueingConnect, Disconnect, QueueingDisconnect, vars
  <2>2. ASSUME NEW r \in Requests, SubmitRequest(r) PROVE UnconnectedInv'
    BY <2>2 DEF SubmitRequest, QueueRequest
  <2>3. ASSUME NEW s \in Sockets, ReconnectTimer(s) \/ SocketOpens(s) \/ SocketStartsClosing(s)
        PROVE  UnconnectedInv'
    BY <2>3 DEF ReconnectTimer, Reconnect, SocketOpens, QueueingOpen, SocketStartsClosing, QueueingWsCloses
  <2>4. ASSUME NEW s \in Sockets, SocketFails(s) \/ ConnectionTimesOut(s) \/ SendSettles(s)
        PROVE  UnconnectedInv'
    BY <2>4 DEF SocketFails, QueueingError, ConnectionTimesOut, QueueingTimeout, DisconnectedIf,
                SendSettles, SendResolves, SendRejects
  <2>5. ASSUME NEW s \in Sockets, NEW wasClean \in BOOLEAN, SocketCloses(s, wasClean) PROVE UnconnectedInv'
    BY <2>5 DEF SocketCloses, QueueingClose, DisconnectedIf
  <2> QED
    BY <2>1, <2>2, <2>3, <2>4, <2>5 DEF Next, User, Environment
<1> QED
  BY <1>1, <1>2, PTL DEF Spec

(* A step that leaves the requests alone and changes the status as the life  *)
(* cycle says, or after disconnect() in any way, is one of the transport.    *)
LEMMA StatusStep ==
  ASSUME KeepsRequests, UNCHANGED userVars, connectionStatus' \in Statuses,
         \/ connectionStatus' = connectionStatus
         \/ /\ connectionStatus' # "Unconnected"
            /\ <<connectionStatus, connectionStatus'>> \in Transport!LifeCycle \/ disconnects > 0
  PROVE  [Transport!TransportNext]_(Transport!transportVars)
<1>1. UNCHANGED <<Range(queue) \cup UNION {HeldBy(s) : s \in Sockets}, Range(sent), disconnects > 0, disconnected>>
  BY DEF KeepsRequests, userVars, HeldBy
<1>2. CASE connectionStatus' = connectionStatus
  BY <1>1, <1>2 DEF Transport!transportVars
<1>3. CASE /\ connectionStatus' # "Unconnected"
           /\ <<connectionStatus, connectionStatus'>> \in Transport!LifeCycle \/ disconnects > 0
  <2>1. Transport!StatusChange(connectionStatus')
    BY <1>1, <1>3 DEF Transport!StatusChange
  <2> QED
    BY <1>3, <2>1 DEF Transport!TransportNext, Statuses
<1> QED
  BY <1>2, <1>3

(* A socket that opens, fails, closes or times out changes the status as the *)
(* life cycle says: until disconnect() it is the current one.                *)
LEMMA SocketStatusStep ==
  ASSUME TypeOK, StatusInv, NEW s \in Sockets,
         \/ SocketOpens(s) /\ socket[s] = "set"
         \/ SocketFails(s)
         \/ \E wasClean \in BOOLEAN : SocketCloses(s, wasClean)
         \/ ConnectionTimesOut(s)
  PROVE  \/ connectionStatus' = connectionStatus
         \/ /\ connectionStatus' # "Unconnected"
            /\ <<connectionStatus, connectionStatus'>> \in Transport!LifeCycle \/ disconnects > 0
<1> USE DEF StatusInv, TimeoutOnlyWhileConnecting, StaleSocketsAreSilent, Silent, CurrentSocketInv
<1>t. /\ cur \in Sockets
      /\ readyState \in [Sockets -> ReadyStates]
      /\ socket \in [Sockets -> {"none", "set", "dropped"}]
      /\ timeoutId \in [Sockets -> {"unset", "armed", "off"}]
      /\ connected \in [Sockets -> {"pending", "resolved", "rejected"}]
      /\ events \in [Sockets -> {"idle", "live", "completed", "errored"}]
      /\ connectionStatus \in Statuses
      /\ disconnects \in Nat
  BY MaxDisconnectsAssumption DEF TypeOK, QueueingTypeOK, StreamingTypeOK, WrapperTypeOK
<1>1. CASE SocketOpens(s) /\ socket[s] = "set"
  <2>1. disconnects = 0 => connectionStatus = "Connecting"
    BY <1>1, <1>t DEF SocketOpens, QueueingOpen, OnOpen, Statuses
  <2> QED
    BY <1>1, <2>1, <1>t DEF SocketOpens, QueueingOpen, Transport!LifeCycle
<1>e. ASSUME socket[s] = "set", events[s] = "live", disconnects = 0, readyState[s] # "NONE"
      PROVE  connectionStatus \in {"Connecting", "Connected"}
  BY <1>e, <1>t DEF Statuses
<1>d. ASSUME \/ connectionStatus' = connectionStatus
             \/ /\ connectionStatus' = "Disconnected"
                /\ disconnects = 0 => connectionStatus \in {"Connecting", "Connected"}
      PROVE  \/ connectionStatus' = connectionStatus
             \/ /\ connectionStatus' # "Unconnected"
                /\ <<connectionStatus, connectionStatus'>> \in Transport!LifeCycle \/ disconnects > 0
  BY <1>d, <1>t DEF Transport!LifeCycle
<1>2. CASE SocketFails(s)
  <2>1. ErrorCallback(s) => socket[s] = "set" /\ events[s] = "live" /\ readyState[s] # "NONE"
    BY <1>2, <1>t DEF SocketFails, QueueingError, OnSocketError, OnError, ErrorCallback, StreamEnds, Listening
  <2> QED
    BY <1>2, <2>1, <1>e, <1>d DEF SocketFails, QueueingError, DisconnectedIf
<1>3. ASSUME NEW wasClean \in BOOLEAN, SocketCloses(s, wasClean)
      PROVE  \/ connectionStatus' = connectionStatus
             \/ /\ connectionStatus' # "Unconnected"
                /\ <<connectionStatus, connectionStatus'>> \in Transport!LifeCycle \/ disconnects > 0
  <2>1. ErrorCallback(s) => socket[s] = "set" /\ events[s] = "live" /\ readyState[s] # "NONE"
    BY <1>3, <1>t DEF SocketCloses, QueueingClose, OnSocketClose, OnClose, ErrorCallback, StreamEnds, Listening
  <2> QED
    BY <1>3, <2>1, <1>e, <1>d DEF SocketCloses, QueueingClose, DisconnectedIf
<1>4. CASE ConnectionTimesOut(s)
  <2>1. disconnects = 0 => connectionStatus = "Connecting"
    BY <1>4, <1>t DEF ConnectionTimesOut, QueueingTimeout, OnTimeout, Statuses
  <2> QED
    BY <1>4, <2>1, <1>d DEF ConnectionTimesOut, QueueingTimeout, DisconnectedIf
<1> QED
  BY <1>1, <1>2, <1>3, <1>4

(* Every step of the stack is one of the transport, or not visible to it. *)
LEMMA TransportStep ==
  ASSUME TypeOK, TypeOK', StatusInv, EachRequestOnce, UnconnectedInv, [Next]_vars
  PROVE  [Transport!TransportNext]_(Transport!transportVars)
<1> DEFINE Waiting == Range(queue) \cup UNION {HeldBy(s) : s \in Sockets}
           Step == [Transport!TransportNext]_(Transport!transportVars)
<1>w. /\ Waiting = Range(queue) \cup Held(writes)
      /\ Waiting' = Range(queue') \cup Held(writes')
  BY DEF Held, HeldBy
<1>s. connectionStatus' \in Statuses /\ disconnects \in Nat
  BY MaxDisconnectsAssumption DEF TypeOK, QueueingTypeOK
<1>1. CASE Connect
  <2>1. connectionStatus = "Unconnected" \/ disconnects > 0
    BY <1>1, <1>s DEF Connect, StatusInv, CurrentSocketInv
  <2>2. /\ KeepsRequests /\ connectionStatus' = "Connecting"
        /\ UNCHANGED <<disconnected, disconnects>>
    BY <1>1 DEF Connect, QueueingConnect, KeepsRequests
  <2>3. Transport!StatusChange("Connecting")
    BY <2>1, <2>2 DEF Transport!StatusChange, Transport!LifeCycle, KeepsRequests, HeldBy
  <2> QED
    BY <2>3 DEF Transport!TransportNext
<1>2. CASE Disconnect
  <2>1. /\ KeepsRequests /\ connectionStatus' = "Disconnected" /\ connectionStatus # "Unconnected"
        /\ disconnects' > 0
    BY <1>2, <1>s DEF Disconnect, QueueingDisconnect, KeepsRequests, UnconnectedInv
  <2>d. disconnected' \in {disconnected, TRUE}
    <3>1. disconnected \in BOOLEAN /\ disconnected' = (disconnected \/ socket[cur] = "set")
      BY <1>2 DEF Disconnect, TypeOK
    <3> QED
      BY <3>1, Zenon
  <2>2. Transport!Release
    BY <2>1, <2>d DEF Transport!Release, KeepsRequests, HeldBy
  <2> QED
    BY <2>2 DEF Transport!TransportNext
<1>3. ASSUME NEW r \in Requests, SubmitRequest(r) PROVE Step
  <2>1. r \notin Waiting \cup Range(sent) /\ Waiting' = Waiting \cup {r}
    BY <1>3, <1>w, SubmitOnce
  <2>2. /\ ~disconnected
        /\ UNCHANGED <<connectionStatus, sent, disconnects, disconnected>>
    BY <1>3 DEF SubmitRequest, QueueRequest, userVars
  <2>3. Transport!Submit(r)
    BY <2>1, <2>2 DEF Transport!Submit
  <2> QED
    BY <2>3 DEF Transport!TransportNext
<1>4. ASSUME NEW s \in Sockets, SendResolves(s), UNCHANGED userVars PROVE Step
  <2>1. PICK h \in Requests :
          /\ h \in Held(writes) /\ h \notin Range(queue)
          /\ Range(sent') = Range(sent) \cup {h}
          /\ Range(queue') \cup Held(writes') = (Range(queue) \cup Held(writes)) \ {h}
    BY <1>4, ResolveOnce
  <2>2. UNCHANGED <<connectionStatus, disconnects, disconnected>>
    BY <1>4 DEF SendResolves, userVars
  <2>3. h \in Waiting /\ Waiting' = Waiting \ {h} /\ Range(sent)' = Range(sent) \cup {h}
    BY <1>w, <2>1
  <2>4. Transport!Transmit(h)
    BY <2>2, <2>3 DEF Transport!Transmit
  <2> QED
    BY <2>4 DEF Transport!TransportNext
<1>5. ASSUME NEW s \in Sockets, SendRejects(s), UNCHANGED userVars PROVE Step
  <2>1. Waiting' = Waiting
    BY <1>5, <1>w, RejectOnce
  <2> QED
    BY <1>5, <2>1 DEF SendRejects, userVars, Transport!transportVars
<1>6. ASSUME NEW s \in Sockets, SocketOpens(s) PROVE Step
  <2>1. Waiting' = Waiting
    BY <1>6, <1>w, OpenOnce
  <2>2. UNCHANGED <<sent, disconnects, disconnected>>
    BY <1>6 DEF SocketOpens, QueueingOpen, userVars
  <2>3. CASE connectionStatus' = connectionStatus
    BY <2>1, <2>2, <2>3 DEF Transport!transportVars
  <2>4. CASE connectionStatus' # connectionStatus
    <3>1. socket[s] = "set" /\ connectionStatus' = "Connected"
      BY <1>6, <2>4 DEF SocketOpens, QueueingOpen
    <3>2. <<connectionStatus, connectionStatus'>> \in Transport!LifeCycle \/ disconnects > 0
      BY <1>6, <2>4, <3>1, SocketStatusStep
    <3>3. Transport!StatusChange("Connected")
      BY <2>1, <2>2, <3>1, <3>2 DEF Transport!StatusChange
    <3> QED
      BY <3>3 DEF Transport!TransportNext
  <2> QED
    BY <2>3, <2>4
<1>7. ASSUME NEW s \in Sockets,
             \/ SocketFails(s) \/ ConnectionTimesOut(s)
             \/ \E wasClean \in BOOLEAN : SocketCloses(s, wasClean)
      PROVE  Step
  <2>1. KeepsRequests /\ UNCHANGED userVars
    BY <1>7 DEF KeepsRequests, SocketFails, QueueingError, SocketCloses, QueueingClose,
                ConnectionTimesOut, QueueingTimeout
  <2> QED
    BY <1>7, <1>s, <2>1, SocketStatusStep, StatusStep
<1>8. ASSUME NEW s \in Sockets, ReconnectTimer(s) PROVE Step
  <2>1. KeepsRequests /\ UNCHANGED userVars /\ connectionStatus' = "Connecting"
    BY <1>8 DEF KeepsRequests, ReconnectTimer, Reconnect
  <2>2. connectionStatus = "Disconnected" \/ disconnects > 0
    BY <1>8, <1>s DEF ReconnectTimer, StatusInv, CurrentSocketInv
  <2>3. <<connectionStatus, connectionStatus'>> \in Transport!LifeCycle \/ disconnects > 0
    BY <2>1, <2>2 DEF Transport!LifeCycle
  <2> QED
    BY <1>s, <2>1, <2>3, StatusStep
<1>9. ASSUME NEW s \in Sockets, SocketStartsClosing(s) PROVE Step
  <2>1. KeepsRequests /\ UNCHANGED userVars /\ connectionStatus' = connectionStatus
    BY <1>9 DEF KeepsRequests, SocketStartsClosing, QueueingWsCloses
  <2> QED
    BY <1>s, <2>1, StatusStep
<1>10. CASE UNCHANGED vars
  <2>1. KeepsRequests /\ UNCHANGED userVars /\ connectionStatus' = connectionStatus
    BY <1>10 DEF KeepsRequests, vars, userVars
  <2> QED
    BY <1>s, <2>1, StatusStep
<1> QED
  BY <1>1, <1>2, <1>3, <1>4, <1>5, <1>6, <1>7, <1>8, <1>9, <1>10
  DEF Next, User, Environment, SendSettles

(* The stack implements RequestTransport, with any number of sockets and     *)
(* requests: until disconnect() the status follows the life cycle whatever   *)
(* replaced sockets do, and requests go from waiting to transmitted, once    *)
(* each (queueingstreamingsocket.ts:45-118, reconnectingsocket.ts:49-107).   *)
THEOREM TransportIsImplemented == Spec => ImplementsTransport
<1>1. Init => Transport!TransportInit
  <2> SUFFICES ASSUME Init PROVE Transport!TransportInit
    OBVIOUS
  <2>1. Range(<<>>) = {}
    BY DEF Range
  <2>2. UNION {HeldBy(s) : s \in Sockets} = {}
    BY <2>1 DEF Init, QueueingInit, HeldBy
  <2> QED
    BY <2>1, <2>2 DEF Init, QueueingInit, Transport!TransportInit
<1>2. /\ TypeOK /\ TypeOK' /\ StatusInv /\ EachRequestOnce /\ UnconnectedInv /\ [Next]_vars
      => [Transport!TransportNext]_(Transport!transportVars)
  BY TransportStep
<1> QED
  BY <1>1, <1>2, TypeCorrect, StatusInvHolds, RequestsStayOnce, UnconnectedHolds, PTL
  DEF Spec, ImplementsTransport, Transport!TransportSpec

=============================================================================
