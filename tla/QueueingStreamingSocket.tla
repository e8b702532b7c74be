----------------------- MODULE QueueingStreamingSocket -----------------------
(***************************************************************************)
(* iov-socket/src/queueingstreamingsocket.ts: a request queue in front of  *)
(* a StreamingSocket that is replaced by reconnect().                      *)
(*                                                                         *)
(* processQueue() is asynchronous.  From the call of send() until its      *)
(* promise settles the loop is suspended, and `writes` represents it: an   *)
(* entry of writes[s] is the request that a loop has handed to s.  The     *)
(* callbacks of one WebSocket come in the order of its sends.  The code    *)
(* lets several loops exist at the same time, because it clears            *)
(* isProcessingQueue after the first request of a loop.                    *)
(***************************************************************************)
EXTENDS StreamingSocket, Sequences, Functions

CONSTANTS Requests,       \* the requests (non-empty strings), each queued at most once
          FirstSocket     \* the slot of the instance made by the constructor

ASSUME FirstSocketAssumption == FirstSocket \in Sockets

VARIABLES cur,                \* this.socket
          connectionStatus,
          queue,
          isProcessingQueue,
          writes,             \* the suspended loops: unsettled send() calls per socket
          accepted,           \* history: the requests passed to queueRequest(), in order
          sent                \* history: the requests whose send() resolved, in order

queueingVars ==
  <<readyState, socket, timeoutId, closed, connected, events, cur,
    connectionStatus, queue, isProcessingQueue, writes, accepted, sent>>

Statuses == {"Unconnected", "Connecting", "Connected", "Disconnected"}

QueueingTypeOK ==
  /\ StreamingTypeOK
  /\ cur \in Sockets
  /\ connectionStatus \in Statuses
  /\ queue \in Seq(Requests)
  /\ isProcessingQueue \in BOOLEAN
  /\ writes \in [Sockets -> Seq(Requests)]
  /\ accepted \in Seq(Requests)
  /\ sent \in Seq(Requests)

QueueingInit ==
  /\ WrapperInit
  /\ events = [s \in Sockets |-> IF s = FirstSocket THEN "live" ELSE "idle"]
  /\ cur = FirstSocket
  /\ connectionStatus = "Unconnected"
  /\ queue = <<>>
  /\ isProcessingQueue = FALSE
  /\ writes = [s \in Sockets |-> <<>>]
  /\ accepted = <<>>
  /\ sent = <<>>
-----------------------------------------------------------------------------
(* Mutant: the loop reads the first request without removing it. *)
LoopTurnMutant(q, w, flag) ==
  /\ queue' = q
  /\ writes' = IF q # <<>> /\ Sendable(cur)' THEN [w EXCEPT ![cur] = Append(@, Head(q))] ELSE w
  /\ isProcessingQueue' = flag

(* One turn of the while loop on the queue q with the suspended loops w and *)
(* isProcessingQueue = flag.  An empty queue ends the loop and leaves the   *)
(* flag alone.  A send() that throws puts the request back and ends the     *)
(* loop, all before the next task.                                          *)
LoopTurn(q, w, flag) ==
  \/ /\ q = <<>>
     /\ queue' = q /\ writes' = w /\ isProcessingQueue' = flag
  \/ /\ q # <<>> /\ Sendable(cur)'
     /\ queue' = Tail(q)
     /\ writes' = [w EXCEPT ![cur] = Append(@, Head(q))]
     /\ isProcessingQueue' = flag
  \/ /\ q # <<>> /\ ~Sendable(cur)'
     /\ queue' = q /\ writes' = w /\ isProcessingQueue' = FALSE

ProcessQueue(q) ==
  IF isProcessingQueue \/ connectionStatus' # "Connected"
    THEN queue' = q /\ UNCHANGED <<isProcessingQueue, writes>>
    ELSE LoopTurn(q, writes, TRUE)

QueueRequest(r) ==
  /\ r \notin Range(accepted)
  /\ accepted' = Append(accepted, r)
  /\ UNCHANGED <<streamingVars, cur, connectionStatus, sent>>
  /\ ProcessQueue(Append(queue, r))

(* The oldest send() on s resolves: its loop goes on, with this.socket. *)
SendResolves(s) ==
  /\ writes[s] # <<>>
  /\ sent' = Append(sent, Head(writes[s]))
  /\ UNCHANGED <<streamingVars, cur, connectionStatus, accepted>>
  /\ LoopTurn(queue, [writes EXCEPT ![s] = Tail(@)], FALSE)

(* Mutant: a failed request is not put back. *)
SendRejectsMutant(s) ==
  /\ writes[s] # <<>> /\ readyState[s] # "OPEN"
  /\ writes' = [writes EXCEPT ![s] = Tail(@)]
  /\ isProcessingQueue' = FALSE
  /\ UNCHANGED <<streamingVars, cur, connectionStatus, queue, accepted, sent>>

(* The oldest send() on s rejects, which only happens when the connection   *)
(* goes down: the request goes back to the front and the loop ends.         *)
SendRejects(s) ==
  /\ writes[s] # <<>> /\ readyState[s] # "OPEN"
  /\ writes' = [writes EXCEPT ![s] = Tail(@)]
  /\ queue' = <<Head(writes[s])>> \o queue
  /\ isProcessingQueue' = FALSE
  /\ UNCHANGED <<streamingVars, cur, connectionStatus, accepted, sent>>
-----------------------------------------------------------------------------
(* connect() on the instance of the constructor. *)
QueueingConnect ==
  /\ connectionStatus' = "Connecting"
  /\ StreamingConnect(cur)
  /\ UNCHANGED <<cur, queue, isProcessingQueue, writes, accepted, sent>>

(* reconnect(): a new instance in slot s, subscribed to and connected.  The *)
(* previous instance is neither disconnected nor unsubscribed from.         *)
Reconnect(s) ==
  /\ s # cur /\ writes[s] = <<>>
  /\ cur' = s
  /\ connectionStatus' = "Connecting"
  /\ StreamingConnect(s)
  /\ UNCHANGED <<queue, isProcessingQueue, writes, accepted, sent>>

(* The handlers are bound to the QueueingStreamingSocket, not to its current *)
(* instance: what an older instance reports changes the status as well.     *)
QueueingOpen(s) ==
  /\ OnOpen(s)
  /\ connectionStatus' = IF socket[s] = "set" THEN "Connected" ELSE connectionStatus
  /\ UNCHANGED <<events, cur, accepted, sent>>
  /\ IF socket[s] = "set"
       THEN ProcessQueue(queue)
       ELSE UNCHANGED <<queue, isProcessingQueue, writes>>

(* Mutant: subscribed to without an error callback. *)
DisconnectedIfMutant(cond) == UNCHANGED connectionStatus

DisconnectedIf(cond) ==
  connectionStatus' = IF cond THEN "Disconnected" ELSE connectionStatus

QueueingError(s) ==
  /\ OnSocketError(s)
  /\ DisconnectedIf(ErrorCallback(s))
  /\ UNCHANGED <<cur, queue, isProcessingQueue, writes, accepted, sent>>

QueueingClose(s, wasClean) ==
  /\ OnSocketClose(s, wasClean)
  /\ DisconnectedIf(ErrorCallback(s))
  /\ UNCHANGED <<cur, queue, isProcessingQueue, writes, accepted, sent>>

QueueingWsCloses(s) ==
  /\ WsCloses(s)
  /\ UNCHANGED <<events, cur, connectionStatus, queue, isProcessingQueue, writes, accepted, sent>>

(* Mutant: `connected` has no rejection handler. *)
QueueingTimeoutMutant(s) ==
  /\ OnTimeout(s)
  /\ UNCHANGED <<connectionStatus, events, cur, queue, isProcessingQueue, writes, accepted, sent>>

(* The rejection of `connected` sets the status in the same task. *)
QueueingTimeout(s) ==
  /\ OnTimeout(s)
  /\ DisconnectedIf(connected'[s] = "rejected")
  /\ UNCHANGED <<events, cur, queue, isProcessingQueue, writes, accepted, sent>>

(* disconnect(): the status changes first; the wrapper throws if it has no  *)
(* socket any more.                                                         *)
QueueingDisconnect ==
  /\ connectionStatus' = "Disconnected"
  /\ \/ StreamingDisconnect(cur)
     \/ socket[cur] # "set" /\ UNCHANGED streamingVars
  /\ UNCHANGED <<cur, queue, isProcessingQueue, writes, accepted, sent>>
=============================================================================
