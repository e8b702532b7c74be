-------------------------- MODULE MCWebsocketClient --------------------------
(***************************************************************************)
(* The WebSocket client over the abstract transport, and the liveness of   *)
(* the socket stack that provides the transport.  `part` says which of the *)
(* two specifications a behaviour belongs to; the variables of the other   *)
(* keep an initial value in which none of its fair actions is enabled.     *)
(***************************************************************************)
EXTENDS WebsocketClient

CONSTANTS c1, q1, s1, s2, s3, r1, MaxDisconnects

OneCall == {c1}
OneQuery == {q1}

MCRequests ==
  {<<"call", c, 0>> : c \in Calls} \cup ({"subscribe", "unsubscribe"} \X Queries \X (0 .. MaxStarts))

VARIABLES part,
          readyState, socket, timeoutId, closed, connected, events, cur,
          connectionStatus, queue, isProcessingQueue, writes, accepted, sent,
          unconnected, disconnected, timeoutIndex, reconnectTimeout, disconnects

Stack == INSTANCE ReconnectingSocket
           WITH Sockets <- {s1, s2, s3}, FirstSocket <- s1, Requests <- {r1}

stackVars == <<readyState, socket, timeoutId, closed, connected, events, cur,
               connectionStatus, queue, isProcessingQueue, writes, accepted, sent,
               unconnected, disconnected, timeoutIndex, reconnectTimeout, disconnects>>

allVars == <<part, vars, stackVars>>

BothInit == part \in {"client", "stack"} /\ Init /\ Stack!Init

BothNext ==
  /\ \/ part = "client" /\ Next /\ UNCHANGED stackVars
     \/ part = "stack" /\ Stack!Next /\ UNCHANGED vars
  /\ UNCHANGED part

BothSpec == BothInit /\ [][BothNext]_allVars /\ Stack!Fairness
-----------------------------------------------------------------------------
(* No attempt to connect hangs and no retry is forgotten: AttemptsGoOn of   *)
(* ReconnectingSocket (socketwrapper.ts:109-120, reconnectingsocket.ts:49). *)
AttemptsGoOn == Stack!AttemptsGoOn
=============================================================================
