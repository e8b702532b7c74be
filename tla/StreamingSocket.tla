--------------------------- MODULE StreamingSocket ---------------------------
(***************************************************************************)
(* iov-socket/src/streamingsocket.ts: a SocketWrapper whose messages form  *)
(* a stream.  An error or an unclean close ends the stream with an error,  *)
(* a clean close completes it.  Ending a stream stops its producer         *)
(* synchronously (xstream), so what the wrapper reports later reaches      *)
(* nobody: every stream ends at most once.                                 *)
(***************************************************************************)
EXTENDS SocketWrapper

VARIABLE events   \* "idle" (nobody listens), "live", "completed", "errored"

streamingVars == <<readyState, socket, timeoutId, closed, connected, events>>

StreamingTypeOK ==
  /\ WrapperTypeOK
  /\ events \in [Sockets -> {"idle", "live", "completed", "errored"}]

(* eventProducerListener is set *)
Listening(s) == events[s] = "live"

(* A new instance, subscribed to in the same task (as its only user does). *)
StreamingConnect(s) ==
  /\ WrapperConnect(s)
  /\ events' = [events EXCEPT ![s] = "live"]

StreamEnds(s, how) ==
  events' = [events EXCEPT ![s] = IF Listening(s) THEN how ELSE @]

(* The handlers passed to the wrapper; they only run while it has a socket. *)
OnSocketError(s) ==
  /\ OnError(s)
  /\ IF socket[s] = "set" THEN StreamEnds(s, "errored") ELSE UNCHANGED events

OnSocketClose(s, wasClean) ==
  /\ OnClose(s)
  /\ IF socket[s] = "set"
       THEN StreamEnds(s, IF wasClean THEN "completed" ELSE "errored")
       ELSE UNCHANGED events

(* disconnect(): aborting a connection attempt calls the close handler with *)
(* wasClean = false before it returns.                                      *)
StreamingDisconnect(s) ==
  /\ WrapperDisconnect(s)
  /\ IF readyState[s] = "CONNECTING" THEN StreamEnds(s, "errored") ELSE UNCHANGED events

(* The subscriber's error callback runs in this step. *)
ErrorCallback(s) == events[s] = "live" /\ events'[s] = "errored"
=============================================================================
