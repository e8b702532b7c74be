---------------------------- MODULE SocketWrapper ----------------------------
(***************************************************************************)
(* iov-socket/src/socketwrapper.ts: one WebSocket with constant handlers,  *)
(* a connection timeout and the corner cases of opening and closing.       *)
(*                                                                         *)
(* The module keeps a pool of wrappers, because a reconnecting socket      *)
(* makes a new one for every attempt while older ones may still have       *)
(* events to come.  A slot whose wrapper can produce nothing any more      *)
(* (Free) is used again for a later instance.                              *)
(*                                                                         *)
(* Every action is one task of the JavaScript event loop with the promise  *)
(* reactions (microtasks) it triggers: no other task runs in between.      *)
(***************************************************************************)
CONSTANT Sockets        \* slots for wrapper instances

VARIABLES readyState,   \* the WebSocket's readyState ("NONE": not created)
          socket,       \* this.socket: "none" before connect(), "set", or
                        \* "dropped" (unset again, handlers replaced by no-ops)
          timeoutId,    \* the connection timer: "unset", "armed", "off"
          closed,       \* this.closed
          connected     \* the promise: "pending", "resolved", "rejected"

ReadyStates == {"NONE", "CONNECTING", "OPEN", "CLOSING", "CLOSED"}

WrapperTypeOK ==
  /\ readyState \in [Sockets -> ReadyStates]
  /\ socket \in [Sockets -> {"none", "set", "dropped"}]
  /\ timeoutId \in [Sockets -> {"unset", "armed", "off"}]
  /\ closed \in [Sockets -> BOOLEAN]
  /\ connected \in [Sockets -> {"pending", "resolved", "rejected"}]

WrapperInit ==
  /\ readyState = [s \in Sockets |-> "NONE"]
  /\ socket = [s \in Sockets |-> "none"]
  /\ timeoutId = [s \in Sockets |-> "unset"]
  /\ closed = [s \in Sockets |-> FALSE]
  /\ connected = [s \in Sockets |-> "pending"]

(* Nothing the wrapper in this slot reports can reach anybody any more. *)
Free(s) == socket[s] \in {"none", "dropped"} \/ readyState[s] = "CLOSED"

(* constructor and connect(): a new WebSocket with all handlers set and the *)
(* connection timer running.                                                *)
WrapperConnect(s) ==
  /\ Free(s)
  /\ readyState' = [readyState EXCEPT ![s] = "CONNECTING"]
  /\ socket' = [socket EXCEPT ![s] = "set"]
  /\ timeoutId' = [timeoutId EXCEPT ![s] = "armed"]
  /\ closed' = [closed EXCEPT ![s] = FALSE]
  /\ connected' = [connected EXCEPT ![s] = "pending"]

(* Mutant: the handlers forget to stop the timer. *)
ClearedTimeoutMutant(s) == timeoutId

(* clearTimeout(): idempotent, and only ever called after connect(). *)
ClearedTimeout(s) == [timeoutId EXCEPT ![s] = "off"]

(* The WebSocket opens.  onopen is a no-op when the wrapper dropped it. *)
OnOpen(s) ==
  /\ readyState[s] = "CONNECTING"
  /\ readyState' = [readyState EXCEPT ![s] = "OPEN"]
  /\ \/ /\ socket[s] = "set"
        /\ timeoutId' = ClearedTimeout(s)
        /\ connected' = [connected EXCEPT ![s] = "resolved"]
     \/ /\ socket[s] = "dropped"
        /\ UNCHANGED <<timeoutId, connected>>
  /\ UNCHANGED <<socket, closed>>

(* The handshake or the established connection fails: the WebSocket goes to *)
(* CLOSING and fires an error; its close event follows.                     *)
OnError(s) ==
  /\ readyState[s] \in {"CONNECTING", "OPEN"}
  /\ readyState' = [readyState EXCEPT ![s] = "CLOSING"]
  /\ \/ socket[s] = "set" /\ timeoutId' = ClearedTimeout(s)
     \/ socket[s] = "dropped" /\ UNCHANGED timeoutId
  /\ UNCHANGED <<socket, closed, connected>>

(* The peer starts the closing handshake or the connection is lost; no      *)
(* handler runs until the close event.                                      *)
WsCloses(s) ==
  /\ readyState[s] = "OPEN"
  /\ readyState' = [readyState EXCEPT ![s] = "CLOSING"]
  /\ UNCHANGED <<socket, timeoutId, closed, connected>>

OnClose(s) ==
  /\ readyState[s] = "CLOSING"
  /\ readyState' = [readyState EXCEPT ![s] = "CLOSED"]
  /\ closed' = [closed EXCEPT ![s] = @ \/ socket[s] = "set"]
  /\ UNCHANGED <<socket, timeoutId, connected>>

(* Mutant: the timer closes the WebSocket and leaves its handlers in place. *)
OnTimeoutMutant(s) ==
  /\ timeoutId[s] = "armed"
  /\ timeoutId' = [timeoutId EXCEPT ![s] = "off"]
  /\ readyState' = [readyState EXCEPT ![s] = IF @ = "CLOSED" THEN @ ELSE "CLOSING"]
  /\ connected' = [connected EXCEPT ![s] = IF @ = "pending" THEN "rejected" ELSE @]
  /\ UNCHANGED <<socket, closed>>

(* The connection timer fires: handlers are replaced, the WebSocket is      *)
(* closed and forgotten, `connected` is rejected (a no-op if resolved).     *)
OnTimeout(s) ==
  /\ timeoutId[s] = "armed"
  /\ timeoutId' = [timeoutId EXCEPT ![s] = "off"]
  /\ readyState' = [readyState EXCEPT ![s] = IF @ = "CLOSED" THEN @ ELSE "CLOSING"]
  /\ socket' = [socket EXCEPT ![s] = "dropped"]
  /\ connected' = [connected EXCEPT ![s] = IF @ = "pending" THEN "rejected" ELSE @]
  /\ UNCHANGED closed

(* disconnect() on a wrapper that has a socket; without one it throws.  An  *)
(* open socket starts its closing handshake; a connecting one is dropped    *)
(* and goes on connecting with no-op handlers (there is no abort API).      *)
WrapperDisconnect(s) ==
  /\ socket[s] = "set"
  /\ timeoutId' = ClearedTimeout(s)
  /\ readyState' = [readyState EXCEPT ![s] = IF @ = "OPEN" THEN "CLOSING" ELSE @]
  /\ socket' = [socket EXCEPT ![s] = IF readyState[s] = "CONNECTING" THEN "dropped" ELSE @]
  /\ UNCHANGED <<closed, connected>>

(* send() passes its three checks; otherwise its promise is rejected before *)
(* the next task runs.                                                      *)
Sendable(s) == socket[s] = "set" /\ ~closed[s] /\ readyState[s] = "OPEN"
=============================================================================
