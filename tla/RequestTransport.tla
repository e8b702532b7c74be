--------------------------- MODULE RequestTransport ---------------------------
(***************************************************************************)
(* What the socket stack (ReconnectingSocket) promises its users, as they  *)
(* can observe it: a connection status that follows one life cycle, and    *)
(* requests that wait until they are transmitted, once each.               *)
(*                                                                         *)
(* The life cycle is promised until disconnect() is called.  After that    *)
(* call nothing is promised about the status.                              *)
(***************************************************************************)
CONSTANT Requests

VARIABLES status,        \* connectionStatus.value
          waiting,       \* accepted by queueRequest(), not yet transmitted
          transmitted,
          released,      \* disconnect() was called
          ended          \* `events` is complete, no request is accepted

transportVars == <<status, waiting, transmitted, released, ended>>

TransportInit ==
  /\ status = "Unconnected"
  /\ waiting = {}
  /\ transmitted = {}
  /\ released = FALSE
  /\ ended = FALSE

(* The status changes that are possible before disconnect(). *)
LifeCycle == { <<"Unconnected", "Connecting">>,
               <<"Connecting", "Connected">>,
               <<"Connecting", "Disconnected">>,
               <<"Connected", "Disconnected">>,
               <<"Disconnected", "Connecting">> }

StatusChange(new) ==
  /\ status' = new
  /\ <<status, new>> \in LifeCycle \/ released
  /\ UNCHANGED <<waiting, transmitted, released, ended>>

Submit(r) ==
  /\ ~ended
  /\ r \notin waiting \cup transmitted
  /\ waiting' = waiting \cup {r}
  /\ UNCHANGED <<status, transmitted, released, ended>>

Transmit(r) ==
  /\ r \in waiting
  /\ waiting' = waiting \ {r}
  /\ transmitted' = transmitted \cup {r}
  /\ UNCHANGED <<status, released, ended>>

(* disconnect() may throw after it has changed the status. *)
Release ==
  /\ status # "Unconnected"
  /\ status' = "Disconnected"
  /\ released' = TRUE
  /\ ended' \in {ended, TRUE}
  /\ UNCHANGED <<waiting, transmitted>>

TransportNext ==
  \/ \E new \in {"Connecting", "Connected", "Disconnected"} : StatusChange(new)
  \/ \E r \in Requests : Submit(r) \/ Transmit(r)
  \/ Release

TransportSpec == TransportInit /\ [][TransportNext]_transportVars
=============================================================================
