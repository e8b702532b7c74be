-------------------------- MODULE ReconnectingSocket --------------------------
(***************************************************************************)
(* iov-socket/src/reconnectingsocket.ts: the whole socket stack as its     *)
(* users see it.  Every Disconnected update of the status (also the one    *)
(* that disconnect() causes) starts a timer that calls reconnect().        *)
(***************************************************************************)
EXTENDS QueueingStreamingSocket, Integers

CONSTANT MaxDisconnects   \* bound on the user's disconnect() calls

ASSUME MaxDisconnectsAssumption == MaxDisconnects \in Nat

VARIABLES unconnected,
          disconnected,       \* set together with the completion of `events`
          timeoutIndex,
          reconnectTimeout,   \* delay of the running timer in ms, 0 if none runs
          disconnects         \* history: number of disconnect() calls

vars == <<readyState, socket, timeoutId, closed, connected, events, cur,
          connectionStatus, queue, isProcessingQueue, writes, accepted, sent,
          unconnected, disconnected, timeoutIndex, reconnectTimeout, disconnects>>

userVars == <<unconnected, disconnected, disconnects>>

calculateTimeout(index) == IF 2 ^ index * 100 < 5000 THEN 2 ^ index * 100 ELSE 5000

(* From this index on the delay is constant, so a larger index is not told  *)
(* apart from it.                                                           *)
LastIndex == 6

NextIndex(index) == IF index < LastIndex THEN index + 1 ELSE index

Delays == {calculateTimeout(i) : i \in 0 .. LastIndex}

TypeOK ==
  /\ QueueingTypeOK
  /\ unconnected \in BOOLEAN
  /\ disconnected \in BOOLEAN
  /\ timeoutIndex \in 0 .. LastIndex
  /\ reconnectTimeout \in Delays \cup {0}
  /\ disconnects \in 0 .. MaxDisconnects

Init ==
  /\ QueueingInit
  /\ unconnected = TRUE
  /\ disconnected = FALSE
  /\ timeoutIndex = 0
  /\ reconnectTimeout = 0
  /\ disconnects = 0
-----------------------------------------------------------------------------
(* The subscription to connectionStatus.updates, for a step that emits no   *)
(* update it reacts to, Connected, or Disconnected once or twice.           *)
NoStatusUpdate == UNCHANGED <<timeoutIndex, reconnectTimeout>>

(* Mutant: a connection does not start the delays over. *)
ConnectedUpdateMutant == UNCHANGED <<timeoutIndex, reconnectTimeout>>

ConnectedUpdate == timeoutIndex' = 0 /\ UNCHANGED reconnectTimeout

DisconnectedUpdate ==
  /\ reconnectTimeout' = calculateTimeout(timeoutIndex)
  /\ timeoutIndex' = NextIndex(timeoutIndex)

TwoDisconnectedUpdates ==
  /\ reconnectTimeout' = calculateTimeout(NextIndex(timeoutIndex))
  /\ timeoutIndex' = NextIndex(NextIndex(timeoutIndex))
-----------------------------------------------------------------------------
Connect ==
  /\ unconnected
  /\ QueueingConnect
  /\ unconnected' = FALSE
  /\ NoStatusUpdate
  /\ UNCHANGED <<disconnected, disconnects>>

(* disconnect(): a wrapper without a socket throws in the middle, before    *)
(* `events` is completed and `disconnected` is set.                         *)
Disconnect ==
  /\ ~unconnected
  /\ disconnects < MaxDisconnects
  /\ disconnects' = disconnects + 1
  /\ QueueingDisconnect
  /\ IF ErrorCallback(cur) THEN TwoDisconnectedUpdates ELSE DisconnectedUpdate
  /\ disconnected' = (disconnected \/ socket[cur] = "set")
  /\ UNCHANGED unconnected

SubmitRequest(r) ==
  /\ ~disconnected
  /\ QueueRequest(r)
  /\ NoStatusUpdate
  /\ UNCHANGED userVars

ReconnectTimer(s) ==
  /\ reconnectTimeout # 0
  /\ reconnectTimeout' = 0
  /\ Reconnect(s)
  /\ UNCHANGED <<timeoutIndex, userVars>>

SocketOpens(s) ==
  /\ QueueingOpen(s)
  /\ IF socket[s] = "set" THEN ConnectedUpdate ELSE NoStatusUpdate
  /\ UNCHANGED userVars

SocketFails(s) ==
  /\ QueueingError(s)
  /\ IF ErrorCallback(s) THEN DisconnectedUpdate ELSE NoStatusUpdate
  /\ UNCHANGED userVars

SocketStartsClosing(s) ==
  /\ QueueingWsCloses(s)
  /\ NoStatusUpdate
  /\ UNCHANGED userVars

SocketCloses(s, wasClean) ==
  /\ QueueingClose(s, wasClean)
  /\ IF ErrorCallback(s) THEN DisconnectedUpdate ELSE NoStatusUpdate
  /\ UNCHANGED userVars

ConnectionTimesOut(s) ==
  /\ QueueingTimeout(s)
  /\ IF connected'[s] = "rejected" THEN DisconnectedUpdate ELSE NoStatusUpdate
  /\ UNCHANGED userVars

SendSettles(s) ==
  /\ SendResolves(s) \/ SendRejects(s)
  /\ NoStatusUpdate
  /\ UNCHANGED userVars

User == Connect \/ Disconnect \/ \E r \in Requests : SubmitRequest(r)

Environment(s) ==
  \/ ReconnectTimer(s)
  \/ SocketOpens(s)
  \/ SocketFails(s)
  \/ SocketStartsClosing(s)
  \/ \E wasClean \in BOOLEAN : SocketCloses(s, wasClean)
  \/ ConnectionTimesOut(s)
  \/ SendSettles(s)

Next == User \/ \E s \in Sockets : Environment(s)

Spec == Init /\ [][Next]_vars

(* Timers fire, a WebSocket that is CLOSING gets its close event (at the    *)
(* latest by the library's own close timeout) and write callbacks are       *)
(* called.  Nothing is assumed of the server or of the user.                *)
Fairness ==
  /\ WF_vars(\E s \in Sockets : ReconnectTimer(s))
  /\ \A s \in Sockets :
       /\ WF_vars(ConnectionTimesOut(s))
       /\ WF_vars(\E wasClean \in BOOLEAN : SocketCloses(s, wasClean))
       /\ WF_vars(SendSettles(s))

FairSpec == Spec /\ Fairness
-----------------------------------------------------------------------------
(* Safety *)

(* Every request accepted by queueRequest() is in exactly one place, once:  *)
(* in the queue, in a send() that has not settled, or sent.  None is lost   *)
(* or sent twice, whatever concurrent processQueue() loops and failing      *)
(* send() calls do (queueingstreamingsocket.ts:100-118).                    *)
HeldBy(s) == Range(writes[s])

EachRequestOnce ==
  /\ Range(accepted) = Range(queue) \cup Range(sent) \cup UNION {HeldBy(s) : s \in Sockets}
  /\ IsInjective(queue) /\ IsInjective(sent)
  /\ Range(queue) \cap Range(sent) = {}
  /\ \A s \in Sockets :
       /\ IsInjective(writes[s])
       /\ HeldBy(s) \cap (Range(queue) \cup Range(sent)) = {}
       /\ \A t \in Sockets \ {s} : HeldBy(s) \cap HeldBy(t) = {}

(* The status never rests at Disconnected: the timer that will reconnect    *)
(* runs, with the delay of the attempts since the last connection, and a    *)
(* connection starts the delays over (reconnectingsocket.ts:49-65).         *)
RetryScheduled ==
  /\ connectionStatus = "Disconnected" =>
       /\ timeoutIndex > 0
       /\ reconnectTimeout \in {calculateTimeout(timeoutIndex), calculateTimeout(timeoutIndex - 1)}
  /\ connectionStatus = "Connected" => timeoutIndex = 0

(* The timer that gives up on a connection attempt only runs while that     *)
(* attempt is open: it can neither close a connection that was established  *)
(* nor reject `connected` after it was resolved (socketwrapper.ts:77-123).  *)
TimeoutOnlyWhileConnecting ==
  \A s \in Sockets : timeoutId[s] = "armed" =>
    readyState[s] = "CONNECTING" /\ socket[s] = "set" /\ connected[s] = "pending"

(* As long as the user does not disconnect, the sockets that reconnect()    *)
(* replaced can change the status no more: their streams have ended and     *)
(* they neither connect nor wait for a timeout (queueingstreamingsocket.ts: *)
(* 71-87 does not unsubscribe from them).                                   *)
Silent(s) ==
  /\ events[s] # "live" \/ socket[s] # "set"
  /\ timeoutId[s] # "armed"
  /\ ~(readyState[s] = "CONNECTING" /\ socket[s] = "set")

StaleSocketsAreSilent ==
  disconnects = 0 => \A s \in Sockets \ {cur} : Silent(s)

(* As long as the user does not disconnect, the status tells the state of   *)
(* the current socket; Connected is also shown after a clean close.         *)
StatusIsAccurate ==
  disconnects = 0 =>
    /\ connectionStatus = "Connecting" =>
         readyState[cur] = "CONNECTING" /\ events[cur] = "live" /\ timeoutId[cur] = "armed"
    /\ connectionStatus = "Connected" =>
         /\ socket[cur] = "set" /\ connected[cur] = "resolved"
         /\ events[cur] = "live" => readyState[cur] \in {"OPEN", "CLOSING"}
         /\ events[cur] # "errored"
    /\ connectionStatus = "Disconnected" => events[cur] = "errored" \/ socket[cur] = "dropped"

(* The inductive invariant behind the previous three: what each status says *)
(* about the current socket, and that only Disconnected waits for a retry.  *)
CurrentSocketInv ==
  /\ connectionStatus = "Unconnected" => unconnected /\ socket[cur] = "none"
  /\ unconnected => connectionStatus = "Unconnected"
  /\ connectionStatus = "Connecting" =>
       /\ readyState[cur] = "CONNECTING" /\ socket[cur] = "set"
       /\ events[cur] = "live" /\ timeoutId[cur] = "armed"
  /\ connectionStatus = "Connected" =>
       /\ socket[cur] = "set" /\ connected[cur] = "resolved" /\ timeoutId[cur] # "armed"
       /\ \/ events[cur] = "live" /\ readyState[cur] \in {"OPEN", "CLOSING"}
          \/ events[cur] = "completed" /\ readyState[cur] = "CLOSED"
  /\ connectionStatus = "Disconnected" =>
       Silent(cur) /\ (events[cur] = "errored" \/ socket[cur] = "dropped")
  /\ reconnectTimeout # 0 => connectionStatus = "Disconnected"

StatusInv ==
  /\ TimeoutOnlyWhileConnecting
  /\ \A s \in Sockets : socket[s] = "none" <=> readyState[s] = "NONE"
  /\ StaleSocketsAreSilent
  /\ disconnects = 0 => CurrentSocketInv

(* The stack implements the abstract transport: before disconnect() its     *)
(* status follows the life cycle whatever the old sockets still do, and     *)
(* requests only move from waiting to transmitted, one at a time.           *)
Transport ==
  INSTANCE RequestTransport WITH
    status <- connectionStatus,
    waiting <- Range(queue) \cup UNION {HeldBy(s) : s \in Sockets},
    transmitted <- Range(sent),
    released <- disconnects > 0,
    ended <- disconnected

ImplementsTransport == Transport!TransportSpec

(* Liveness *)

(* An attempt ends: it succeeds, fails or times out. *)
AttemptSettles ==
  connectionStatus = "Connecting" ~> connectionStatus \in {"Connected", "Disconnected"}

(* A lost connection is always tried again. *)
RetryHappens == connectionStatus = "Disconnected" ~> connectionStatus = "Connecting"

(* The stack never rests without a connection: every attempt ends and, when *)
(* it or a connection has failed, is followed by another one, whichever     *)
(* events of which sockets come in which order (reconnectingsocket.ts:49).  *)
AttemptsGoOn == AttemptSettles /\ RetryHappens
-----------------------------------------------------------------------------
(* What the tests and comments of the repository promise and the code does  *)
(* not keep.                                                                *)

(* "can queue and process requests with a connection"                       *)
(* (queueingstreamingsocket.spec.ts:18): on a connection that stays open    *)
(* every accepted request is sent.                                          *)
RequestsAreProcessed ==
  <>[](connectionStatus = "Connected" /\ readyState[cur] = "OPEN")
    => \A r \in Requests : r \in Range(accepted) ~> r \in Range(sent)

(* "automatically reconnects if the connection is broken off"               *)
(* (reconnectingsocket.spec.ts:141): a closed connection is not kept.       *)
ReconnectsWhenBrokenOff ==
  closed[cur] ~> ~closed[cur]

(* "cannot connect after being disconnected"                                *)
(* (reconnectingsocket.spec.ts:69): disconnect() is final.                  *)
DisconnectIsFinal == [][disconnected => cur' = cur]_vars

(* Requests arrive in the order in which they were queued                   *)
(* (reconnectingsocket.spec.ts:150).                                        *)
SentInOrder ==
  \A i, j \in DOMAIN accepted : \A k, l \in DOMAIN sent :
    i < j /\ sent[k] = accepted[i] /\ sent[l] = accepted[j] => k < l

(* "can disconnect without waiting for open" (reconnectingsocket.spec.ts:84): *)
(* after disconnect() the stream of events is complete.                     *)
DisconnectCompletes == disconnects > 0 => disconnected
=============================================================================
