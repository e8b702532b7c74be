---------------------------- MODULE ConcatStream ----------------------------
(***************************************************************************)
(* concat() of iov-stream between N source streams that emit, complete and *)
(* fail in any order, and a listener that stops and starts again.          *)
(***************************************************************************)
EXTENDS StreamOperators

CONSTANTS
  N,            \* number of source streams
  Value,        \* values of the source streams
  MaxValues     \* bound on the values of one source stream

ASSUME ConcatAssumption == N \in Nat \ {0} /\ MaxValues \in Nat

VARIABLES
  joined,       \* state of the concatenation
  sent          \* sent[i]: what stream i emitted since the listener came

streamVars == <<joined, sent>>

StreamInit ==
  /\ joined = [NewConcat(N) EXCEPT !.status = "stopped"]
  /\ sent = [i \in 1 .. N |-> <<>>]

(* A listener comes, also after the stream has completed or failed.        *)
StartListening ==
  /\ joined.status # "running"
  /\ joined' = NewConcat(N)
  /\ sent' = [i \in 1 .. N |-> <<>>]

SourceNext(i, v) ==
  /\ joined.status = "running"
  /\ i \notin joined.completed
  /\ Len(sent[i]) < MaxValues
  /\ sent' = [sent EXCEPT ![i] = Append(@, v)]
  /\ joined' = ConcatNext(joined, i, v)

SourceComplete(i) ==
  /\ joined.status = "running"
  /\ i \notin joined.completed
  /\ joined' = ConcatComplete(joined, i)
  /\ UNCHANGED sent

SourceError(i) ==
  /\ joined.status = "running"
  /\ i \notin joined.completed
  /\ joined' = ConcatError(joined)
  /\ UNCHANGED sent

(* The listener unsubscribes.                                              *)
StopListening ==
  /\ joined.status = "running"
  /\ joined' = Reset(joined, "stopped")
  /\ UNCHANGED sent

StreamNext ==
  \/ StartListening
  \/ StopListening
  \/ \E i \in 1 .. N :
       (\E v \in Value : SourceNext(i, v)) \/ SourceComplete(i) \/ SourceError(i)

StreamSpec == StreamInit /\ [][StreamNext]_streamVars
-----------------------------------------------------------------------------
(* Types: the queues of streams that are active or past are empty.         *)
StreamTypeOK ==
  /\ joined.status \in {"stopped", "running", "completed", "failed"}
  /\ joined.active \in 1 .. N
  /\ joined.completed \subseteq 1 .. N
  /\ \A i \in 1 .. N : sent[i] \in Seq(Value) /\ joined.queues[i] \in Seq(Value)
  /\ \A i \in 1 .. joined.active : joined.queues[i] = <<>>

(* "An implementation of concat that buffers all source stream events": the *)
(* listener has all the values of the streams up to the active one, in the *)
(* order of the streams, however the sources interleave and complete; it is *)
(* not held up by a stream that has ended, and when the concatenation      *)
(* completes, it has all values.                                           *)
OutIsConcatenation ==
  /\ joined.status = "running" => joined.active \notin joined.completed
  /\ joined.status = "running" => joined.out = FlattenSeq(SubSeq(sent, 1, joined.active))
  /\ joined.status = "completed" => joined.out = FlattenSeq(sent)
=============================================================================
