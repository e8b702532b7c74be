-------------------------- MODULE StreamOperators --------------------------
(***************************************************************************)
(* The stream operators of iov-stream as functions on their state.         *)
(*                                                                         *)
(* A concatenation is a record: queues[i] holds the buffered values of     *)
(* source stream i, completed the streams that have ended, active the      *)
(* stream whose values are passed on, out what the listener was given and  *)
(* status how the stream ended for the listener, if it did.                *)
(***************************************************************************)
EXTENDS Naturals, Sequences, SequencesExt, Sublists

CONSTANT Undefined      \* the value `undefined`, which a stream may carry

NewConcat(n) ==
  [queues |-> [i \in 1 .. n |-> <<>>], completed |-> {}, active |-> 1, out |-> <<>>,
   status |-> IF n = 0 THEN "completed" ELSE "running"]

Streams(c) == DOMAIN c.queues

(* reset() *)
Reset(c, status) ==
  [c EXCEPT !.queues = [i \in DOMAIN @ |-> <<>>], !.completed = {}, !.active = 1,
            !.status = status]

(* Values that stream i emits one after the other. *)
ConcatNextAll(c, i, values) ==
  IF i = c.active THEN [c EXCEPT !.out = @ \o values]
                  ELSE [c EXCEPT !.queues[i] = @ \o values]

ConcatNext(c, i, v) == ConcatNextAll(c, i, <<v>>)

(* What emitAllQueuesEvents shifts off a queue: it stops at an element that *)
(* is `undefined`, as shift() returns for an empty queue.                   *)
Emitted(q) == SelectInSeq(q, LAMBDA v : v = Undefined)
EmittedPart(q) == IF Emitted(q) = 0 THEN q ELSE SubSeq(q, 1, Emitted(q) - 1)
Remainder(q) == IF Emitted(q) = 0 THEN <<>> ELSE SubSeq(q, Emitted(q) + 1, Len(q))

(* emitAllQueuesEvents for streams i to j. *)
EmitQueues(c, i, j) ==
  [c EXCEPT !.out = @ \o FlattenSeq([k \in 1 .. j - i + 1 |-> EmittedPart(c.queues[i + k - 1])]),
            !.queues = [k \in DOMAIN @ |-> IF k \in i .. j THEN Remainder(@[k]) ELSE @[k]]]

(* Mutant: one completed stream is skipped, not all of them. *)
NextActiveMutant(c, completed) == IF c.active \in completed THEN c.active + 1 ELSE c.active

(* The first stream from the active one on that has not completed. *)
NextActive(c, completed) ==
  CHOOSE j \in c.active .. Len(c.queues) + 1 :
    j \notin completed /\ \A k \in c.active .. j - 1 : k \in completed

ConcatComplete(c, i) ==
  LET completed == c.completed \cup {i}
      j == NextActive(c, completed)
      moved == [EmitQueues(c, c.active, j - 1) EXCEPT !.completed = completed, !.active = j]
  IN IF j > Len(c.queues) THEN Reset(moved, "completed")
     ELSE EmitQueues(moved, j, j)

ConcatError(c) == Reset(c, "failed")

(* fromListPromise: all elements, then completion, in one step. *)
EmitListPromise(c, i, list) == ConcatComplete(ConcatNextAll(c, i, list), i)

(* Mutant: a key is only compared with the ones of earlier steps. *)
DropDuplicatesMutant(emitted, in) == SelectSeq(in, LAMBDA v : v \notin ToSet(emitted))

(* dropDuplicates: what is left of the values of `in` when the values of    *)
(* `emitted` have been passed on before.                                    *)
DropDuplicates(emitted, in) ==
  LET new == {n \in DOMAIN in : in[n] \notin ToSet(emitted) /\ \A m \in 1 .. n - 1 : in[m] # in[n]}
      kept == Those([n \in DOMAIN in |-> n], new)
  IN [k \in DOMAIN kept |-> in[kept[k]]]
=============================================================================
