---------------------------- MODULE StreamsProofs ----------------------------
(***************************************************************************)
(* Proofs about concat() and liveTx(), and about the composition of the    *)
(* streams in MCStreams, for any number of listeners, sources and          *)
(* transactions.                                                           *)
(***************************************************************************)
EXTENDS MCStreams, SwapsProofs

-----------------------------------------------------------------------------
(* concat() (StreamOperators, ConcatStream). *)

(* The sequences u, of which the first is empty and the others follow the    *)
(* first m of s.                                                             *)
FollowsIn(s, m, d, u) ==
  /\ m + d <= Len(s) /\ Len(u) = d + 1
  /\ u[1] = <<>> /\ \A k \in 1 .. d : u[k + 1] = s[m + k]

LEMMA FlatJoins ==
  ASSUME NEW T, NEW s \in Seq(Seq(T)), NEW m \in Nat, NEW d \in Nat,
         NEW u \in Seq(Seq(T)), FollowsIn(s, m, d, u)
  PROVE  Flat(s, m) \o FlattenSeq(u) = Flat(s, m + d)
<1> DEFINE P == {k \in 0 .. d : Flat(s, m) \o Flat(u, k + 1) = Flat(s, m + k)}
<1>1. /\ Len(s) \in Nat /\ Len(u) \in Nat /\ Len(u) = d + 1 /\ m + d <= Len(s) /\ u[1] = <<>>
      /\ \A k \in 1 .. d : u[k + 1] = s[m + k]
  BY LenProperties DEF FollowsIn
<1>2. Flat(s, m) \in Seq(T)
  <2>1. m \in 0 .. Len(s)
    BY <1>1
  <2> QED BY <2>1, FlatStep
<1>3. \A j \in 0 .. Len(u), i \in 0 .. Len(u) : j = i + 1 => Flat(u, j) = Flat(u, i) \o u[j]
  <2> SUFFICES ASSUME NEW j \in 0 .. Len(u), NEW i \in 0 .. Len(u), j = i + 1
               PROVE  Flat(u, j) = Flat(u, i) \o u[j]
    OBVIOUS
  <2>1. j # 0 /\ j - 1 = i
    OBVIOUS
  <2> QED BY <2>1, FlatStep
<1>4. m + d <= Len(s) /\ Len(s) \in Nat
  BY <1>1
<1>5. 0 \in P
  <2>1. 1 \in 0 .. Len(u) /\ 0 \in 0 .. Len(u) /\ 0 + 1 = 1 /\ m + 0 = m /\ 1 - 1 = 0 /\ 0 \in 0 .. d
    BY <1>1
  <2>2. Flat(u, 0) = <<>>
    BY <2>1, FlatStep
  <2>3. Flat(u, 1) = Flat(u, 0) \o u[1]
    BY <1>3, <2>1
  <2>4. <<>> \o u[1] = <<>>
    <3>1. u[1] \in Seq(T)
      BY <1>1, EmptySeq
    <3>2. <<>> \o u[1] = u[1]
      BY <3>1, ConcatEmptySeq
    <3> QED BY <1>1, <3>2
  <2>5. Flat(s, m) \o <<>> = Flat(s, m)
    BY <1>2, ConcatEmptySeq
  <2>6. Flat(u, 1) = <<>>
    BY <2>1, <2>2, <2>3, <2>4
  <2>7. Flat(s, m) \o Flat(u, 0 + 1) = Flat(s, m + 0)
    BY <2>1, <2>5, <2>6
  <2> QED BY <2>1, <2>7
<1>6. ASSUME NEW k \in 0 .. d - 1, k \in P PROVE k + 1 \in P
  <2> DEFINE j == (k + 1) + 1
             i == m + (k + 1)
  <2>1. k + 1 \in 0 .. d /\ k + 1 \in 1 .. d /\ k \in Nat
    OBVIOUS
  <2>2. j \in 0 .. Len(u) /\ j = (k + 1) + 1 /\ k + 1 \in 0 .. Len(u)
    BY <1>1, <2>1
  <2>3. i \in 0 .. Len(s) /\ i # 0 /\ i - 1 = m + k /\ i \in 1 .. Len(s)
    <3>1. i \in Nat /\ i # 0 /\ i - 1 = m + k
      BY <2>1
    <3>2. i <= Len(s)
      BY <1>4, <2>1
    <3> HIDE DEF i
    <3> QED BY <1>4, <3>1, <3>2
  <2>4. u[j] = s[i]
    BY <1>1, <2>1
  <2>5. Flat(s, m) \o Flat(u, k + 1) = Flat(s, m + k)
    BY <1>6
  <2> HIDE DEF i, j, P
  <2>6. Flat(u, j) = Flat(u, k + 1) \o u[j]
    BY <1>3, <2>2
  <2>7. Flat(u, k + 1) \in Seq(T)
    BY <2>2, FlatStep
  <2>8. Flat(s, i) = Flat(s, i - 1) \o s[i]
    BY <2>3, FlatStep
  <2>9. s[i] \in Seq(T)
    BY <2>3, ElementOfSeq
  <2> DEFINE x == Flat(s, m)
             y == Flat(u, k + 1)
             z == s[i]
  <2>10. x \in Seq(T) /\ y \in Seq(T) /\ z \in Seq(T)
    BY <1>2, <2>7, <2>9
  <2>11. Flat(u, j) = y \o z /\ Flat(s, i) = (x \o y) \o z
    BY <2>2, <2>3, <2>4, <2>5, <2>6, <2>8
  <2> HIDE DEF x, y, z
  <2>12. (x \o y) \o z = x \o (y \o z)
    BY <2>10, ConcatAssociative, SMTT(30)
  <2>13. Flat(s, m) \o Flat(u, j) = Flat(s, i)
    BY <2>11, <2>12 DEF x
  <2> QED BY <2>1, <2>13 DEF i, j, P
<1>7. d \in P
  <2> HIDE DEF P
  <2>1. \A k \in 0 .. d : k \in P
    BY <1>5, <1>6, UpToTheEnd
  <2> QED BY <2>1
<1>8. Flat(u, d + 1) = FlattenSeq(u)
  BY <1>1, FlatWhole
<1> QED
  BY <1>7, <1>8

LEMMA FlatNext ==
  ASSUME NEW T, NEW s \in Seq(Seq(T)), NEW n \in 0 .. Len(s), NEW m \in 0 .. Len(s), n = m + 1
  PROVE  Flat(s, n) = Flat(s, m) \o s[n]
<1>1. n # 0 /\ n - 1 = m
  OBVIOUS
<1> QED
  BY <1>1, FlatStep

-----------------------------------------------------------------------------
(* concat() between its sources and its listener. *)

ConcatType ==
  [queues : [1 .. N -> Seq(Value)], completed : SUBSET (1 .. N), active : 1 .. N + 1, out : Seq(Value),
   status : {"stopped", "running", "completed", "failed"}]

(* While the concatenation runs, the streams before the active one have      *)
(* completed, what the listener has is what they and the active one sent,    *)
(* and the queues hold what the later ones sent.                             *)
RunningInv ==
  joined.status = "running" =>
    /\ joined.active \notin joined.completed
    /\ \A k \in 1 .. joined.active - 1 : k \in joined.completed
    /\ joined.out = Flat(sent, joined.active)
    /\ \A k \in 1 .. N : joined.queues[k] = IF k <= joined.active THEN <<>> ELSE sent[k]

ConcatInv ==
  /\ joined \in ConcatType
  /\ joined.active \in 1 .. N
  /\ sent \in [1 .. N -> Seq(Value)]
  /\ RunningInv
  /\ joined.status = "completed" => joined.out = Flat(sent, N)
  /\ \A k \in 1 .. joined.active : joined.queues[k] = <<>>

LEMMA ConcatRecord ==
  ASSUME NEW c \in ConcatType
  PROVE  /\ c = [queues |-> c.queues, completed |-> c.completed, active |-> c.active, out |-> c.out,
                 status |-> c.status]
         /\ c.queues \in [1 .. N -> Seq(Value)] /\ c.completed \subseteq 1 .. N /\ c.active \in 1 .. N + 1
         /\ c.out \in Seq(Value) /\ c.status \in {"stopped", "running", "completed", "failed"}
         /\ c.active \in Nat /\ DOMAIN c.queues = 1 .. N /\ Len(c.queues) = N
<1>1. /\ c = [queues |-> c.queues, completed |-> c.completed, active |-> c.active, out |-> c.out,
              status |-> c.status]
      /\ c.queues \in [1 .. N -> Seq(Value)] /\ c.completed \subseteq 1 .. N /\ c.active \in 1 .. N + 1
      /\ c.out \in Seq(Value) /\ c.status \in {"stopped", "running", "completed", "failed"}
  BY DEF ConcatType
<1>2. N \in Nat
  BY ConcatAssumption
<1>3. Len(c.queues) = N
  BY <1>1, <1>2, FunctionIsSeq
<1> QED
  BY <1>1, <1>2, <1>3

LEMMA SentIsSeq ==
  ASSUME NEW s \in [1 .. N -> Seq(Value)]
  PROVE  N \in Nat /\ N # 0 /\ s \in Seq(Seq(Value)) /\ Len(s) = N
  BY ConcatAssumption, FunctionIsSeq

(* A concatenation that starts. *)
LEMMA NewConcatIs ==
  /\ NewConcat(N) = [queues |-> [i \in 1 .. N |-> <<>>], completed |-> {}, active |-> 1, out |-> <<>>,
                     status |-> "running"]
  /\ NewConcat(N) \in ConcatType
<1>1. N \in Nat /\ N # 0 /\ 1 \in 1 .. N + 1
  BY ConcatAssumption
<1>2. NewConcat(N) = [queues |-> [i \in 1 .. N |-> <<>>], completed |-> {}, active |-> 1, out |-> <<>>,
                      status |-> "running"]
  BY <1>1 DEF NewConcat
<1>3. [i \in 1 .. N |-> <<>>] \in [1 .. N -> Seq(Value)] /\ <<>> \in Seq(Value)
  BY EmptySeq
<1> QED
  BY <1>1, <1>2, <1>3 DEF ConcatType

LEMMA NothingSent ==
  ASSUME NEW s, s = [i \in 1 .. N |-> <<>>]
  PROVE  s \in [1 .. N -> Seq(Value)] /\ Flat(s, 1) = <<>>
<1>1. s \in [1 .. N -> Seq(Value)]
  BY EmptySeq
<1>2. N \in Nat /\ N # 0 /\ s \in Seq(Seq(Value)) /\ Len(s) = N
  BY <1>1, SentIsSeq
<1>3. 1 \in 0 .. Len(s) /\ 0 \in 0 .. Len(s) /\ 0 + 1 = 1 /\ 1 \in 1 .. N
  BY <1>2
<1>4. Flat(s, 0) = <<>>
  BY <1>2, <1>3, FlatStep
<1>5. Flat(s, 1) = Flat(s, 0) \o s[1]
  <2>1. \A n \in 0 .. Len(s), m \in 0 .. Len(s) : n = m + 1 => Flat(s, n) = Flat(s, m) \o s[n]
    BY <1>2, FlatNext
  <2> QED BY <1>3, <2>1
<1>6. s[1] = <<>> /\ <<>> \o <<>> = <<>>
  BY <1>3, ConcatEmptySeq, EmptySeq
<1> QED
  BY <1>1, <1>4, <1>5, <1>6

LEMMA ConcatInitially == StreamInit => ConcatInv
<1> SUFFICES ASSUME StreamInit PROVE ConcatInv
  OBVIOUS
<1> DEFINE none == [i \in 1 .. N |-> <<>>]
           empty == <<>>
<1>1. joined = [queues |-> none, completed |-> {}, active |-> 1, out |-> <<>>, status |-> "stopped"]
  <2>1. NewConcat(N) = [queues |-> none, completed |-> {}, active |-> 1, out |-> empty, status |-> "running"]
    BY NewConcatIs
  <2>2. joined = [NewConcat(N) EXCEPT !.status = "stopped"]
    BY DEF StreamInit
  <2> HIDE DEF none, empty
  <2>3. joined = [queues |-> none, completed |-> {}, active |-> 1, out |-> empty, status |-> "stopped"]
    BY <2>1, <2>2
  <2> QED BY <2>3 DEF empty
<1>2. sent \in [1 .. N -> Seq(Value)]
  BY NothingSent DEF StreamInit
<1>3. 1 \in 1 .. N /\ 1 \in 1 .. N + 1 /\ none \in [1 .. N -> Seq(Value)] /\ <<>> \in Seq(Value)
  BY EmptySeq, ConcatAssumption
<1>4. joined \in ConcatType
  BY <1>1, <1>3 DEF ConcatType
<1>5. joined.status = "stopped" /\ joined.active \in 1 .. N /\ \A k \in 1 .. joined.active : joined.queues[k] = <<>>
  BY <1>1, <1>3
<1> QED
  BY <1>2, <1>4, <1>5 DEF ConcatInv, RunningInv

LEMMA StartListeningKeeps == ConcatInv /\ StartListening => ConcatInv'
<1> SUFFICES ASSUME ConcatInv, StartListening PROVE ConcatInv'
  OBVIOUS
<1>1. joined' = [queues |-> [i \in 1 .. N |-> <<>>], completed |-> {}, active |-> 1, out |-> <<>>,
                 status |-> "running"] /\ joined' \in ConcatType
  BY NewConcatIs DEF StartListening
<1>2. sent' = [i \in 1 .. N |-> <<>>]
  BY DEF StartListening
<1>3. sent' \in [1 .. N -> Seq(Value)] /\ Flat(sent', 1) = <<>>
  BY <1>2, NothingSent
<1>4. /\ joined'.status = "running" /\ joined'.active = 1 /\ joined'.completed = {} /\ joined'.out = <<>>
      /\ \A k \in 1 .. N : joined'.queues[k] = <<>> /\ sent'[k] = <<>>
      /\ 1 \in 1 .. N
  BY <1>1, <1>2, ConcatAssumption
<1>5. RunningInv'
  BY <1>3, <1>4 DEF RunningInv
<1>6. \A k \in 1 .. 1 : k \in 1 .. N
  BY <1>4
<1> QED
  BY <1>1, <1>3, <1>4, <1>5, <1>6 DEF ConcatInv

(* reset(), when the listener leaves, a source fails or all have completed. *)
LEMMA ResetIs ==
  ASSUME NEW c \in ConcatType, NEW st \in {"stopped", "completed", "failed"}
  PROVE  /\ Reset(c, st) \in ConcatType /\ Reset(c, st).status = st /\ Reset(c, st).out = c.out /\ Reset(c, st).active = 1
         /\ \A k \in 1 .. N : Reset(c, st).queues[k] = <<>>
<1> DEFINE r == [queues |-> [i \in 1 .. N |-> <<>>], completed |-> {}, active |-> 1, out |-> c.out, status |-> st]
<1>1. /\ c = [queues |-> c.queues, completed |-> c.completed, active |-> c.active, out |-> c.out,
              status |-> c.status]
      /\ c.out \in Seq(Value) /\ DOMAIN c.queues = 1 .. N
  BY ConcatRecord
<1>2. Reset(c, st) = r
  <2> DEFINE none == [i \in 1 .. N |-> <<>>]
  <2>1. [i \in DOMAIN c.queues |-> <<>>] = none
    BY <1>1
  <2>2. Reset(c, st) = [c EXCEPT !.queues = none, !.completed = {}, !.active = 1, !.status = st]
    BY <2>1 DEF Reset
  <2> HIDE DEF none
  <2>3. Reset(c, st) = [queues |-> none, completed |-> {}, active |-> 1, out |-> c.out, status |-> st]
    BY <1>1, <2>2
  <2> QED BY <2>3 DEF none
<1>3. [i \in 1 .. N |-> <<>>] \in [1 .. N -> Seq(Value)] /\ 1 \in 1 .. N + 1
  BY EmptySeq, ConcatAssumption
<1>4. r \in ConcatType
  BY <1>1, <1>3 DEF ConcatType
<1> QED
  BY <1>2, <1>4

LEMMA ConcatStops ==
  ASSUME ConcatInv, UNCHANGED sent, NEW st \in {"stopped", "failed"}, joined' = Reset(joined, st)
  PROVE  ConcatInv'
<1>1. joined \in ConcatType /\ sent \in [1 .. N -> Seq(Value)]
  BY DEF ConcatInv
<1>2. joined' \in ConcatType /\ joined'.status = st /\ joined'.active = 1 /\ \A k \in 1 .. N : joined'.queues[k] = <<>>
  BY <1>1, ResetIs
<1>3. joined'.active \in 1 .. N /\ \A k \in 1 .. joined'.active : k \in 1 .. N
  BY <1>2, ConcatAssumption
<1> QED
  BY <1>1, <1>2, <1>3 DEF ConcatInv, RunningInv

LEMMA SourceNextKeeps ==
  ASSUME ConcatInv, NEW i \in 1 .. N, NEW v \in Value, SourceNext(i, v)
  PROVE  ConcatInv'
<1> DEFINE c == joined
           act == joined.active
<1>1. /\ c \in ConcatType /\ act \in 1 .. N /\ sent \in [1 .. N -> Seq(Value)] /\ RunningInv
      /\ c.status = "running" /\ i \notin c.completed
      /\ sent' = [sent EXCEPT ![i] = Append(sent[i], v)] /\ joined' = ConcatNext(joined, i, v)
  BY DEF ConcatInv, SourceNext
<1>2. /\ act \notin c.completed /\ (\A k \in 1 .. act - 1 : k \in c.completed) /\ c.out = Flat(sent, act)
      /\ \A k \in 1 .. N : c.queues[k] = IF k <= act THEN <<>> ELSE sent[k]
  BY <1>1 DEF RunningInv
<1>3. /\ c = [queues |-> c.queues, completed |-> c.completed, active |-> act, out |-> c.out, status |-> c.status]
      /\ c.queues \in [1 .. N -> Seq(Value)] /\ c.completed \subseteq 1 .. N /\ act \in 1 .. N + 1
      /\ c.out \in Seq(Value) /\ c.status \in {"stopped", "running", "completed", "failed"}
  BY <1>1, ConcatRecord
<1>4. N \in Nat /\ N # 0 /\ sent \in Seq(Seq(Value)) /\ Len(sent) = N
  BY <1>1, SentIsSeq
<1>5. sent[i] \in Seq(Value) /\ Append(sent[i], v) = sent[i] \o <<v>> /\ Append(sent[i], v) \in Seq(Value)
      /\ <<v>> \in Seq(Value)
  <2>1. sent[i] \in Seq(Value)
    BY <1>1
  <2>2. <<v>> \in Seq(Value)
    OBVIOUS
  <2> QED BY <2>1, <2>2, AppendProperties, AppendIsConcat
<1>6. /\ sent' \in [1 .. N -> Seq(Value)] /\ sent'[i] = Append(sent[i], v)
      /\ \A k \in 1 .. N : k # i => sent'[k] = sent[k]
  BY <1>1, <1>5
<1>7. sent' \in Seq(Seq(Value)) /\ Len(sent') = N
  BY <1>6, SentIsSeq
<1>8. i = act \/ ~(i <= act)
  <2> SUFFICES ASSUME i # act, i <= act PROVE FALSE
    OBVIOUS
  <2>1. i \in 1 .. act - 1
    BY <1>1, <1>4
  <2> QED BY <1>1, <1>2, <2>1
<1>9. \A k \in 1 .. act : k \in 1 .. N /\ k <= act
  BY <1>1, <1>4
<1>10. CASE i = act
  <2> DEFINE o == c.out \o <<v>>
  <2>1. joined' = [queues |-> c.queues, completed |-> c.completed, active |-> act, out |-> o, status |-> c.status]
    <3>1. joined' = [joined EXCEPT !.out = o]
      BY <1>1, <1>10 DEF ConcatNext, ConcatNextAll
    <3> HIDE DEF o
    <3> QED BY <1>3, <3>1
  <2>2. o \in Seq(Value)
    BY <1>3, <1>5, ConcatProperties
  <2> HIDE DEF o
  <2>3. /\ joined' \in ConcatType /\ joined'.queues = c.queues /\ joined'.completed = c.completed
        /\ joined'.active = act /\ joined'.out = o /\ joined'.status = "running"
    BY <1>1, <1>3, <2>1, <2>2 DEF ConcatType
  <2>4. o = Flat(sent', act)
    <3> DEFINE m == act - 1
    <3>1. m \in 0 .. Len(sent) /\ act \in 0 .. Len(sent) /\ act = m + 1 /\ m \in 0 .. Len(sent') /\ act \in 0 .. Len(sent')
          /\ m <= Len(sent') /\ \A k \in 1 .. m : k \in 1 .. N /\ k # act
      BY <1>1, <1>4, <1>7
    <3> HIDE DEF m, act
    <3>2. Flat(sent, act) = Flat(sent, m) \o sent[act] /\ Flat(sent, m) \in Seq(Value)
      BY <1>4, <3>1, FlatNext, FlatStep
    <3>3. Flat(sent', act) = Flat(sent', m) \o sent'[act]
      BY <1>7, <3>1, FlatNext
    <3>4. Flat(sent, m) = Flat(sent', m)
      <4>1. \A k \in 1 .. m : sent[k] = sent'[k]
        BY <1>6, <1>10, <3>1
      <4> QED BY <1>4, <1>7, <3>1, <4>1, FlatSame
    <3> DEFINE x == Flat(sent, m)
               y == sent[i]
               z == <<v>>
    <3>5. x \in Seq(Value) /\ y \in Seq(Value) /\ z \in Seq(Value)
      BY <1>5, <3>2
    <3>6. o = (x \o y) \o z /\ Flat(sent', act) = x \o (y \o z)
      BY <1>2, <1>5, <1>6, <1>10, <3>2, <3>3, <3>4 DEF o, act
    <3> HIDE DEF x, y, z
    <3>7. (x \o y) \o z = x \o (y \o z)
      BY <3>5, ConcatAssociative, SMTT(30)
    <3> QED BY <3>6, <3>7
  <2>5. \A k \in 1 .. N : c.queues[k] = IF k <= act THEN <<>> ELSE sent'[k]
    <3>1. \A k \in 1 .. N : ~(k <= act) => sent'[k] = sent[k]
      BY <1>4, <1>6, <1>10
    <3> QED BY <1>2, <3>1
  <2>6. RunningInv'
    BY <1>2, <2>3, <2>4, <2>5 DEF RunningInv
  <2>7. \A k \in 1 .. act : c.queues[k] = <<>>
    BY <1>2, <1>9
  <2> QED BY <1>1, <1>6, <2>3, <2>6, <2>7 DEF ConcatInv
<1>11. CASE ~(i <= act)
  <2> DEFINE q == [c.queues EXCEPT ![i] = c.queues[i] \o <<v>>]
  <2>1. joined' = [queues |-> q, completed |-> c.completed, active |-> act, out |-> c.out, status |-> c.status]
    <3>1. i # act
      BY <1>1, <1>4, <1>11
    <3>2. joined' = [joined EXCEPT !.queues[i] = joined.queues[i] \o <<v>>]
      BY <1>1, <3>1 DEF ConcatNext, ConcatNextAll
    <3>3. joined' = [joined EXCEPT !.queues = q]
      BY <3>2
    <3> HIDE DEF q
    <3> QED BY <1>3, <3>3
  <2>2. c.queues[i] = sent[i]
    BY <1>2, <1>11
  <2>3. /\ q \in [1 .. N -> Seq(Value)] /\ q[i] = sent'[i]
        /\ \A k \in 1 .. N : k # i => q[k] = c.queues[k]
    BY <1>3, <1>5, <1>6, <2>2
  <2> HIDE DEF q
  <2>4. /\ joined' \in ConcatType /\ joined'.queues = q /\ joined'.completed = c.completed
        /\ joined'.active = act /\ joined'.out = c.out /\ joined'.status = "running"
    BY <1>1, <1>3, <2>1, <2>3 DEF ConcatType
  <2>5. Flat(sent, act) = Flat(sent', act)
    <3>1. act \in 0 .. Len(sent) /\ act <= Len(sent')
      BY <1>1, <1>4, <1>7
    <3>2. \A k \in 1 .. act : sent[k] = sent'[k]
      BY <1>6, <1>9, <1>11
    <3> HIDE DEF act
    <3> QED BY <1>4, <1>7, <3>1, <3>2, FlatSame
  <2>6. \A k \in 1 .. N : q[k] = IF k <= act THEN <<>> ELSE sent'[k]
    BY <1>2, <1>6, <1>11, <2>3
  <2>7. RunningInv'
    BY <1>2, <2>4, <2>5, <2>6 DEF RunningInv
  <2>8. \A k \in 1 .. act : q[k] = <<>>
    BY <1>9, <2>6
  <2> QED BY <1>1, <1>6, <2>4, <2>7, <2>8 DEF ConcatInv
<1> QED
  BY <1>8, <1>10, <1>11

(* Without undefined among the values a queue is emptied. *)
LEMMA QueueEmptied ==
  ASSUME NEW T, Undefined \notin T, NEW q \in Seq(T)
  PROVE  EmittedPart(q) = q /\ Remainder(q) = <<>>
<1>1. \A i \in 1 .. Len(q) : q[i] # Undefined
  BY ElementOfSeq
<1>2. {i \in 1 .. Len(q) : q[i] = Undefined} = {}
  BY <1>1
<1>3. Emitted(q) = 0
  BY <1>2 DEF Emitted, SelectInSeq
<1> QED
  BY <1>3 DEF EmittedPart, Remainder

(* emitAllQueuesEvents for the queues i to j. *)
Part(q, i, j) == [k \in 1 .. j - i + 1 |-> q[i + k - 1]]

LEMMA PartIs ==
  ASSUME NEW q \in [1 .. N -> Seq(Value)], NEW i \in 1 .. N, NEW j \in 0 .. N, i <= j + 1
  PROVE  /\ Part(q, i, j) \in Seq(Seq(Value)) /\ Len(Part(q, i, j)) = j - i + 1
         /\ \A k \in 1 .. j - i + 1 : Part(q, i, j)[k] = q[i + k - 1]
         /\ FlattenSeq(Part(q, i, j)) \in Seq(Value)
<1> DEFINE n == j - i + 1
           u == Part(q, i, j)
<1>1. N \in Nat /\ n \in Nat /\ \A k \in 1 .. n : i + k - 1 \in 1 .. N
  BY ConcatAssumption
<1>2. u \in [1 .. n -> Seq(Value)] /\ \A k \in 1 .. n : u[k] = q[i + k - 1]
  BY <1>1 DEF Part
<1> HIDE DEF u, n
<1>3. u \in Seq(Seq(Value)) /\ Len(u) = n
  BY <1>1, <1>2, FunctionIsSeq
<1>4. FlattenSeq(u) \in Seq(Value)
  <2>1. Len(u) \in 0 .. Len(u)
    BY <1>1, <1>3
  <2>2. Flat(u, Len(u)) \in Seq(Value)
    BY <1>3, <2>1, FlatStep
  <2> QED BY <1>3, <2>2, FlatWhole
<1> QED
  BY <1>2, <1>3, <1>4 DEF u, n

Emptied(q, i, j) == [k \in 1 .. N |-> IF k \in i .. j THEN <<>> ELSE q[k]]
ConcatRec(q, d, act, o, st) == [queues |-> q, completed |-> d, active |-> act, out |-> o, status |-> st]

PutOut(c, o, q) == [c EXCEPT !.out = o, !.queues = q]
PutActive(c, d, act) == [c EXCEPT !.completed = d, !.active = act]

LEMMA ConcatRecExcept ==
  ASSUME NEW q, NEW d, NEW act, NEW o, NEW st, NEW x, NEW y, NEW c, c = ConcatRec(q, d, act, o, st)
  PROVE  /\ PutOut(c, x, y) = ConcatRec(y, d, act, x, st)
         /\ PutActive(c, x, y) = ConcatRec(q, x, y, o, st)
<1>1. c = [queues |-> q, completed |-> d, active |-> act, out |-> o, status |-> st]
  BY DEF ConcatRec
<1>2. [c EXCEPT !.out = x, !.queues = y] = [queues |-> y, completed |-> d, active |-> act, out |-> x, status |-> st]
  <2> DEFINE e == [c EXCEPT !.out = x]
  <2>1. [c EXCEPT !.out = x, !.queues = y] = [e EXCEPT !.queues = y]
    OBVIOUS
  <2>2. e = [queues |-> q, completed |-> d, active |-> act, out |-> x, status |-> st]
    BY <1>1
  <2> HIDE DEF e
  <2>3. [e EXCEPT !.queues = y] = [queues |-> y, completed |-> d, active |-> act, out |-> x, status |-> st]
    BY <2>2
  <2> QED BY <2>1, <2>3
<1>3. [c EXCEPT !.completed = x, !.active = y] = [queues |-> q, completed |-> x, active |-> y, out |-> o, status |-> st]
  <2> DEFINE e == [c EXCEPT !.completed = x]
  <2>1. [c EXCEPT !.completed = x, !.active = y] = [e EXCEPT !.active = y]
    OBVIOUS
  <2>2. e = [queues |-> q, completed |-> x, active |-> act, out |-> o, status |-> st]
    BY <1>1
  <2> HIDE DEF e
  <2>3. [e EXCEPT !.active = y] = [queues |-> q, completed |-> x, active |-> y, out |-> o, status |-> st]
    BY <2>2
  <2> QED BY <2>1, <2>3
<1> QED
  BY <1>2, <1>3 DEF ConcatRec, PutOut, PutActive

LEMMA EmitQueuesIs ==
  ASSUME Undefined \notin Value, NEW q \in [1 .. N -> Seq(Value)], NEW d, NEW act, NEW o, NEW st,
         NEW i \in 1 .. N, NEW j \in 0 .. N, i <= j + 1
  PROVE  EmitQueues(ConcatRec(q, d, act, o, st), i, j) =
           ConcatRec(Emptied(q, i, j), d, act, o \o FlattenSeq(Part(q, i, j)), st)
<1> DEFINE c == ConcatRec(q, d, act, o, st)
           r == Emptied(q, i, j)
           n == j - i + 1
<1>1. c = [queues |-> q, completed |-> d, active |-> act, out |-> o, status |-> st] /\ DOMAIN q = 1 .. N
      /\ c.queues = q /\ c.out = o
  BY DEF ConcatRec
<1>2. N \in Nat /\ \A k \in 1 .. n : i + k - 1 \in 1 .. N
  BY ConcatAssumption
<1>3. \A k \in 1 .. N : EmittedPart(q[k]) = q[k] /\ Remainder(q[k]) = <<>>
  <2>1. \A k \in 1 .. N : q[k] \in Seq(Value)
    OBVIOUS
  <2> QED BY <2>1, QueueEmptied
<1>4. [k \in 1 .. n |-> EmittedPart(q[i + k - 1])] = Part(q, i, j)
  BY <1>2, <1>3 DEF Part
<1>5. [k \in DOMAIN q |-> IF k \in i .. j THEN Remainder(q[k]) ELSE q[k]] = r
  BY <1>1, <1>3 DEF Emptied
<1>6. EmitQueues(c, i, j) = [c EXCEPT !.out = c.out \o FlattenSeq([k \in 1 .. n |-> EmittedPart(q[i + k - 1])]),
                !.queues = [k \in DOMAIN q |-> IF k \in i .. j THEN Remainder(q[k]) ELSE q[k]]]
  BY <1>1 DEF EmitQueues
<1> DEFINE f == o \o FlattenSeq(Part(q, i, j))
<1>7. EmitQueues(c, i, j) = [c EXCEPT !.out = f, !.queues = r]
  BY <1>1, <1>4, <1>5, <1>6
<1> HIDE DEF f, r
<1>8. [c EXCEPT !.out = f, !.queues = r] = ConcatRec(r, d, act, f, st)
  <2> DEFINE e == c
  <2>1. e = ConcatRec(q, d, act, o, st)
    OBVIOUS
  <2> HIDE DEF e
  <2>2. PutOut(e, f, r) = ConcatRec(r, d, act, f, st)
    BY <2>1, ConcatRecExcept
  <2> QED BY <2>2 DEF e, PutOut
<1> QED
  BY <1>7, <1>8 DEF r, f

(* There is a first stream that has not completed. *)
LEMMA NextActiveIs ==
  ASSUME NEW c \in ConcatType, c.active \in 1 .. N, NEW d \in SUBSET (1 .. N)
  PROVE  LET j == NextActive(c, d)
         IN /\ j \in c.active .. N + 1 /\ j \notin d /\ \A k \in c.active .. j - 1 : k \in d
<1> DEFINE m == c.active
           Is(j) == j \notin d /\ \A k \in m .. j - 1 : k \in d
<1>1. N \in Nat /\ m \in 1 .. N /\ m \in Nat /\ Len(c.queues) = N /\ N + 1 - m \in Nat
  BY ConcatRecord, ConcatAssumption
<1>2. NextActive(c, d) = CHOOSE j \in m .. N + 1 : Is(j)
  BY <1>1 DEF NextActive
<1>3. \E j \in m .. N + 1 : Is(j)
  <2> SUFFICES ASSUME \A j \in m .. N + 1 : ~Is(j) PROVE FALSE
    OBVIOUS
  <2> DEFINE z == N + 1 - m
             P == {k \in 0 .. z : \A x \in m .. m + k - 1 : x \in d}
  <2>1. 0 \in P
    BY <1>1
  <2>2. ASSUME NEW k \in 0 .. z - 1, k \in P PROVE k + 1 \in P
    <3>4. m \in Nat /\ N \in Nat /\ m <= N
      BY <1>1
    <3>1. m + k \in m .. N + 1 /\ k + 1 \in 0 .. z /\ \A x \in m .. m + (k + 1) - 1 : x \in m .. m + k - 1 \/ x = m + k
      <4> HIDE DEF m
      <4> QED BY <3>4
    <3>2. \A x \in m .. (m + k) - 1 : x \in d
      BY <2>2
    <3>3. m + k \in d
      BY <3>1, <3>2
    <3> QED BY <3>1, <3>2, <3>3
  <2>3. z \in P
    <3>1. z \in Nat
      BY <1>1
    <3> HIDE DEF P, z
    <3>2. \A k \in 0 .. z : k \in P
      BY <2>1, <2>2, <3>1, UpToTheEnd
    <3> QED BY <3>1, <3>2
  <2>4. N + 1 \in m .. N + 1 /\ N + 1 \notin d /\ m + z - 1 = (N + 1) - 1
    BY <1>1
  <2>5. \A x \in m .. (N + 1) - 1 : x \in d
    BY <2>3, <2>4
  <2> QED BY <2>4, <2>5
<1> DEFINE j == CHOOSE j \in m .. N + 1 : Is(j)
<1>4. j \in m .. N + 1 /\ Is(j)
  BY <1>3
<1> HIDE DEF j
<1> QED
  BY <1>2, <1>4 DEF j

LEMMA SourceCompleteKeeps ==
  ASSUME Undefined \notin Value, ConcatInv, NEW i \in 1 .. N, SourceComplete(i)
  PROVE  ConcatInv'
<1> DEFINE c == joined
           act == joined.active
           q == joined.queues
           d == joined.completed \cup {i}
           j == NextActive(c, d)
           r == Emptied(q, act, j - 1)
           o == c.out \o FlattenSeq(Part(q, act, j - 1))
           moved == ConcatRec(r, d, j, o, "running")
<1>1. /\ c \in ConcatType /\ act \in 1 .. N /\ sent \in [1 .. N -> Seq(Value)] /\ RunningInv
      /\ c.status = "running" /\ i \notin c.completed /\ UNCHANGED sent /\ joined' = ConcatComplete(joined, i)
  BY DEF ConcatInv, SourceComplete
<1>2. /\ act \notin c.completed /\ (\A k \in 1 .. act - 1 : k \in c.completed) /\ c.out = Flat(sent, act)
      /\ \A k \in 1 .. N : q[k] = IF k <= act THEN <<>> ELSE sent[k]
  BY <1>1 DEF RunningInv
<1>3. /\ c = ConcatRec(q, c.completed, act, c.out, "running") /\ d \subseteq 1 .. N
      /\ q \in [1 .. N -> Seq(Value)] /\ c.out \in Seq(Value) /\ Len(q) = N
  BY <1>1, ConcatRecord DEF ConcatRec
<1>4. N \in Nat /\ N # 0 /\ sent \in Seq(Seq(Value)) /\ Len(sent) = N
  BY <1>1, SentIsSeq
<1>5. j \in act .. N + 1 /\ j \notin d /\ \A k \in act .. j - 1 : k \in d
  BY <1>1, <1>3, NextActiveIs
<1>6. joined' = IF j > N THEN Reset(moved, "completed") ELSE EmitQueues(moved, j, j)
  <2>1. j - 1 \in 0 .. N /\ act <= (j - 1) + 1
    BY <1>1, <1>4, <1>5
  <2>2. EmitQueues(c, act, j - 1) = ConcatRec(r, c.completed, act, o, "running")
    <3> DEFINE e == j - 1
    <3>1. e \in 0 .. N /\ act <= e + 1
      BY <2>1
    <3> HIDE DEF e, act, q
    <3>2. EmitQueues(ConcatRec(q, c.completed, act, c.out, "running"), act, e) =
            ConcatRec(Emptied(q, act, e), c.completed, act, c.out \o FlattenSeq(Part(q, act, e)), "running")
      BY <1>1, <1>3, <3>1, EmitQueuesIs DEF act
    <3> QED BY <1>3, <3>2 DEF e
  <2>3. [EmitQueues(c, act, j - 1) EXCEPT !.completed = d, !.active = j] = moved
    <3> HIDE DEF r, o, j, d, act
    <3> DEFINE e == EmitQueues(c, act, j - 1)
    <3>1. e = ConcatRec(r, c.completed, act, o, "running")
      BY <2>2
    <3> HIDE DEF e
    <3>2. PutActive(e, d, j) = ConcatRec(r, d, j, o, "running")
      BY <3>1, ConcatRecExcept
    <3> QED BY <3>2 DEF e, PutActive
  <2>4. joined' = LET m == [EmitQueues(c, act, j - 1) EXCEPT !.completed = d, !.active = j]
                  IN IF j > Len(c.queues) THEN Reset(m, "completed") ELSE EmitQueues(m, j, j)
    BY <1>1 DEF ConcatComplete
  <2> HIDE DEF moved, j
  <2> QED BY <1>3, <2>3, <2>4
<1>7. o \in Seq(Value) /\ \A n \in 0 .. N : n = (IF j = act THEN act ELSE j - 1) => o = Flat(sent, n)
  <2>1. act \in Nat /\ j \in Nat /\ act <= j /\ j - 1 \in 0 .. N /\ act <= (j - 1) + 1
    BY <1>1, <1>4, <1>5
  <2> DEFINE u == Part(q, act, j - 1)
             e == (j - 1) - act + 1
  <2>2. /\ u \in Seq(Seq(Value)) /\ Len(u) = e /\ (\A k \in 1 .. e : u[k] = q[act + k - 1])
        /\ FlattenSeq(u) \in Seq(Value)
    <3> DEFINE h == j - 1
    <3>1. h \in 0 .. N /\ act <= h + 1 /\ act \in 1 .. N /\ q \in [1 .. N -> Seq(Value)]
      BY <1>1, <1>3, <2>1
    <3> HIDE DEF h, act, q
    <3>2. /\ Part(q, act, h) \in Seq(Seq(Value)) /\ Len(Part(q, act, h)) = h - act + 1
          /\ \A k \in 1 .. h - act + 1 : Part(q, act, h)[k] = q[act + k - 1]
          /\ FlattenSeq(Part(q, act, h)) \in Seq(Value)
      BY <3>1, PartIs
    <3> QED BY <3>2 DEF h
  <2> HIDE DEF u
  <2>3. o = c.out \o FlattenSeq(u)
    BY DEF u
  <2>4. o \in Seq(Value)
    BY <1>3, <2>2, <2>3, ConcatProperties
  <2>5. CASE j = act
    <3>1. Len(u) = 0
      BY <2>1, <2>2, <2>5
    <3>2. FlattenSeq(u) = <<>>
      BY <2>2, <3>1, EmptySeq DEF FlattenSeq
    <3>3. c.out \o <<>> = c.out
      BY <1>3, ConcatEmptySeq
    <3>4. o = Flat(sent, act)
      BY <1>2, <2>3, <3>2, <3>3
    <3> HIDE DEF o, act, j
    <3> QED BY <2>4, <2>5, <3>4
  <2>6. CASE j # act
    <3> DEFINE g == j - 1 - act
    <3>1. g \in Nat /\ e = g + 1 /\ act + g = j - 1 /\ act + g <= N
      BY <1>4, <1>5, <2>1, <2>6
    <3>2. \A k \in 1 .. g : k + 1 \in 1 .. e /\ act + (k + 1) - 1 = act + k /\ act + k \in 1 .. N /\ ~(act + k <= act)
      <4> HIDE DEF g, e, act, j
      <4> QED BY <1>4, <2>1, <3>1
    <3>3. u[1] = <<>>
      <4>1. 1 \in 1 .. e /\ act + 1 - 1 = act /\ act <= act
        BY <2>1, <3>1
      <4> QED BY <1>1, <1>2, <2>2, <4>1
    <3>4. \A k \in 1 .. g : u[k + 1] = sent[act + k]
      <4> HIDE DEF g, e, act, j, q
      <4> SUFFICES ASSUME NEW k \in 1 .. g PROVE u[k + 1] = sent[act + k]
        OBVIOUS
      <4>1. u[k + 1] = q[act + k]
        BY <2>2, <3>2
      <4> QED BY <1>2, <3>2, <4>1
    <3> HIDE DEF g, e, act, j
    <3>5. FollowsIn(sent, act, g, u)
      BY <1>4, <2>2, <3>1, <3>3, <3>4 DEF FollowsIn
    <3>6. Flat(sent, act) \o FlattenSeq(u) = Flat(sent, act + g)
      <4>1. act \in Nat /\ g \in Nat /\ sent \in Seq(Seq(Value)) /\ u \in Seq(Seq(Value))
        BY <1>4, <2>1, <2>2, <3>1
      <4> QED BY <3>5, <4>1, FlatJoins, Zenon
    <3>7. o = Flat(sent, j - 1)
      BY <1>2, <2>3, <3>1, <3>6 DEF act
    <3> HIDE DEF o
    <3> QED BY <2>4, <2>6, <3>7
  <2> QED BY <2>5, <2>6
<1>8. r \in [1 .. N -> Seq(Value)]
  BY <1>3, EmptySeq DEF Emptied
<1>9. moved \in ConcatType
  <2>1. j \in 1 .. N + 1
    BY <1>1, <1>4, <1>5
  <2> HIDE DEF r, o, j, d
  <2> QED BY <1>3, <1>7, <1>8, <2>1 DEF ConcatType, ConcatRec
<1>10. CASE j > N
  <2>1. j = N + 1 /\ j # act /\ N \in 0 .. N /\ j - 1 = N
    BY <1>1, <1>4, <1>5, <1>10
  <2>2. o = Flat(sent, N)
    <3> HIDE DEF o, j, act
    <3> QED BY <1>7, <2>1
  <2>3. joined' = Reset(moved, "completed") /\ moved.out = o
    BY <1>6, <1>10 DEF ConcatRec
  <2> HIDE DEF moved, o
  <2>4. /\ joined' \in ConcatType /\ joined'.status = "completed" /\ joined'.out = o /\ joined'.active = 1
        /\ \A k \in 1 .. N : joined'.queues[k] = <<>>
    BY <1>9, <2>3, ResetIs
  <2>5. 1 \in 1 .. N /\ \A k \in 1 .. 1 : k \in 1 .. N
    BY <1>4
  <2> QED BY <1>1, <2>2, <2>4, <2>5 DEF ConcatInv, RunningInv
<1>11. CASE ~(j > N)
  <2> DEFINE r2 == Emptied(r, j, j)
             o2 == o \o FlattenSeq(Part(r, j, j))
  <2>1. j \in 1 .. N /\ j \in 0 .. N /\ j <= j + 1 /\ act \in Nat /\ act <= j /\ j \in Nat
    BY <1>1, <1>4, <1>5, <1>11
  <2>2. joined' = ConcatRec(r2, d, j, o2, "running")
    <3>1. joined' = EmitQueues(moved, j, j)
      BY <1>6, <1>11
    <3> HIDE DEF r, o, d, j
    <3>2. EmitQueues(moved, j, j) = ConcatRec(r2, d, j, o2, "running")
      BY <1>8, <2>1, EmitQueuesIs
    <3> QED BY <3>1, <3>2
  <2> DEFINE u == Part(r, j, j)
  <2>3. u \in Seq(Seq(Value)) /\ Len(u) = 1 /\ u[1] = r[j] /\ FlattenSeq(u) \in Seq(Value)
    <3>1. j - j + 1 = 1 /\ 1 \in 1 .. 1 /\ j + 1 - 1 = j
      BY <2>1
    <3> HIDE DEF r, j
    <3>2. /\ u \in Seq(Seq(Value)) /\ Len(u) = j - j + 1 /\ (\A k \in 1 .. j - j + 1 : u[k] = r[j + k - 1])
          /\ FlattenSeq(u) \in Seq(Value)
      BY <1>8, <2>1, PartIs
    <3> HIDE DEF u
    <3> QED BY <3>1, <3>2
  <2>4. FlattenSeq(u) = r[j] /\ r[j] = q[j] /\ r[j] \in Seq(Value)
    <3>1. r[j] = q[j] /\ r[j] \in Seq(Value)
      <4>1. j \notin act .. j - 1
        BY <2>1
      <4> HIDE DEF j
      <4> QED BY <1>3, <2>1, <4>1 DEF Emptied
    <3> HIDE DEF u, r
    <3>2. FlattenSeq(u) = Flat(u, 1)
      BY <2>3, FlatWhole
    <3>3. Flat(u, 1) = Flat(u, 0) \o u[1] /\ Flat(u, 0) = <<>>
      <4>1. 1 \in 0 .. Len(u) /\ 0 \in 0 .. Len(u) /\ 0 + 1 = 1
        BY <2>3
      <4>2. \A n \in 0 .. Len(u), m \in 0 .. Len(u) : n = m + 1 => Flat(u, n) = Flat(u, m) \o u[n]
        BY <2>3, FlatNext
      <4>3. Flat(u, 0) = <<>>
        BY <2>3, <4>1, FlatStep
      <4> QED BY <4>1, <4>2, <4>3
    <3>4. <<>> \o r[j] = r[j]
      BY <3>1, ConcatEmptySeq
    <3> QED BY <2>3, <3>1, <3>2, <3>3, <3>4
  <2> HIDE DEF u
  <2>5. o2 = o \o q[j]
    BY <2>4 DEF u
  <2>6. o2 \in Seq(Value)
    BY <1>7, <2>4, <2>5, ConcatProperties
  <2>7. o2 = Flat(sent, j)
    <3>1. CASE j = act
      <4>1. q[j] = <<>> /\ act \in 0 .. N
        BY <1>2, <1>4, <2>1, <3>1
      <4>2. o = Flat(sent, act)
        <5> HIDE DEF o, j, act
        <5> QED BY <1>7, <3>1, <4>1
      <4> HIDE DEF o, q
      <4>3. o \o <<>> = o
        BY <1>7, ConcatEmptySeq
      <4> QED BY <2>5, <3>1, <4>1, <4>2, <4>3
    <3>2. CASE j # act
      <4>1. ~(j <= act) /\ j - 1 \in 0 .. N /\ j \in 0 .. N /\ j = (j - 1) + 1
        BY <1>4, <2>1, <3>2
      <4>2. q[j] = sent[j]
        BY <1>2, <2>1, <4>1
      <4>3. o = Flat(sent, j - 1)
        <5> HIDE DEF o, j, act
        <5> QED BY <1>7, <3>2, <4>1
      <4> HIDE DEF o, q, j
      <4>4. Flat(sent, j) = Flat(sent, j - 1) \o sent[j]
        BY <1>4, <4>1, FlatNext
      <4> QED BY <2>5, <4>2, <4>3, <4>4
    <3> QED BY <3>1, <3>2
  <2>8. r2 \in [1 .. N -> Seq(Value)] /\ \A k \in 1 .. N : r2[k] = IF k <= j THEN <<>> ELSE sent[k]
    <3>1. \A k \in 1 .. N : r2[k] = IF k \in j .. j \/ k \in act .. j - 1 THEN <<>> ELSE q[k]
      BY DEF Emptied
    <3>2. \A k \in 1 .. N : (k <= act => k <= j) /\ (k \in j .. j \/ k \in act .. j - 1 => k <= j)
                              /\ (k <= j => k <= act \/ k \in j .. j \/ k \in act .. j - 1)
      BY <1>4, <2>1
    <3> HIDE DEF j, act, q
    <3>3. r2 \in [1 .. N -> Seq(Value)]
      BY <1>8, EmptySeq DEF Emptied
    <3> HIDE DEF r2, r
    <3>4. \A k \in 1 .. N : r2[k] = IF k <= j THEN <<>> ELSE sent[k]
      BY <1>2, <3>1, <3>2
    <3> QED BY <3>3, <3>4
  <2> HIDE DEF r2, o2
  <2>9. /\ joined'.queues = r2 /\ joined'.completed = d /\ joined'.active = j /\ joined'.out = o2
        /\ joined'.status = "running"
    BY <2>2 DEF ConcatRec
  <2>10. joined' \in ConcatType
    <3>1. j \in 1 .. N + 1
      BY <1>4, <2>1
    <3> HIDE DEF j, d
    <3> QED BY <1>3, <2>2, <2>6, <2>8, <3>1 DEF ConcatType, ConcatRec
  <2>11. \A k \in 1 .. j - 1 : k \in d
    <3>1. \A k \in 1 .. j - 1 : k \in 1 .. act - 1 \/ k \in act .. j - 1
      BY <2>1
    <3> QED BY <1>2, <1>5, <3>1
  <2> HIDE DEF j, d
  <2>12. RunningInv'
    BY <1>1, <1>5, <2>7, <2>8, <2>9, <2>11 DEF RunningInv
  <2>13. \A k \in 1 .. j : k \in 1 .. N /\ k <= j
    BY <1>4, <2>1
  <2>14. \A k \in 1 .. j : r2[k] = <<>>
    BY <2>8, <2>13
  <2> QED BY <1>1, <2>1, <2>9, <2>10, <2>12, <2>14 DEF ConcatInv
<1> QED
  BY <1>10, <1>11

(* ConcatInv is inductive, and implies what the run checks. *)
LEMMA ConcatStep ==
  ASSUME Undefined \notin Value, ConcatInv, [StreamNext]_streamVars
  PROVE  ConcatInv'
<1>1. CASE StartListening
  BY <1>1, StartListeningKeeps
<1>2. CASE StopListening
  <2>1. UNCHANGED sent /\ joined' = Reset(joined, "stopped")
    BY <1>2 DEF StopListening
  <2> QED BY <2>1, ConcatStops
<1>3. ASSUME NEW i \in 1 .. N, NEW v \in Value, SourceNext(i, v) PROVE ConcatInv'
  BY <1>3, SourceNextKeeps
<1>4. ASSUME NEW i \in 1 .. N, SourceComplete(i) PROVE ConcatInv'
  BY <1>4, SourceCompleteKeeps
<1>5. ASSUME NEW i \in 1 .. N, SourceError(i) PROVE ConcatInv'
  <2>1. UNCHANGED sent /\ joined' = Reset(joined, "failed")
    BY <1>5 DEF SourceError, ConcatError
  <2> QED BY <2>1, ConcatStops
<1>6. CASE UNCHANGED streamVars
  BY <1>6 DEF streamVars, ConcatInv, RunningInv
<1> QED
  BY <1>1, <1>2, <1>3, <1>4, <1>5, <1>6 DEF StreamNext

LEMMA ConcatInvImplies == ConcatInv => StreamTypeOK /\ OutIsConcatenation
<1> SUFFICES ASSUME ConcatInv PROVE StreamTypeOK /\ OutIsConcatenation
  OBVIOUS
<1>1. joined \in ConcatType /\ sent \in [1 .. N -> Seq(Value)] /\ joined.active \in 1 .. N
  BY DEF ConcatInv
<1>2. joined.queues \in [1 .. N -> Seq(Value)] /\ joined.completed \subseteq 1 .. N
      /\ joined.status \in {"stopped", "running", "completed", "failed"}
  BY <1>1, ConcatRecord
<1>3. StreamTypeOK
  <2>1. \A i \in 1 .. joined.active : joined.queues[i] = <<>>
    BY DEF ConcatInv
  <2> QED BY <1>1, <1>2, <2>1 DEF StreamTypeOK
<1>4. ASSUME joined.status = "running"
      PROVE  joined.active \notin joined.completed /\ joined.out = FlattenSeq(SubSeq(sent, 1, joined.active))
  BY <1>4 DEF ConcatInv, RunningInv, Flat
<1>5. ASSUME joined.status = "completed" PROVE joined.out = FlattenSeq(sent)
  <2>1. sent \in Seq(Seq(Value)) /\ Len(sent) = N
    BY <1>1, SentIsSeq
  <2>2. FlattenSeq(sent) = Flat(sent, N)
    BY <2>1, FlatWhole
  <2> QED BY <1>5, <2>2 DEF ConcatInv
<1> QED
  BY <1>3, <1>4, <1>5 DEF OutIsConcatenation

(* concat() of iov-stream, for any number of sources and values: whatever    *)
(* the order in which the sources emit, complete and fail, and however often *)
(* a listener leaves and comes back, the listener has the values of the      *)
(* sources up to the active one in the order of the sources, the active      *)
(* source has not completed, and when the stream completes the listener has  *)
(* every value. The values are not `undefined`, at which the loop            *)
(* that empties a queue stops.                                               *)
THEOREM ConcatJoinsAll ==
  ASSUME Undefined \notin Value
  PROVE  StreamSpec => []OutIsConcatenation
<1>1. StreamInit => ConcatInv
  BY ConcatInitially
<1>2. ConcatInv /\ [StreamNext]_streamVars => ConcatInv'
  BY ConcatStep
<1>3. ConcatInv => OutIsConcatenation
  BY ConcatInvImplies
<1> QED
  BY <1>1, <1>2, <1>3, PTL DEF StreamSpec

(* Types of concat(): the queues of the active and the earlier sources are   *)
(* empty.                                                                    *)
THEOREM ConcatTypeCorrect ==
  ASSUME Undefined \notin Value
  PROVE  StreamSpec => []StreamTypeOK
<1>1. StreamInit => ConcatInv
  BY ConcatInitially
<1>2. ConcatInv /\ [StreamNext]_streamVars => ConcatInv'
  BY ConcatStep
<1>3. ConcatInv => StreamTypeOK
  BY ConcatInvImplies
<1> QED
  BY <1>1, <1>2, <1>3, PTL DEF StreamSpec

-----------------------------------------------------------------------------
(* liveTx() (LiveTx). *)

(* The chain up to its k-th transaction. *)
FirstTxs(k) == [t \in 1 .. k |-> t]

Ascending(s) == \A m, n \in DOMAIN s : m < n => s[m] < s[n]

(* The node's results are in the order of the chain. *)
ResultsByHeight == \A t \in 1 .. MaxChain : rank[t] = t

SearchInv ==
  /\ search.state # "none" => search.page # 0
  /\ search.state = "none" => requests = <<>> /\ messages = <<>> /\ search.txs = <<>> /\ ~subscribed

(* The search has one request or one answer under way, while it lasts.       *)
OneRequest ==
  \A n \in DOMAIN requests : requests[n].kind # "subscribe" =>
    /\ search.state = "searching"
    /\ \A m \in DOMAIN requests : requests[m].kind # "subscribe" => m = n
    /\ \A m \in DOMAIN messages : messages[m].kind = "tx"
    /\ requests[n].kind = "search" => requests[n].page = search.page

OneAnswer ==
  \A n \in DOMAIN messages : messages[n].kind # "tx" =>
    /\ search.state = "searching"
    /\ \A m \in DOMAIN messages : messages[m].kind # "tx" => m = n
    /\ \A m \in DOMAIN requests : requests[m].kind = "subscribe"

(* The updates come in the order of the chain. *)
UpdatesInv ==
  /\ \A n \in DOMAIN messages : messages[n].kind = "tx" => messages[n].tx <= committed
  /\ \A m, n \in DOMAIN messages :
       messages[m].kind = "tx" /\ messages[n].kind = "tx" /\ m < n => messages[m].tx < messages[n].tx

(* They wait until the listener has the search results. *)
WaitingInv ==
  /\ ~history =>
       /\ concat.active = 1 /\ concat.completed = {} /\ concat.out = <<>> /\ concat.queues[1] = <<>>
       /\ emitted = <<>>
       /\ Ascending(concat.queues[2])
       /\ \A k \in DOMAIN concat.queues[2] :
            /\ concat.queues[2][k] <= committed
            /\ \A n \in DOMAIN messages : messages[n].kind = "tx" => concat.queues[2][k] < messages[n].tx
  /\ concat.status = "stopped" => ~history
  /\ history => concat.active = 2 \/ concat.status # "running"

(* With results by height, the pages are the chain, one part after the other. *)
PagesInv ==
  /\ search.txs = FirstTxs(Len(search.txs)) /\ Len(search.txs) <= committed
  /\ \A n \in DOMAIN requests : requests[n].kind = "search" =>
       Len(search.txs) = (search.page - 1) * PerPage
  /\ \A n \in DOMAIN messages : messages[n].kind = "page" =>
       /\ messages[n].totalCount <= committed
       /\ search.txs \o messages[n].txs = FirstTxs(PageEnd(search.page, messages[n].totalCount))

(* Then an update that has not been emitted comes after all that have. *)
EmittedInv ==
  /\ Ascending(emitted)
  /\ \A i \in DOMAIN emitted : emitted[i] <= committed
  /\ \A n \in DOMAIN messages : messages[n].kind = "tx" =>
       messages[n].tx \in ToSet(emitted) \/ \A i \in DOMAIN emitted : emitted[i] < messages[n].tx

LiveInv ==
  /\ LiveTypeOK /\ SearchInv /\ OneRequest /\ OneAnswer /\ UpdatesInv /\ WaitingInv /\ Distinct(emitted)
  /\ ResultsByHeight => PagesInv /\ EmittedInv

LEMMA FirstTxsIs ==
  ASSUME NEW S, NEW k \in Nat, 1 .. k \subseteq S
  PROVE  FirstTxs(k) \in Seq(S) /\ Len(FirstTxs(k)) = k /\ \A i \in 1 .. k : FirstTxs(k)[i] = i
<1>1. FirstTxs(k) \in [1 .. k -> S] /\ \A i \in 1 .. k : FirstTxs(k)[i] = i
  BY DEF FirstTxs
<1> QED
  BY <1>1, FunctionIsSeq

(* dropDuplicates passes on the first of every value that it has not passed. *)
NewOnes(e, s) == {n \in 1 .. Len(s) : s[n] \notin ToSet(e) /\ \A m \in 1 .. n - 1 : s[m] # s[n]}

NewPositions(e, s, d, h) ==
  /\ h \in [1 .. Len(d) -> 1 .. Len(s)]
  /\ \A i, j \in 1 .. Len(d) : i < j => h[i] < h[j]
  /\ \A i \in 1 .. Len(d) : d[i] = s[h[i]] /\ h[i] \in NewOnes(e, s)
  /\ \A m \in NewOnes(e, s) : \E i \in 1 .. Len(d) : h[i] = m

LEMMA DropPositions ==
  ASSUME NEW T, NEW e \in Seq(T), NEW s \in Seq(T)
  PROVE  DropDuplicates(e, s) \in Seq(T) /\ \E h : NewPositions(e, s, DropDuplicates(e, s), h)
<1> DEFINE L == Len(s)
           ident == [n \in 1 .. L |-> n]
           new == NewOnes(e, s)
           kept == Those(ident, new)
           d == DropDuplicates(e, s)
<1>1. L \in Nat /\ DOMAIN s = 1 .. L /\ \A n \in 1 .. L : s[n] \in T
  BY LenProperties, ElementOfSeq
<1>2. d = [k \in DOMAIN kept |-> s[kept[k]]]
  BY <1>1 DEF DropDuplicates, NewOnes
<1>3. ident \in Seq(1 .. L) /\ Len(ident) = L /\ \A n \in 1 .. L : ident[n] = n
  <2>1. ident \in [1 .. L -> 1 .. L] /\ \A n \in 1 .. L : ident[n] = n
    OBVIOUS
  <2> QED BY <1>1, <2>1, FunctionIsSeq
<1> HIDE DEF ident, L, new, d
<1>4. kept \in Seq(1 .. L) /\ \E h : Positions(ident, new, kept, Len(ident), h)
  BY <1>3, ThosePositions
<1> HIDE DEF kept
<1>5. PICK h : Positions(ident, new, kept, L, h)
  BY <1>3, <1>4
<1>6. /\ h \in [1 .. Len(kept) -> 1 .. L] /\ (\A i, j \in 1 .. Len(kept) : i < j => h[i] < h[j])
      /\ \A i \in 1 .. Len(kept) : kept[i] = ident[h[i]] /\ ident[h[i]] \in new
      /\ \A m \in 1 .. L : ident[m] \in new => \E i \in 1 .. Len(kept) : h[i] = m
  BY <1>5 DEF Positions
<1>7. Len(kept) \in Nat /\ DOMAIN kept = 1 .. Len(kept)
  BY <1>4, LenProperties
<1>8. \A i \in 1 .. Len(kept) : h[i] \in 1 .. L /\ kept[i] = h[i] /\ h[i] \in new
  BY <1>3, <1>6
<1>9. d \in [1 .. Len(kept) -> T] /\ \A i \in 1 .. Len(kept) : d[i] = s[h[i]]
  BY <1>1, <1>2, <1>7, <1>8
<1>10. d \in Seq(T) /\ Len(d) = Len(kept)
  BY <1>7, <1>9, FunctionIsSeq
<1>11. \A m \in new : \E i \in 1 .. Len(kept) : h[i] = m
  <2>1. new \subseteq 1 .. L
    BY DEF new, NewOnes, L
  <2> QED BY <1>3, <1>6, <2>1
<1>12. NewPositions(e, s, d, h)
  BY <1>6, <1>8, <1>9, <1>10, <1>11 DEF NewPositions, L, new
<1> QED
  BY <1>10, <1>12 DEF d

LEMMA DropElements ==
  ASSUME NEW T, NEW e \in Seq(T), NEW s \in Seq(T)
  PROVE  /\ DropDuplicates(e, s) \in Seq(T) /\ Distinct(DropDuplicates(e, s))
         /\ ToSet(DropDuplicates(e, s)) = ToSet(s) \ ToSet(e)
<1> DEFINE d == DropDuplicates(e, s)
           L == Len(s)
<1>1. L \in Nat /\ DOMAIN s = 1 .. L /\ d \in Seq(T) /\ Len(d) \in Nat /\ DOMAIN d = 1 .. Len(d)
  BY DropPositions, LenProperties
<1>2. PICK h : NewPositions(e, s, d, h)
  BY DropPositions
<1> HIDE DEF d
<1>3. /\ h \in [1 .. Len(d) -> 1 .. L] /\ (\A i, j \in 1 .. Len(d) : i < j => h[i] < h[j])
      /\ \A i \in 1 .. Len(d) : d[i] = s[h[i]] /\ h[i] \in NewOnes(e, s)
      /\ \A m \in NewOnes(e, s) : \E i \in 1 .. Len(d) : h[i] = m
  BY <1>2 DEF NewPositions
<1>4. \A n \in NewOnes(e, s) : n \in 1 .. L /\ s[n] \notin ToSet(e) /\ \A m \in 1 .. n - 1 : s[m] # s[n]
  BY DEF NewOnes
<1> HIDE DEF L
<1>5. ASSUME NEW i \in 1 .. Len(d), NEW j \in 1 .. Len(d), i < j PROVE d[i] # d[j]
  <2>1. h[i] \in 1 .. L /\ h[j] \in 1 .. L /\ h[i] < h[j]
    BY <1>3, <1>5
  <2>2. h[i] \in 1 .. h[j] - 1
    BY <1>1, <2>1
  <2>3. s[h[i]] # s[h[j]]
    BY <1>3, <1>4, <2>2
  <2> QED BY <1>3, <2>3
<1>6. Distinct(d)
  <2> SUFFICES ASSUME NEW i \in 1 .. Len(d), NEW j \in 1 .. Len(d), d[i] = d[j] PROVE i = j
    BY <1>1 DEF Distinct
  <2>1. ~(i < j) /\ ~(j < i)
    BY <1>5
  <2> QED BY <1>1, <2>1
<1>7. ASSUME NEW x \in ToSet(s), x \notin ToSet(e) PROVE \E n \in NewOnes(e, s) : s[n] = x
  <2> SUFFICES ASSUME \A n \in NewOnes(e, s) : s[n] # x PROVE FALSE
    OBVIOUS
  <2> DEFINE P == {k \in 0 .. L : \A m \in 1 .. k : s[m] # x}
  <2>1. 0 \in P
    BY <1>1
  <2>2. ASSUME NEW k \in 0 .. L - 1, k \in P PROVE k + 1 \in P
    <3>1. k + 1 \in 1 .. L /\ (k + 1) - 1 = k /\ \A m \in 1 .. k + 1 : m \in 1 .. k \/ m = k + 1
      BY <1>1
    <3>2. \A m \in 1 .. k : s[m] # x
      BY <2>2
    <3>3. s[k + 1] # x
      <4> SUFFICES ASSUME s[k + 1] = x PROVE FALSE
        OBVIOUS
      <4>1. k + 1 \in NewOnes(e, s)
        BY <1>7, <3>1, <3>2 DEF NewOnes, L
      <4> QED BY <4>1
    <3> QED BY <3>1, <3>2, <3>3
  <2> HIDE DEF P
  <2>3. L \in P
    <3>1. \A k \in 0 .. L : k \in P
      BY <1>1, <2>1, <2>2, UpToTheEnd
    <3> QED BY <1>1, <3>1
  <2>4. \A m \in 1 .. L : s[m] # x
    BY <2>3 DEF P
  <2> QED BY <1>1, <2>4 DEF ToSet
<1>8. ToSet(d) = ToSet(s) \ ToSet(e)
  <2>1. \A x \in ToSet(d) : x \in ToSet(s) /\ x \notin ToSet(e)
    <3> SUFFICES ASSUME NEW i \in 1 .. Len(d) PROVE d[i] \in ToSet(s) /\ d[i] \notin ToSet(e)
      BY <1>1 DEF ToSet
    <3>1. h[i] \in 1 .. L /\ d[i] = s[h[i]] /\ s[h[i]] \notin ToSet(e)
      BY <1>3, <1>4
    <3>2. s[h[i]] \in {s[n] : n \in DOMAIN s}
      BY <1>1, <3>1
    <3> QED BY <3>1, <3>2 DEF ToSet
  <2>2. \A x \in ToSet(s) : x \notin ToSet(e) => x \in ToSet(d)
    <3> SUFFICES ASSUME NEW x \in ToSet(s), x \notin ToSet(e) PROVE x \in ToSet(d)
      OBVIOUS
    <3>1. PICK n \in NewOnes(e, s) : s[n] = x
      BY <1>7
    <3>2. PICK i \in 1 .. Len(d) : h[i] = n
      BY <1>3
    <3>3. d[i] = x
      BY <1>3, <3>1, <3>2
    <3> QED BY <1>1, <3>3 DEF ToSet
  <2> QED BY <2>1, <2>2
<1> QED
  BY <1>1, <1>6, <1>8 DEF d

(* What is passed on keeps the order of what is new. *)
LEMMA DropAscending ==
  ASSUME NEW e \in Seq(Nat), NEW s \in Seq(Nat), \A m, n \in NewOnes(e, s) : m < n => s[m] < s[n]
  PROVE  Ascending(DropDuplicates(e, s))
<1> DEFINE d == DropDuplicates(e, s)
<1>1. d \in Seq(Nat) /\ DOMAIN d = 1 .. Len(d)
  BY DropPositions, LenProperties
<1>2. PICK h : NewPositions(e, s, d, h)
  BY DropPositions
<1> HIDE DEF d
<1>3. /\ \A i, j \in 1 .. Len(d) : i < j => h[i] < h[j]
      /\ \A i \in 1 .. Len(d) : d[i] = s[h[i]] /\ h[i] \in NewOnes(e, s)
  BY <1>2 DEF NewPositions
<1>4. \A i, j \in 1 .. Len(d) : i < j => d[i] < d[j]
  BY <1>3
<1>5. Ascending(d)
  BY <1>1, <1>4 DEF Ascending
<1> QED
  BY <1>5 DEF d

LEMMA AscendingConcat ==
  ASSUME NEW s \in Seq(Nat), NEW u \in Seq(Nat), Ascending(s), Ascending(u),
         \A x \in ToSet(s), y \in ToSet(u) : x < y
  PROVE  Ascending(s \o u)
<1> DEFINE c == s \o u
<1>1. /\ Len(s) \in Nat /\ Len(u) \in Nat /\ DOMAIN s = 1 .. Len(s) /\ DOMAIN u = 1 .. Len(u)
      /\ DOMAIN c = 1 .. Len(s) + Len(u)
      /\ \A i \in 1 .. Len(s) + Len(u) : c[i] = IF i <= Len(s) THEN s[i] ELSE u[i - Len(s)]
  BY LenProperties, ConcatProperties
<1> HIDE DEF c
<1>2. ASSUME NEW m \in 1 .. Len(s) + Len(u), NEW n \in 1 .. Len(s) + Len(u), m < n PROVE c[m] < c[n]
  <2>1. CASE n <= Len(s)
    <3>1. m \in DOMAIN s /\ n \in DOMAIN s /\ m <= Len(s)
      BY <1>1, <1>2, <2>1
    <3> QED BY <1>1, <1>2, <2>1, <3>1 DEF Ascending
  <2>2. CASE m <= Len(s) /\ ~(n <= Len(s))
    <3>1. m \in DOMAIN s /\ n - Len(s) \in DOMAIN u
      BY <1>1, <1>2, <2>2
    <3>2. s[m] \in ToSet(s) /\ u[n - Len(s)] \in ToSet(u)
      BY <3>1 DEF ToSet
    <3> QED BY <1>1, <2>2, <3>2
  <2>3. CASE ~(m <= Len(s))
    <3>1. m - Len(s) \in DOMAIN u /\ n - Len(s) \in DOMAIN u /\ m - Len(s) < n - Len(s) /\ ~(n <= Len(s))
      BY <1>1, <1>2, <2>3
    <3>2. u[m - Len(s)] < u[n - Len(s)]
      BY <3>1 DEF Ascending
    <3> QED BY <1>1, <2>3, <3>1, <3>2
  <2> QED BY <1>1, <2>1, <2>2, <2>3
<1>3. Ascending(c)
  BY <1>1, <1>2 DEF Ascending
<1> QED
  BY <1>3 DEF c

(* The transactions at one place, and all of them by their places. *)
AtPlace(txs, place) == [p \in 1 .. MaxChain |-> Those(txs, {t \in 1 .. MaxChain : place[t] = p})]

LEMMA AtPlaceIs ==
  ASSUME NEW txs \in Seq(1 .. MaxChain), NEW place
  PROVE  /\ MaxChain \in Nat /\ AtPlace(txs, place) \in Seq(Seq(1 .. MaxChain))
         /\ Len(AtPlace(txs, place)) = MaxChain /\ ByPlace(txs, place) = Flat(AtPlace(txs, place), MaxChain)
<1> DEFINE u == AtPlace(txs, place)
<1>1. MaxChain \in Nat
  BY LiveTxAssumption
<1>2. \A S : Those(txs, S) \in Seq(1 .. MaxChain)
  BY ThosePositions
<1>3. u \in [1 .. MaxChain -> Seq(1 .. MaxChain)]
  BY <1>2 DEF AtPlace
<1>4. ByPlace(txs, place) = FlattenSeq(u)
  BY DEF ByPlace, AtPlace
<1> HIDE DEF u
<1>5. u \in Seq(Seq(1 .. MaxChain)) /\ Len(u) = MaxChain
  BY <1>1, <1>3, FunctionIsSeq
<1>6. FlattenSeq(u) = Flat(u, MaxChain)
  BY <1>5, FlatWhole
<1> QED
  BY <1>1, <1>4, <1>5, <1>6 DEF u

LEMMA ByPlaceType ==
  ASSUME NEW txs \in Seq(1 .. MaxChain), NEW place
  PROVE  ByPlace(txs, place) \in Seq(1 .. MaxChain)
<1>1. /\ MaxChain \in Nat /\ AtPlace(txs, place) \in Seq(Seq(1 .. MaxChain))
      /\ Len(AtPlace(txs, place)) = MaxChain /\ ByPlace(txs, place) = Flat(AtPlace(txs, place), MaxChain)
  BY AtPlaceIs
<1>2. MaxChain \in 0 .. Len(AtPlace(txs, place))
  BY <1>1
<1> QED
  BY <1>1, <1>2, FlatStep

(* One transaction at every place of the chain, and none behind it. *)
LEMMA OneAtPlace ==
  ASSUME NEW k \in 0 .. MaxChain, NEW p \in 1 .. MaxChain
  PROVE  Those(FirstTxs(k), {p}) = IF p <= k THEN <<p>> ELSE <<>>
<1> DEFINE s == FirstTxs(k)
           u == Those(s, {p})
<1>1. MaxChain \in Nat /\ k \in Nat /\ 1 .. k \subseteq 1 .. MaxChain
  BY LiveTxAssumption
<1>2. s \in Seq(1 .. MaxChain) /\ Len(s) = k /\ \A i \in 1 .. k : s[i] = i
  BY <1>1, FirstTxsIs
<1> HIDE DEF s
<1>3. u \in Seq(1 .. MaxChain) /\ \E h : Positions(s, {p}, u, Len(s), h)
  BY <1>2, ThosePositions
<1> HIDE DEF u
<1>4. PICK h : Positions(s, {p}, u, k, h)
  BY <1>2, <1>3
<1>5. /\ h \in [1 .. Len(u) -> 1 .. k] /\ (\A i, j \in 1 .. Len(u) : i < j => h[i] < h[j])
      /\ \A i \in 1 .. Len(u) : u[i] = s[h[i]] /\ s[h[i]] \in {p}
      /\ \A m \in 1 .. k : s[m] \in {p} => \E i \in 1 .. Len(u) : h[i] = m
  BY <1>4 DEF Positions
<1>6. \A i \in 1 .. Len(u) : h[i] \in 1 .. k /\ h[i] = p /\ u[i] = p
  BY <1>2, <1>5
<1>7. Len(u) \in Nat /\ ~(Len(u) >= 2)
  <2>1. Len(u) \in Nat
    BY <1>3, LenProperties
  <2> SUFFICES ASSUME Len(u) >= 2 PROVE FALSE
    BY <2>1
  <2>2. 1 \in 1 .. Len(u) /\ 2 \in 1 .. Len(u) /\ 1 < 2
    BY <2>1
  <2>3. h[1] < h[2] /\ h[1] = p /\ h[2] = p
    BY <1>5, <1>6, <2>2
  <2> QED BY <1>1, <2>3
<1>8. CASE p <= k
  <2>1. p \in 1 .. k
    BY <1>1, <1>8
  <2>2. s[p] \in {p}
    BY <1>2, <2>1
  <2>3. PICK i \in 1 .. Len(u) : h[i] = p
    BY <1>5, <2>1, <2>2
  <2>4. Len(u) = 1
    <3>1. Len(u) # 0
      BY <1>7, <2>3
    <3> DEFINE l == Len(u)
    <3> HIDE DEF l
    <3>2. l \in Nat /\ ~(l >= 2) /\ l # 0
      BY <1>7, <3>1 DEF l
    <3>3. l = 1
      BY <3>2
    <3> QED BY <3>3 DEF l
  <2>5. u[1] = p
    BY <1>6, <2>4
  <2>6. <<p>> \in Seq(1 .. MaxChain) /\ Len(<<p>>) = 1 /\ <<p>>[1] = p
    OBVIOUS
  <2>7. u = <<p>>
    BY <1>3, <2>4, <2>5, <2>6, SeqEqual
  <2> QED BY <1>8, <2>7 DEF u, s
<1>9. CASE ~(p <= k)
  <2>1. Len(u) = 0
    <3> SUFFICES ASSUME Len(u) # 0 PROVE FALSE
      OBVIOUS
    <3>1. 1 \in 1 .. Len(u)
      BY <1>7
    <3>2. h[1] \in 1 .. k /\ h[1] = p
      BY <1>6, <3>1
    <3> QED BY <1>1, <1>9, <3>2
  <2>2. u = <<>>
    BY <1>3, <2>1, EmptySeq
  <2> QED BY <1>9, <2>2 DEF u, s
<1> QED
  BY <1>8, <1>9

LEMMA FirstTxsNext ==
  ASSUME NEW k \in Nat
  PROVE  FirstTxs(k) \o <<k + 1>> = FirstTxs(k + 1)
<1> DEFINE s == FirstTxs(k)
           u == FirstTxs(k + 1)
           v == <<k + 1>>
<1>1. k + 1 \in Nat /\ 1 .. k \subseteq Nat /\ 1 .. k + 1 \subseteq Nat
  OBVIOUS
<1>2. s \in Seq(Nat) /\ Len(s) = k /\ \A i \in 1 .. k : s[i] = i
  BY <1>1, FirstTxsIs
<1>3. u \in Seq(Nat) /\ Len(u) = k + 1 /\ \A i \in 1 .. k + 1 : u[i] = i
  <2> DEFINE l == k + 1
  <2>1. l \in Nat /\ 1 .. l \subseteq Nat
    BY <1>1
  <2> HIDE DEF l
  <2>2. FirstTxs(l) \in Seq(Nat) /\ Len(FirstTxs(l)) = l /\ \A i \in 1 .. l : FirstTxs(l)[i] = i
    BY <2>1, FirstTxsIs
  <2> QED BY <2>2 DEF l
<1>4. v \in Seq(Nat) /\ Len(v) = 1 /\ v[1] = k + 1
  BY <1>1
<1> HIDE DEF s, u, v
<1>5. /\ s \o v \in Seq(Nat) /\ Len(s \o v) = k + 1
      /\ \A i \in 1 .. k + 1 : (s \o v)[i] = IF i <= k THEN s[i] ELSE v[i - k]
  <2>1. /\ s \o v \in Seq(Nat) /\ Len(s \o v) = Len(s) + Len(v)
        /\ \A i \in 1 .. Len(s) + Len(v) : (s \o v)[i] = IF i <= Len(s) THEN s[i] ELSE v[i - Len(s)]
    BY <1>2, <1>4, ConcatProperties
  <2> QED BY <1>2, <1>4, <2>1
<1>6. \A i \in 1 .. k + 1 : (s \o v)[i] = u[i]
  <2> SUFFICES ASSUME NEW i \in 1 .. k + 1 PROVE (s \o v)[i] = u[i]
    OBVIOUS
  <2>1. CASE i <= k
    BY <1>2, <1>3, <1>5, <2>1
  <2>2. CASE ~(i <= k)
    <3>1. i - k = 1 /\ i = k + 1
      BY <2>2
    <3>2. (s \o v)[i] = v[i - k]
      BY <1>5, <2>2
    <3> QED BY <1>3, <1>4, <3>1, <3>2
  <2> QED BY <2>1, <2>2
<1>7. s \o v = u
  BY <1>3, <1>5, <1>6, SeqEqual
<1> QED
  BY <1>7 DEF s, u, v

(* Sorting a chain by height leaves it as it is. *)
LEMMA ByPlaceOrdered ==
  ASSUME NEW k \in 0 .. MaxChain, NEW place, \A t \in 1 .. MaxChain : place[t] = t
  PROVE  ByPlace(FirstTxs(k), place) = FirstTxs(k)
<1> DEFINE u == AtPlace(FirstTxs(k), place)
           F(n) == FirstTxs(IF n <= k THEN n ELSE k)
           P == {n \in 0 .. MaxChain : Flat(u, n) = F(n)}
<1>1. MaxChain \in Nat /\ k \in Nat /\ 1 .. k \subseteq 1 .. MaxChain
  BY LiveTxAssumption
<1>2. FirstTxs(k) \in Seq(1 .. MaxChain)
  BY <1>1, FirstTxsIs
<1>3. u \in Seq(Seq(1 .. MaxChain)) /\ Len(u) = MaxChain /\ ByPlace(FirstTxs(k), place) = Flat(u, MaxChain)
  BY <1>2, AtPlaceIs
<1>4. \A p \in 1 .. MaxChain : u[p] = IF p <= k THEN <<p>> ELSE <<>>
  <2> SUFFICES ASSUME NEW p \in 1 .. MaxChain PROVE u[p] = IF p <= k THEN <<p>> ELSE <<>>
    OBVIOUS
  <2>1. {t \in 1 .. MaxChain : place[t] = p} = {p}
    OBVIOUS
  <2>2. u[p] = Those(FirstTxs(k), {p})
    BY <2>1 DEF AtPlace
  <2> QED BY <2>2, OneAtPlace
<1> HIDE DEF u
<1>5. 0 \in P
  <2>1. 0 \in 0 .. Len(u) /\ 0 <= k
    BY <1>1, <1>3
  <2>2. Flat(u, 0) = <<>>
    BY <1>3, <2>1, FlatStep
  <2>3. FirstTxs(0) = <<>>
    <3>1. 1 .. 0 \subseteq Nat /\ 0 \in Nat
      OBVIOUS
    <3>2. FirstTxs(0) \in Seq(Nat) /\ Len(FirstTxs(0)) = 0
      BY <3>1, FirstTxsIs
    <3> QED BY <3>2, EmptySeq
  <2> QED BY <1>1, <2>1, <2>2, <2>3
<1>6. ASSUME NEW n \in 0 .. MaxChain - 1, n \in P PROVE n + 1 \in P
  <2>1. /\ n \in Nat /\ n \in 0 .. Len(u) /\ n + 1 \in 0 .. Len(u) /\ n + 1 \in 1 .. MaxChain /\ n + 1 \in 0 .. MaxChain
    BY <1>1, <1>3
  <2>2. Flat(u, n) = F(n)
    BY <1>6
  <2> DEFINE l == n + 1
  <2>3. l \in 0 .. Len(u) /\ l = n + 1 /\ n \in 0 .. Len(u)
    BY <2>1
  <2> HIDE DEF l
  <2>4. Flat(u, l) = Flat(u, n) \o u[l]
    BY <1>3, <2>3, FlatNext
  <2>5. CASE l <= k
    <3>4. n <= k
      BY <1>1, <2>1, <2>3, <2>5
    <3>5. u[l] = <<l>>
      BY <1>4, <2>1, <2>3, <2>5
    <3>1. n <= k /\ u[l] = <<n + 1>>
      BY <2>3, <3>4, <3>5
    <3>2. FirstTxs(n) \o <<n + 1>> = FirstTxs(n + 1)
      BY <2>1, FirstTxsNext
    <3>3. Flat(u, l) = FirstTxs(n + 1) /\ F(l) = FirstTxs(n + 1)
      BY <2>2, <2>3, <2>4, <2>5, <3>1, <3>2
    <3> QED BY <2>1, <2>3, <3>3
  <2>6. CASE ~(l <= k)
    <3>1. u[l] = <<>>
      BY <1>4, <2>1, <2>3, <2>6
    <3>2. F(n) = FirstTxs(k)
      BY <1>1, <2>1, <2>3, <2>6
    <3>3. FirstTxs(k) \o <<>> = FirstTxs(k)
      BY <1>2, ConcatEmptySeq
    <3>4. Flat(u, l) = FirstTxs(k) /\ F(l) = FirstTxs(k)
      BY <2>2, <2>4, <2>6, <3>1, <3>2, <3>3
    <3> QED BY <2>1, <2>3, <3>4
  <2> QED BY <2>5, <2>6
<1> HIDE DEF P
<1>7. MaxChain \in P
  <2>1. \A n \in 0 .. MaxChain : n \in P
    BY <1>1, <1>5, <1>6, UpToTheEnd
  <2> QED BY <1>1, <2>1
<1>8. Flat(u, MaxChain) = F(MaxChain)
  BY <1>7 DEF P
<1>9. F(MaxChain) = FirstTxs(k)
  BY <1>1
<1> QED
  BY <1>3, <1>8, <1>9

(* emitAllQueuesEvents for one queue. *)
LEMMA FlattenOne ==
  ASSUME NEW T, NEW u \in Seq(Seq(T)), Len(u) = 1
  PROVE  FlattenSeq(u) = u[1]
<1>1. 1 \in 0 .. Len(u) /\ 0 \in 0 .. Len(u) /\ 0 + 1 = 1 /\ u[1] \in Seq(T)
  BY ElementOfSeq
<1>2. FlattenSeq(u) = Flat(u, 1)
  BY FlatWhole
<1>3. \A n \in 0 .. Len(u), m \in 0 .. Len(u) : n = m + 1 => Flat(u, n) = Flat(u, m) \o u[n]
  BY FlatNext
<1>4. Flat(u, 0) = <<>>
  BY <1>1, FlatStep
<1>5. <<>> \o u[1] = u[1]
  BY <1>1, ConcatEmptySeq
<1> QED
  BY <1>1, <1>2, <1>3, <1>4, <1>5

AreQueues(q, n, T) == n \in Nat /\ Undefined \notin T /\ q \in [1 .. n -> Seq(T)]
EmptiedAt(q, j) == [q EXCEPT ![j] = <<>>]

LEMMA EmitOneQueue ==
  ASSUME NEW T, NEW n, NEW q, AreQueues(q, n, T), NEW d, NEW act, NEW o, NEW st, NEW j \in 1 .. n
  PROVE  EmitQueues(ConcatRec(q, d, act, o, st), j, j) = ConcatRec(EmptiedAt(q, j), d, act, o \o q[j], st)
<1>0. n \in Nat /\ Undefined \notin T /\ q \in [1 .. n -> Seq(T)]
  BY DEF AreQueues
<1> DEFINE r == EmptiedAt(q, j)
           c == ConcatRec(q, d, act, o, st)
           u == [k \in 1 .. 1 |-> EmittedPart(q[j + k - 1])]
<1>1. c.queues = q /\ c.out = o /\ DOMAIN q = 1 .. n /\ j - j + 1 = 1
  BY <1>0 DEF ConcatRec
<1>2. \A k \in 1 .. n : EmittedPart(q[k]) = q[k] /\ Remainder(q[k]) = <<>>
  <2>1. \A k \in 1 .. n : q[k] \in Seq(T)
    BY <1>0
  <2> QED BY <1>0, <2>1, QueueEmptied
<1>3. u \in [1 .. 1 -> Seq(T)] /\ u[1] = q[j]
  <2>1. \A k \in 1 .. 1 : j + k - 1 = j
    BY <1>0
  <2>2. EmittedPart(q[j]) = q[j] /\ q[j] \in Seq(T)
    BY <1>0, <1>2
  <2> QED BY <2>1, <2>2
<1>4. [k \in DOMAIN q |-> IF k \in j .. j THEN Remainder(q[k]) ELSE q[k]] = r
  <2>1. \A k \in 1 .. n : k \in j .. j <=> k = j
    BY <1>0
  <2> QED BY <1>0, <1>1, <1>2, <2>1 DEF EmptiedAt
<1>5. EmitQueues(c, j, j) =
        PutOut(c, o \o FlattenSeq(u), [k \in DOMAIN q |-> IF k \in j .. j THEN Remainder(q[k]) ELSE q[k]])
  BY <1>1 DEF EmitQueues, PutOut
<1> HIDE DEF u
<1>6. FlattenSeq(u) = q[j]
  <2>1. u \in Seq(Seq(T)) /\ Len(u) = 1
    BY <1>3, FunctionIsSeq
  <2> QED BY <1>3, <2>1, FlattenOne
<1> HIDE DEF r
<1>7. EmitQueues(c, j, j) = PutOut(c, o \o q[j], r)
  BY <1>4, <1>5, <1>6
<1> DEFINE f == o \o q[j]
<1> HIDE DEF f
<1>8. PutOut(c, f, r) = ConcatRec(r, d, act, f, st)
  BY ConcatRecExcept
<1> QED
  BY <1>7, <1>8 DEF f, r

TwoQueues(q, T) == q \in [1 .. 2 -> Seq(T)]

(* The search results come and the queued updates follow them. *)
LEMMA HistoryIs ==
  ASSUME NEW T, Undefined \notin T, NEW q, TwoQueues(q, T), q[1] = <<>>, NEW o \in Seq(T), NEW list \in Seq(T)
  PROVE  LET c == ConcatRec(q, {}, 1, o, "running")
             d == EmitListPromise(c, 1, list)
         IN /\ TwoQueues(d.queues, T) /\ d.completed = {1} /\ d.active = 2 /\ d.status = "running"
            /\ d.out = o \o (list \o q[2]) /\ d.queues[2] = <<>>
            /\ d = ConcatRec(d.queues, d.completed, d.active, d.out, d.status)
<1> DEFINE c == ConcatRec(q, {}, 1, o, "running")
           l == o \o list
           c1 == ConcatRec(q, {}, 1, l, "running")
           r == EmptiedAt(q, 1)
           c2 == ConcatRec(r, {}, 1, l, "running")
           c3 == ConcatRec(r, {1}, 2, l, "running")
           r2 == EmptiedAt(r, 2)
           d == ConcatRec(r2, {1}, 2, l \o r[2], "running")
<1>1. l \in Seq(T) /\ q[2] \in Seq(T) /\ 1 \in 1 .. 2 /\ 2 \in 1 .. 2 /\ <<>> \in Seq(T)
  <2>1. q[2] \in Seq(T) /\ <<>> \in Seq(T)
    BY EmptySeq DEF TwoQueues
  <2> QED BY <2>1, ConcatProperties
<1>2. r = q /\ r \in [1 .. 2 -> Seq(T)] /\ r2 \in [1 .. 2 -> Seq(T)] /\ r2[2] = <<>> /\ r[2] = q[2]
  BY <1>1 DEF TwoQueues, EmptiedAt
<1>3. ConcatNextAll(c, 1, list) = c1
  <2>1. ConcatNextAll(c, 1, list) = [c EXCEPT !.out = l]
    BY DEF ConcatNextAll, ConcatRec
  <2> HIDE DEF l
  <2> QED BY <2>1 DEF ConcatRec
<1>4. EmitQueues(c1, 1, 1) = c2
  <2>1. EmitQueues(c1, 1, 1) = ConcatRec(r, {}, 1, l \o q[1], "running")
    <3> DEFINE n == 2
               j == 1
               x == {}
               st == "running"
    <3>1. AreQueues(q, n, T) /\ j \in 1 .. n
      BY <1>1 DEF TwoQueues, AreQueues
    <3> HIDE DEF l, r, n, j, x, st
    <3>2. EmitQueues(ConcatRec(q, x, j, l, st), j, j) = ConcatRec(EmptiedAt(q, j), x, j, l \o q[j], st)
      BY <3>1, EmitOneQueue
    <3> QED BY <3>2 DEF j, x, st, r
  <2>2. l \o <<>> = l
    BY <1>1, ConcatEmptySeq
  <2> QED BY <2>1, <2>2
<1>5. NextActive(c1, {1}) = 2
  <2>1. c1.active = 1 /\ c1.queues = q
    BY DEF ConcatRec
  <2> DEFINE S == c1.active .. Len(c1.queues) + 1
             Is(j) == j \notin {1} /\ \A k \in c1.active .. j - 1 : k \in {1}
             g == CHOOSE j \in S : Is(j)
  <2>2. Len(q) = 2
    BY FunctionIsSeq DEF TwoQueues
  <2>3. NextActive(c1, {1}) = g
    BY DEF NextActive
  <2>4. S = 1 .. 3 /\ \A j : Is(j) <=> j \notin {1} /\ \A k \in 1 .. j - 1 : k \in {1}
    <3>1. 2 + 1 = 3
      OBVIOUS
    <3> HIDE DEF c1
    <3> QED BY <2>1, <2>2, <3>1
  <2> HIDE DEF Is, S
  <2>5. \A j \in S : Is(j) => j = 2
    <3> SUFFICES ASSUME NEW j \in 1 .. 3, \A k \in 1 .. j - 1 : k \in {1}, j # 1 PROVE j = 2
      BY <2>4
    <3>1. CASE j = 3
      <4>1. 2 \in 1 .. j - 1
        BY <3>1
      <4>2. 2 \in {1}
        BY <4>1, Zenon
      <4> QED BY <4>2
    <3> QED BY <3>1
  <2>6. 2 \in S /\ Is(2)
    <3>1. 2 \in 1 .. 3 /\ 2 \notin {1} /\ \A k \in 1 .. 2 - 1 : k \in {1}
      OBVIOUS
    <3> QED BY <2>4, <3>1
  <2>7. g \in S /\ Is(g)
    BY <2>6
  <2> HIDE DEF g
  <2> QED BY <2>3, <2>5, <2>7
<1>6. [c2 EXCEPT !.completed = {1}, !.active = 2] = c3
  <2>1. PutActive(c2, {1}, 2) = c3
    <3> DEFINE e == c2
               x == {1}
               y == 2
    <3>1. e = ConcatRec(r, {}, 1, l, "running")
      OBVIOUS
    <3> HIDE DEF e, r, l, x, y
    <3>2. PutActive(e, x, y) = ConcatRec(r, x, y, l, "running")
      BY <3>1, ConcatRecExcept
    <3> QED BY <3>2 DEF e, x, y
  <2> QED BY <2>1 DEF PutActive
<1>7. EmitQueues(c3, 2, 2) = d
  <2> DEFINE j == 2
             x == {1}
             st == "running"
  <2>1. AreQueues(r, j, T) /\ j \in 1 .. j
    BY <1>1, <1>2 DEF AreQueues
  <2> HIDE DEF l, r, r2, j, x, st
  <2>2. EmitQueues(ConcatRec(r, x, j, l, st), j, j) = ConcatRec(EmptiedAt(r, j), x, j, l \o r[j], st)
    BY <2>1, EmitOneQueue
  <2> QED BY <2>2 DEF j, x, st, r2
<1>8. EmitListPromise(c, 1, list) = d
  <2>1. c1.completed = {} /\ c1.active = 1 /\ c1.queues = q /\ Len(q) = 2 /\ {} \cup {1} = {1} /\ 2 - 1 = 1 /\ ~(2 > 2)
    BY FunctionIsSeq DEF ConcatRec, TwoQueues
  <2>2. EmitListPromise(c, 1, list) = ConcatComplete(c1, 1)
    BY <1>3 DEF EmitListPromise
  <2>3. ConcatComplete(c1, 1) =
          LET m == [EmitQueues(c1, 1, 1) EXCEPT !.completed = {1}, !.active = 2]
          IN IF 2 > 2 THEN Reset(m, "completed") ELSE EmitQueues(m, 2, 2)
    <3> HIDE DEF c1
    <3> QED BY <1>5, <2>1 DEF ConcatComplete
  <2> HIDE DEF c1, c2, c3, d
  <2> QED BY <1>4, <1>6, <1>7, <2>1, <2>2, <2>3
<1>9. l \o r[2] = o \o (list \o q[2])
  <2> DEFINE y == q[2]
  <2>1. y \in Seq(T)
    BY <1>1
  <2> HIDE DEF y
  <2>2. (o \o list) \o y = o \o (list \o y)
    <3> DEFINE x == o
               z == list
    <3>1. x \in Seq(T) /\ z \in Seq(T)
      OBVIOUS
    <3> HIDE DEF x, z
    <3>2. (x \o z) \o y = x \o (z \o y)
      BY <2>1, <3>1, ConcatAssociative, SMTT(30)
    <3> QED BY <3>2 DEF x, z
  <2> QED BY <1>2, <2>2 DEF y
<1>10. /\ d.queues = r2 /\ d.completed = {1} /\ d.active = 2 /\ d.status = "running" /\ d.out = l \o r[2]
       /\ d = ConcatRec(d.queues, d.completed, d.active, d.out, d.status)
  <2> DEFINE f == l \o r[2]
             x == {1}
             y == 2
             st == "running"
             e == ConcatRec(r2, x, y, f, st)
  <2> HIDE DEF r2, f, x, y, st
  <2>1. /\ e.queues = r2 /\ e.completed = x /\ e.active = y /\ e.status = st /\ e.out = f
    BY DEF ConcatRec
  <2>2. e = ConcatRec(e.queues, e.completed, e.active, e.out, e.status)
    BY <2>1
  <2> QED BY <2>1, <2>2 DEF f, x, y, st
<1> HIDE DEF d, c
<1> QED
  BY <1>2, <1>8, <1>9, <1>10 DEF c, TwoQueues

(* What the types say, for the provers. *)
LiveSearch == [state : {"none", "searching", "resolved", "rejected"}, page : Nat, txs : Seq(LiveTxs)]
LiveConcat ==
  [queues : [1 .. 2 -> Seq(LiveTxs)], completed : SUBSET (1 .. 2), active : 1 .. 2, out : Seq(LiveTxs),
   status : {"stopped", "running", "failed"}]

LEMMA LiveTypes ==
  ASSUME LiveTypeOK
  PROVE  /\ MaxChain \in Nat /\ PerPage \in Nat /\ PerPage # 0
         /\ committed \in 0 .. MaxChain /\ committed \in Nat /\ LiveTxs \subseteq Nat
         /\ requests \in Seq(LiveRequest) /\ Len(requests) \in Nat /\ DOMAIN requests = 1 .. Len(requests)
         /\ messages \in Seq(LiveMessage) /\ Len(messages) \in Nat /\ DOMAIN messages = 1 .. Len(messages)
         /\ search \in LiveSearch /\ concat \in LiveConcat /\ emitted \in Seq(LiveTxs)
         /\ rank \in Ranks /\ subscribed \in BOOLEAN /\ history \in BOOLEAN /\ promised \subseteq Committed
<1>1. requests \in Seq(LiveRequest) /\ messages \in Seq(LiveMessage) /\ search \in LiveSearch /\ concat \in LiveConcat
  BY DEF LiveTypeOK, LiveSearch, LiveConcat
<1>2. /\ Len(requests) \in Nat /\ DOMAIN requests = 1 .. Len(requests)
      /\ Len(messages) \in Nat /\ DOMAIN messages = 1 .. Len(messages)
  BY <1>1, LenProperties
<1>3. MaxChain \in Nat /\ PerPage \in Nat /\ PerPage # 0
  BY LiveTxAssumption, PageAssumption
<1>4. committed \in 0 .. MaxChain /\ committed \in Nat /\ LiveTxs \subseteq Nat
  BY <1>3 DEF LiveTypeOK, LiveTxs
<1> QED
  BY <1>1, <1>2, <1>3, <1>4 DEF LiveTypeOK

LEMMA MessageKinds ==
  ASSUME NEW m \in LiveMessage
  PROVE  /\ m.kind \in {"page", "status", "error", "tx"}
         /\ m.kind = "page" => m.totalCount \in Nat /\ m.txs \in Seq(LiveTxs)
         /\ m.kind = "tx" => m.tx \in LiveTxs
  BY DEF LiveMessage

LEMMA RequestKinds ==
  ASSUME NEW r \in LiveRequest
  PROVE  /\ r.kind \in {"search", "status", "subscribe"}
         /\ r.kind = "search" => r.page \in Nat /\ r.page # 0
  BY DEF LiveRequest

(* The elements of a list after one was taken, or added. *)
LEMMA TailIs ==
  ASSUME NEW T, NEW s \in Seq(T), s # <<>>
  PROVE  /\ Head(s) = s[1] /\ s[1] \in T /\ 1 \in DOMAIN s /\ Tail(s) \in Seq(T)
         /\ \A n \in DOMAIN Tail(s) : n \in Nat /\ n + 1 \in DOMAIN s /\ n + 1 # 1 /\ Tail(s)[n] = s[n + 1]
<1>1. Len(s) \in Nat /\ Len(s) # 0 /\ DOMAIN s = 1 .. Len(s)
  BY EmptySeq, LenProperties
<1>2. 1 \in DOMAIN s
  BY <1>1
<1>3. /\ Head(s) \in T /\ Tail(s) \in Seq(T) /\ Len(Tail(s)) = Len(s) - 1
      /\ \A n \in 1 .. Len(Tail(s)) : Tail(s)[n] = s[n + 1]
  BY HeadTailProperties
<1>4. DOMAIN Tail(s) = 1 .. Len(Tail(s))
  BY <1>3, LenProperties
<1>5. \A n \in 1 .. Len(s) - 1 : n \in Nat /\ n + 1 \in 1 .. Len(s) /\ n + 1 # 1
  BY <1>1
<1>6. Head(s) = s[1]
  OBVIOUS
<1> QED
  BY <1>1, <1>2, <1>3, <1>4, <1>5, <1>6

(* A concatenation of two streams that starts. *)
LEMMA NewOfTwo ==
  LET none == [i \in 1 .. 2 |-> <<>>]
  IN /\ NewConcat(2) = ConcatRec(none, {}, 1, <<>>, "running")
     /\ [NewConcat(2) EXCEPT !.status = "stopped"] = ConcatRec(none, {}, 1, <<>>, "stopped")
     /\ none \in [1 .. 2 -> Seq(LiveTxs)] /\ none[1] = <<>> /\ none[2] = <<>>
<1> DEFINE none == [i \in 1 .. 2 |-> <<>>]
           x == {}
           o == <<>>
<1>1. NewConcat(2) = ConcatRec(none, x, 1, o, "running")
  BY DEF NewConcat, ConcatRec
<1>2. none \in [1 .. 2 -> Seq(LiveTxs)] /\ none[1] = <<>> /\ none[2] = <<>>
  BY EmptySeq
<1> HIDE DEF none, x, o
<1> DEFINE c == NewConcat(2)
<1> HIDE DEF c
<1>3. c = ConcatRec(none, x, 1, o, "running")
  BY <1>1 DEF c
<1>4. [c EXCEPT !.status = "stopped"] = ConcatRec(none, x, 1, o, "stopped")
  BY <1>3 DEF ConcatRec
<1> QED
  BY <1>1, <1>2, <1>4 DEF c, none, x, o

LEMMA NewIsLive ==
  ASSUME NEW st \in {"stopped", "running"}, NEW q \in [1 .. 2 -> Seq(LiveTxs)]
  PROVE  ConcatRec(q, {}, 1, <<>>, st) \in LiveConcat
<1>1. <<>> \in Seq(LiveTxs) /\ 1 \in 1 .. 2 /\ {} \in SUBSET (1 .. 2)
  BY EmptySeq
<1> QED
  BY <1>1 DEF LiveConcat, ConcatRec

LEMMA NoTxs == FirstTxs(0) = <<>>
<1>1. 1 .. 0 \subseteq Nat /\ 0 \in Nat
  OBVIOUS
<1>2. FirstTxs(0) \in Seq(Nat) /\ Len(FirstTxs(0)) = 0
  BY <1>1, FirstTxsIs
<1> QED
  BY <1>2, EmptySeq

LEMMA LiveInitially == LiveInit => LiveInv
<1> SUFFICES ASSUME LiveInit PROVE LiveInv
  OBVIOUS
<1> DEFINE none == [i \in 1 .. 2 |-> <<>>]
<1>1. MaxChain \in Nat /\ Before \in 0 .. MaxChain
  BY LiveTxAssumption
<1>2. committed \in 0 .. Before /\ committed \in 0 .. MaxChain /\ committed \in Nat
  BY <1>1 DEF LiveInit
<1>3. concat = ConcatRec(none, {}, 1, <<>>, "stopped") /\ none \in [1 .. 2 -> Seq(LiveTxs)] /\ none[1] = <<>> /\ none[2] = <<>>
  BY NewOfTwo DEF LiveInit
<1> HIDE DEF none
<1>4. concat \in LiveConcat
  BY <1>3, NewIsLive
<1>5. /\ concat.queues = none /\ concat.active = 1 /\ concat.completed = {} /\ concat.out = <<>> /\ concat.status = "stopped"
  BY <1>3 DEF ConcatRec
<1>6. /\ <<>> \in Seq(LiveTxs) /\ <<>> \in Seq(LiveRequest) /\ <<>> \in Seq(LiveMessage) /\ DOMAIN <<>> = {} /\ Len(<<>>) = 0
  BY EmptySeq
<1>7. LiveTypeOK
  BY <1>2, <1>4, <1>6 DEF LiveTypeOK, LiveInit, LiveConcat
<1>8. SearchInv /\ OneRequest /\ OneAnswer /\ UpdatesInv /\ Distinct(emitted)
  BY <1>6 DEF LiveInit, SearchInv, OneRequest, OneAnswer, UpdatesInv, Distinct
<1>9. WaitingInv
  <2>1. DOMAIN concat.queues[2] = {} /\ concat.queues[1] = <<>>
    BY <1>3, <1>5, <1>6
  <2> QED BY <1>5, <2>1 DEF LiveInit, WaitingInv, Ascending
<1>10. PagesInv
  BY <1>2, <1>6, NoTxs DEF LiveInit, PagesInv
<1>11. EmittedInv
  BY <1>6 DEF LiveInit, EmittedInv, Ascending
<1> QED
  BY <1>7, <1>8, <1>9, <1>10, <1>11 DEF LiveInv

LEMMA CallLiveTxKeeps == LiveInv /\ CallLiveTx => LiveInv'
<1> SUFFICES ASSUME LiveInv, CallLiveTx PROVE LiveInv'
  OBVIOUS
<1> DEFINE r == [kind |-> "search", page |-> 1]
<1>1. /\ search.state = "none" /\ requests = <<>> /\ messages = <<>> /\ search.txs = <<>>
      /\ search' = [state |-> "searching", page |-> 1, txs |-> <<>>] /\ requests' = Append(requests, r)
      /\ promised' = Committed
      /\ UNCHANGED <<rank, committed, messages, subscribed, history, concat, emitted>>
  BY DEF LiveInv, SearchInv, CallLiveTx
<1>2. r \in LiveRequest /\ r.kind = "search" /\ r.page = 1
  BY DEF LiveRequest
<1> HIDE DEF r
<1>3. /\ requests' \in Seq(LiveRequest) /\ DOMAIN requests' = {1} /\ requests'[1] = r
  <2>1. <<>> \in Seq(LiveRequest) /\ Len(<<>>) = 0 /\ DOMAIN <<>> = {} /\ 0 + 1 = 1
    BY EmptySeq
  <2> QED BY <1>1, <1>2, <2>1, AppendIs
<1>4. <<>> \in Seq(LiveTxs) /\ DOMAIN messages' = {} /\ Len(<<>>) = 0
  BY <1>1, EmptySeq
<1>5. search' \in LiveSearch /\ search'.state = "searching" /\ search'.page = 1 /\ search'.txs = <<>>
  BY <1>1, <1>4 DEF LiveSearch
<1>6. LiveTypeOK'
  BY <1>1, <1>3, <1>5 DEF LiveInv, LiveTypeOK, LiveSearch, Committed
<1>7. SearchInv'
  BY <1>5 DEF SearchInv
<1>8. OneRequest' /\ OneAnswer' /\ UpdatesInv'
  BY <1>2, <1>3, <1>4, <1>5 DEF OneRequest, OneAnswer, UpdatesInv
<1>9. WaitingInv' /\ Distinct(emitted)'
  BY <1>1 DEF LiveInv, WaitingInv, Distinct, Ascending
<1>10. ASSUME ResultsByHeight' PROVE PagesInv' /\ EmittedInv'
  <2>1. ResultsByHeight
    BY <1>1, <1>10 DEF ResultsByHeight
  <2>2. EmittedInv'
    BY <1>1, <2>1 DEF LiveInv, EmittedInv, Ascending
  <2>3. (1 - 1) * PerPage = 0 /\ 0 <= committed'
    BY <1>1, LiveTypes DEF LiveInv
  <2>4. PagesInv'
    BY <1>3, <1>4, <1>5, <2>3, NoTxs DEF PagesInv
  <2> QED BY <2>2, <2>4
<1> QED
  BY <1>6, <1>7, <1>8, <1>9, <1>10 DEF LiveInv

LEMMA ListenLiveKeeps == LiveInv /\ ListenLive => LiveInv'
<1> SUFFICES ASSUME LiveInv, ListenLive PROVE LiveInv'
  OBVIOUS
<1> DEFINE r == [kind |-> "subscribe"]
           none == [i \in 1 .. 2 |-> <<>>]
<1>1. /\ search.state # "none" /\ concat.status = "stopped" /\ concat' = NewConcat(2) /\ requests' = Append(requests, r)
      /\ UNCHANGED <<rank, committed, messages, subscribed, search, history, emitted, promised>>
  BY DEF ListenLive
<1>2. r \in LiveRequest /\ r.kind = "subscribe"
  BY DEF LiveRequest
<1> HIDE DEF r
<1>3. /\ requests' \in Seq(LiveRequest) /\ DOMAIN requests' = DOMAIN requests \cup {Len(requests) + 1}
      /\ requests'[Len(requests) + 1] = r /\ \A n \in DOMAIN requests : requests'[n] = requests[n]
  BY <1>1, <1>2, LiveTypes, AppendIs DEF LiveInv
<1>4. concat' = ConcatRec(none, {}, 1, <<>>, "running") /\ none \in [1 .. 2 -> Seq(LiveTxs)] /\ none[1] = <<>> /\ none[2] = <<>>
  BY <1>1, NewOfTwo
<1> HIDE DEF none
<1>5. concat' \in LiveConcat
  BY <1>4, NewIsLive
<1>6. /\ concat'.queues = none /\ concat'.active = 1 /\ concat'.completed = {} /\ concat'.out = <<>> /\ concat'.status = "running"
  BY <1>4 DEF ConcatRec
<1>7. LiveTypeOK'
  BY <1>1, <1>3, <1>5 DEF LiveInv, LiveTypeOK, LiveConcat, Committed
<1>8. SearchInv'
  BY <1>1 DEF LiveInv, SearchInv
<1>9. \A n \in DOMAIN requests' : requests'[n].kind # "subscribe" => n \in DOMAIN requests /\ requests'[n] = requests[n]
  BY <1>2, <1>3
<1>10. OneRequest'
  BY <1>1, <1>9 DEF LiveInv, OneRequest
<1>11. OneAnswer'
  BY <1>1, <1>2, <1>3 DEF LiveInv, OneAnswer
<1>12. UpdatesInv' /\ Distinct(emitted)'
  BY <1>1 DEF LiveInv, UpdatesInv, Distinct
<1>13. WaitingInv'
  <2>1. DOMAIN concat'.queues[2] = {} /\ concat'.queues[1] = <<>>
    <3>1. DOMAIN <<>> = {}
      BY EmptySeq
    <3> QED BY <1>4, <1>6, <3>1
  <2>2. ~history
    BY <1>1 DEF LiveInv, WaitingInv
  <2>3. emitted' = <<>> /\ ~history'
    BY <1>1, <2>2 DEF LiveInv, WaitingInv
  <2> QED BY <1>6, <2>1, <2>3 DEF WaitingInv, Ascending
<1>14. ASSUME ResultsByHeight' PROVE PagesInv' /\ EmittedInv'
  <2>1. ResultsByHeight
    BY <1>1, <1>14 DEF ResultsByHeight
  <2>2. EmittedInv'
    BY <1>1, <2>1 DEF LiveInv, EmittedInv, Ascending
  <2>3. PagesInv
    BY <2>1 DEF LiveInv
  <2>4. \A n \in DOMAIN requests' : requests'[n].kind = "search" => n \in DOMAIN requests /\ requests'[n] = requests[n]
    BY <1>9
  <2>5. PagesInv'
    BY <1>1, <2>3, <2>4 DEF PagesInv
  <2> QED BY <2>2, <2>5
<1> QED
  BY <1>7, <1>8, <1>10, <1>11, <1>12, <1>13, <1>14 DEF LiveInv

LEMMA NodeCommitsKeeps == LiveInv /\ NodeCommits => LiveInv'
<1> SUFFICES ASSUME LiveInv, NodeCommits PROVE LiveInv'
  OBVIOUS
<1> DEFINE l == Len(messages) + 1
           m == [kind |-> "tx", tx |-> committed + 1]
<1>1. /\ committed < MaxChain /\ committed' = committed + 1
      /\ messages' = IF subscribed THEN Append(messages, m) ELSE messages
      /\ promised' = IF subscribed THEN promised \cup {committed + 1} ELSE promised
      /\ UNCHANGED <<rank, requests, subscribed, search, history, concat, emitted>>
  BY DEF NodeCommits
<1>2. /\ MaxChain \in Nat /\ committed \in Nat /\ messages \in Seq(LiveMessage) /\ concat \in LiveConcat
      /\ emitted \in Seq(LiveTxs) /\ promised \subseteq Committed /\ LiveTxs \subseteq Nat
      /\ Len(messages) \in Nat /\ DOMAIN messages = 1 .. Len(messages)
  BY LiveTypes DEF LiveInv
<1>3. committed + 1 \in LiveTxs /\ committed' \in 0 .. MaxChain /\ committed' \in Nat
  BY <1>1, <1>2 DEF LiveTxs
<1>4. m \in LiveMessage /\ m.kind = "tx" /\ m.tx = committed + 1
  BY <1>3 DEF LiveMessage
<1> HIDE DEF m
<1>5. /\ messages' \in Seq(LiveMessage) /\ DOMAIN messages \subseteq DOMAIN messages'
      /\ \A n \in DOMAIN messages : messages'[n] = messages[n] /\ n \in Nat /\ n < l
      /\ \A n \in DOMAIN messages' : n \in DOMAIN messages \/ (n = l /\ messages'[n] = m)
      /\ l \in Nat
  <2>1. \A n \in DOMAIN messages : n \in Nat /\ n < Len(messages) + 1
    BY <1>2
  <2>2. CASE subscribed
    <3>1. messages' = Append(messages, m)
      BY <1>1, <2>2
    <3> QED BY <1>2, <1>4, <3>1, AppendIs
  <2>3. CASE ~subscribed
    BY <1>1, <1>2, <2>1, <2>3
  <2> QED BY <2>2, <2>3
<1> HIDE DEF l
<1>6. \A n \in DOMAIN messages : messages[n] \in LiveMessage /\ (messages[n].kind = "tx" => messages[n].tx \in Nat)
      /\ (messages[n].kind = "page" => messages[n].totalCount \in Nat)
  <2>1. \A n \in DOMAIN messages : messages[n] \in LiveMessage
    BY <1>2, ElementOfSeq
  <2> QED BY <1>2, <2>1, MessageKinds
<1>7. \A x \in Nat : x <= committed => x <= committed' /\ x < committed + 1
  BY <1>1, <1>2
<1>8. LiveTypeOK'
  <2>1. promised' \subseteq Committed'
    <3>1. Committed \subseteq Committed' /\ committed + 1 \in Committed'
      BY <1>1, <1>2 DEF Committed
    <3> QED BY <1>1, <1>2, <3>1
  <2> QED BY <1>1, <1>3, <1>5, <2>1 DEF LiveInv, LiveTypeOK
<1>9. SearchInv'
  <2>1. search.state = "none" => messages' = <<>>
    BY <1>1 DEF LiveInv, SearchInv
  <2> QED BY <1>1, <2>1 DEF LiveInv, SearchInv
<1>10. OneRequest' /\ OneAnswer'
  BY <1>1, <1>4, <1>5 DEF LiveInv, OneRequest, OneAnswer
<1>11. UpdatesInv'
  <2>1. UpdatesInv
    BY DEF LiveInv
  <2>2. \A n \in DOMAIN messages' : messages'[n].kind = "tx" => messages'[n].tx <= committed'
    <3>1. committed + 1 <= committed'
      BY <1>1, <1>2
    <3> QED BY <1>4, <1>5, <1>6, <1>7, <2>1, <3>1 DEF UpdatesInv
  <2>3. \A i, n \in DOMAIN messages' :
          messages'[i].kind = "tx" /\ messages'[n].kind = "tx" /\ i < n => messages'[i].tx < messages'[n].tx
    <3> SUFFICES ASSUME NEW i \in DOMAIN messages', NEW n \in DOMAIN messages', i < n,
                        messages'[i].kind = "tx", messages'[n].kind = "tx"
                 PROVE  messages'[i].tx < messages'[n].tx
      OBVIOUS
    <3>1. i \in DOMAIN messages
      <4> SUFFICES ASSUME i = l PROVE FALSE
        BY <1>5
      <4>1. n = l \/ n < l
        BY <1>5
      <4> QED BY <1>5, <4>1
    <3>2. CASE n \in DOMAIN messages
      BY <1>5, <2>1, <3>1, <3>2 DEF UpdatesInv
    <3>3. CASE n = l /\ messages'[n] = m
      <4>1. messages[i].tx \in Nat /\ messages[i].tx <= committed
        BY <1>5, <1>6, <2>1, <3>1 DEF UpdatesInv
      <4> QED BY <1>4, <1>5, <1>7, <3>1, <3>3, <4>1
    <3> QED BY <1>5, <3>2, <3>3
  <2> QED BY <2>2, <2>3 DEF UpdatesInv
<1>12. Distinct(emitted)'
  BY <1>1 DEF LiveInv, Distinct
<1>13. WaitingInv'
  <2>1. WaitingInv
    BY DEF LiveInv
  <2>2. \A k \in DOMAIN concat.queues[2] : concat.queues[2][k] \in Nat
    <3>1. concat.queues[2] \in Seq(LiveTxs)
      BY <1>2 DEF LiveConcat
    <3>2. \A k \in DOMAIN concat.queues[2] : concat.queues[2][k] \in LiveTxs
      BY <3>1, ElementOfSeq, LenProperties
    <3> QED BY <1>2, <3>2
  <2> DEFINE q == concat.queues[2]
  <2>3. ~history => \A k \in DOMAIN q : q[k] <= committed' /\ q[k] < committed + 1
    BY <1>7, <2>1, <2>2 DEF WaitingInv
  <2>4. ~history => \A k \in DOMAIN q : \A n \in DOMAIN messages' : messages'[n].kind = "tx" => q[k] < messages'[n].tx
    BY <1>4, <1>5, <2>1, <2>3 DEF WaitingInv
  <2> HIDE DEF q
  <2>5. concat'.queues[2] = q /\ concat.queues[2] = q
    BY <1>1 DEF q
  <2> QED BY <1>1, <2>1, <2>3, <2>4, <2>5 DEF WaitingInv, Ascending
<1>14. ASSUME ResultsByHeight' PROVE PagesInv' /\ EmittedInv'
  <2>1. PagesInv /\ EmittedInv
    BY <1>1, <1>14 DEF LiveInv, ResultsByHeight
  <2>2. PagesInv'
    <3>1. Len(search.txs) \in Nat
      BY LiveTypes, LenProperties DEF LiveInv, LiveSearch
    <3>2. Len(search'.txs) <= committed'
      BY <1>1, <1>7, <2>1, <3>1 DEF PagesInv
    <3>3. \A n \in DOMAIN messages' : messages'[n].kind = "page" =>
             n \in DOMAIN messages /\ messages'[n] = messages[n] /\ messages[n].totalCount <= committed'
      BY <1>4, <1>5, <1>6, <1>7, <2>1 DEF PagesInv
    <3> QED BY <1>1, <2>1, <3>2, <3>3 DEF PagesInv, PageEnd
  <2>3. EmittedInv'
    <3>1. \A i \in DOMAIN emitted : emitted[i] \in Nat
      BY <1>2, ElementOfSeq, LenProperties
    <3>2. \A i \in DOMAIN emitted : emitted[i] <= committed' /\ emitted[i] < committed + 1
      BY <1>7, <2>1, <3>1 DEF EmittedInv
    <3> QED BY <1>1, <1>4, <1>5, <2>1, <3>2 DEF EmittedInv, Ascending
  <2> QED BY <2>2, <2>3
<1> QED
  BY <1>8, <1>9, <1>10, <1>11, <1>12, <1>13, <1>14 DEF LiveInv

(* The pages of the node's results. *)
LEMMA PartFollows ==
  ASSUME NEW l \in Nat, NEW e \in Nat, NEW c \in Nat, l <= e, e <= c
  PROVE  FirstTxs(l) \o SubSeq(FirstTxs(c), l + 1, e) = FirstTxs(e)
<1> DEFINE s == FirstTxs(l)
           u == FirstTxs(c)
           v == FirstTxs(e)
           x == SubSeq(u, l + 1, e)
<1>1. 1 .. l \subseteq Nat /\ 1 .. e \subseteq Nat /\ 1 .. c \subseteq Nat
  OBVIOUS
<1>2. s \in Seq(Nat) /\ Len(s) = l /\ \A i \in 1 .. l : s[i] = i
  BY <1>1, FirstTxsIs
<1>3. u \in Seq(Nat) /\ Len(u) = c /\ \A i \in 1 .. c : u[i] = i
  BY <1>1, FirstTxsIs
<1>4. v \in Seq(Nat) /\ Len(v) = e /\ \A i \in 1 .. e : v[i] = i
  BY <1>1, FirstTxsIs
<1> HIDE DEF s, u, v
<1>5. l + 1 \in Int /\ e \in Int /\ \A i \in l + 1 .. e : i \in 1 .. c /\ i \in Nat
  OBVIOUS
<1>6. \A i \in l + 1 .. e : u[i] \in Nat
  BY <1>3, <1>5
<1>7. /\ x \in Seq(Nat) /\ Len(x) = IF l + 1 <= e THEN e - (l + 1) + 1 ELSE 0
      /\ \A i \in 1 .. e - (l + 1) + 1 : x[i] = u[(l + 1) + i - 1]
  <2> DEFINE a1 == l + 1
  <2>1. a1 \in Int /\ \A i \in a1 .. e : u[i] \in Nat
    BY <1>5, <1>6
  <2> HIDE DEF a1
  <2>2. /\ SubSeq(u, a1, e) \in Seq(Nat) /\ Len(SubSeq(u, a1, e)) = IF a1 <= e THEN e - a1 + 1 ELSE 0
        /\ \A i \in 1 .. e - a1 + 1 : SubSeq(u, a1, e)[i] = u[a1 + i - 1]
    BY <1>5, <2>1, SubSeqProperties
  <2> QED BY <2>2 DEF a1
<1> HIDE DEF x
<1>8. Len(x) = e - l /\ \A i \in 1 .. e - l : x[i] = l + i
  <2>1. e - (l + 1) + 1 = e - l /\ ~(l + 1 <= e) => e - l = 0
    OBVIOUS
  <2>2. \A i \in 1 .. e - l : (l + 1) + i - 1 = l + i /\ l + i \in 1 .. c
    OBVIOUS
  <2> QED BY <1>3, <1>7, <2>1, <2>2
<1>9. /\ s \o x \in Seq(Nat) /\ Len(s \o x) = Len(s) + Len(x)
      /\ \A i \in 1 .. Len(s) + Len(x) : (s \o x)[i] = IF i <= Len(s) THEN s[i] ELSE x[i - Len(s)]
  BY <1>2, <1>7, ConcatProperties
<1>10. Len(s) + Len(x) = e
  BY <1>2, <1>8
<1>11. ASSUME NEW i \in 1 .. e PROVE (s \o x)[i] = v[i]
  <2>1. CASE i <= l
    BY <1>2, <1>4, <1>9, <1>10, <2>1
  <2>2. CASE ~(i <= l)
    <3>1. i - l \in 1 .. e - l /\ l + (i - l) = i
      BY <2>2
    <3>2. (s \o x)[i] = x[i - l]
      BY <1>2, <1>9, <1>10, <2>2
    <3> QED BY <1>4, <1>8, <3>1, <3>2
  <2> QED BY <2>1, <2>2
<1>12. s \o x = v
  BY <1>4, <1>9, <1>10, <1>11, SeqEqual
<1> QED
  BY <1>12 DEF s, x, u, v

LEMMA ResultsIs ==
  ASSUME LiveTypeOK
  PROVE  /\ Results \in Seq(LiveTxs) /\ Len(Results) \in Nat
         /\ ResultsByHeight => Results = FirstTxs(committed) /\ Len(Results) = committed
<1>1. MaxChain \in Nat /\ committed \in 0 .. MaxChain /\ committed \in Nat
  BY LiveTypes
<1>2. Results = ByPlace(FirstTxs(committed), rank)
  BY DEF Results, FirstTxs, Committed
<1>3. 1 .. committed \subseteq 1 .. MaxChain
  BY <1>1
<1>4. FirstTxs(committed) \in Seq(1 .. MaxChain) /\ Len(FirstTxs(committed)) = committed
  BY <1>1, <1>3, FirstTxsIs
<1>5. Results \in Seq(1 .. MaxChain)
  BY <1>2, <1>4, ByPlaceType
<1>6. Len(Results) \in Nat
  BY <1>5, LenProperties
<1>7. ResultsByHeight => Results = FirstTxs(committed)
  BY <1>1, <1>2, ByPlaceOrdered DEF ResultsByHeight
<1> QED
  BY <1>4, <1>5, <1>6, <1>7 DEF LiveTxs

LEMMA PageIs ==
  ASSUME LiveTypeOK, NEW p \in Nat, p # 0
  PROVE  Page(p) \in LiveMessage /\ Page(p).kind = "page" /\ Page(p).totalCount = Len(Results)
         /\ Page(p).txs = SubSeq(Results, (p - 1) * PerPage + 1, PageEnd(p, Len(Results)))
<1> DEFINE l == (p - 1) * PerPage
           c == Len(Results)
           e == PageEnd(p, c)
           x == SubSeq(Results, l + 1, e)
<1>1. PerPage \in Nat /\ p - 1 \in Nat /\ c \in Nat /\ Results \in Seq(LiveTxs)
  BY LiveTypes, ResultsIs
<1>2. l \in Nat /\ p * PerPage \in Nat
  BY <1>1, Times
<1>3. e \in Nat /\ e <= c
  BY <1>1, <1>2 DEF PageEnd
<1> DEFINE a1 == l + 1
<1> HIDE DEF l, e, c
<1>4. a1 \in Int /\ e \in Int /\ \A i \in a1 .. e : i \in 1 .. c
  BY <1>1, <1>2, <1>3
<1>5. \A i \in a1 .. e : Results[i] \in LiveTxs
  BY <1>1, <1>4, ElementOfSeq DEF c
<1> HIDE DEF a1
<1>6. SubSeq(Results, a1, e) \in Seq(LiveTxs)
  BY <1>4, <1>5, SubSeqProperties
<1>7. x \in Seq(LiveTxs)
  BY <1>6 DEF a1
<1>8. Page(p) = [kind |-> "page", totalCount |-> c, txs |-> x]
  BY DEF Page, PageOf, x, l, e, c
<1> HIDE DEF x
<1>9. Page(p) \in LiveMessage /\ Page(p).kind = "page" /\ Page(p).totalCount = c /\ Page(p).txs = x
  BY <1>1, <1>7, <1>8 DEF LiveMessage
<1> QED
  BY <1>9 DEF c, x, l, e

(* The node handles a request of the search. *)
LEMMA AnswerKeeps ==
  ASSUME LiveInv, requests # <<>>, requests[1].kind # "subscribe", requests' = Tail(requests),
         NEW x \in LiveMessage, x.kind # "tx", messages' = Append(messages, x),
         UNCHANGED <<rank, committed, subscribed, search, history, concat, emitted, promised>>,
         ResultsByHeight /\ x.kind = "page" =>
           x.totalCount <= committed /\ search.txs \o x.txs = FirstTxs(PageEnd(search.page, x.totalCount))
  PROVE  LiveInv'
<1> DEFINE l == Len(messages) + 1
<1>1. requests \in Seq(LiveRequest) /\ messages \in Seq(LiveMessage)
  BY LiveTypes DEF LiveInv
<1>2. /\ 1 \in DOMAIN requests /\ Tail(requests) \in Seq(LiveRequest)
      /\ \A n \in DOMAIN Tail(requests) : n + 1 \in DOMAIN requests /\ n + 1 # 1 /\ Tail(requests)[n] = requests[n + 1]
  BY <1>1, TailIs
<1>3. /\ messages' \in Seq(LiveMessage) /\ DOMAIN messages' = DOMAIN messages \cup {l} /\ messages'[l] = x
      /\ \A n \in DOMAIN messages : messages'[n] = messages[n] /\ n # l
  BY <1>1, AppendIs
<1> HIDE DEF l
<1>4. /\ search.state = "searching" /\ (\A m \in DOMAIN requests : requests[m].kind # "subscribe" => m = 1)
      /\ \A m \in DOMAIN messages : messages[m].kind = "tx"
  BY <1>2 DEF LiveInv, OneRequest
<1>5. \A n \in DOMAIN requests' : requests'[n].kind = "subscribe"
  BY <1>2, <1>4
<1>6. \A n \in DOMAIN messages' : messages'[n].kind # "tx" => n = l
  BY <1>3, <1>4
<1>7. LiveTypeOK'
  BY <1>2, <1>3 DEF LiveInv, LiveTypeOK, Committed
<1>8. SearchInv'
  BY <1>4 DEF LiveInv, SearchInv
<1>9. OneRequest' /\ OneAnswer'
  BY <1>4, <1>5, <1>6 DEF OneRequest, OneAnswer
<1>10. \A n \in DOMAIN messages' : messages'[n].kind = "tx" => n \in DOMAIN messages /\ messages'[n] = messages[n]
  BY <1>3
<1>11. UpdatesInv' /\ Distinct(emitted)'
  BY <1>10 DEF LiveInv, UpdatesInv, Distinct
<1>12. WaitingInv'
  BY <1>10 DEF LiveInv, WaitingInv, Ascending
<1>13. ASSUME ResultsByHeight' PROVE PagesInv' /\ EmittedInv'
  <2>1. ResultsByHeight
    BY <1>13 DEF ResultsByHeight
  <2>2. PagesInv /\ EmittedInv
    BY <2>1 DEF LiveInv
  <2>3. EmittedInv'
    BY <1>10, <2>2 DEF EmittedInv, Ascending
  <2>4. \A n \in DOMAIN messages' : messages'[n].kind = "page" =>
          /\ messages'[n].totalCount <= committed
          /\ search.txs \o messages'[n].txs = FirstTxs(PageEnd(search.page, messages'[n].totalCount))
    BY <1>3, <1>6, <2>1
  <2>5. PagesInv'
    BY <1>5, <2>2, <2>4 DEF PagesInv, PageEnd
  <2> QED BY <2>3, <2>5
<1> QED
  BY <1>7, <1>8, <1>9, <1>11, <1>12, <1>13 DEF LiveInv

LEMMA NodeHandlesKeeps == LiveInv /\ NodeHandles => LiveInv'
<1> SUFFICES ASSUME LiveInv, NodeHandles PROVE LiveInv'
  OBVIOUS
<1> DEFINE r == requests[1]
<1>1. requests \in Seq(LiveRequest) /\ LiveTypeOK /\ requests # <<>>
  BY LiveTypes DEF LiveInv, NodeHandles
<1>2. /\ Head(requests) = r /\ r \in LiveRequest /\ 1 \in DOMAIN requests /\ Tail(requests) \in Seq(LiveRequest)
      /\ \A n \in DOMAIN Tail(requests) : n \in Nat /\ n + 1 \in DOMAIN requests /\ Tail(requests)[n] = requests[n + 1]
  BY <1>1, TailIs
<1>3. /\ requests' = Tail(requests)
      /\ UNCHANGED <<rank, committed, search, history, concat, emitted, promised>>
      /\ \/ r.kind = "search" /\ messages' = Append(messages, Page(r.page)) /\ UNCHANGED subscribed
         \/ r.kind = "status" /\ messages' = Append(messages, r) /\ UNCHANGED subscribed
         \/ r.kind = "subscribe" /\ subscribed' = TRUE /\ UNCHANGED messages
         \/ r.kind \in {"search", "status"} /\ messages' = Append(messages, [kind |-> "error"]) /\ UNCHANGED subscribed
  BY <1>2 DEF NodeHandles
<1> HIDE DEF r
<1>4. CASE r.kind = "search" /\ messages' = Append(messages, Page(r.page)) /\ UNCHANGED subscribed
  <2>1. r.page = search.page /\ r.page \in Nat /\ r.page # 0
    BY <1>2, <1>4, RequestKinds DEF LiveInv, OneRequest, r
  <2> DEFINE x == Page(r.page)
  <2>2. /\ x \in LiveMessage /\ x.kind = "page" /\ x.totalCount = Len(Results)
        /\ x.txs = SubSeq(Results, (r.page - 1) * PerPage + 1, PageEnd(r.page, Len(Results)))
    BY <1>1, <2>1, PageIs
  <2> HIDE DEF x
  <2>3. ASSUME ResultsByHeight
        PROVE  x.totalCount <= committed /\ search.txs \o x.txs = FirstTxs(PageEnd(search.page, x.totalCount))
    <3> DEFINE l == Len(search.txs)
               e == PageEnd(search.page, committed)
    <3>1. Results = FirstTxs(committed) /\ Len(Results) = committed /\ committed \in Nat /\ PerPage \in Nat
      BY <1>1, <2>3, ResultsIs, LiveTypes
    <3>2. search.txs = FirstTxs(l) /\ l <= committed /\ l = (search.page - 1) * PerPage
      BY <1>2, <1>4, <2>3 DEF LiveInv, PagesInv, r
    <3> DEFINE k == search.page - 1
    <3>3. k \in Nat /\ search.page = k + 1
      BY <2>1
    <3> HIDE DEF k
    <3>4. k * PerPage \in Nat /\ (k + 1) * PerPage = k * PerPage + PerPage
      BY <3>1, <3>3, Times
    <3>5. l \in Nat /\ search.page * PerPage = l + PerPage
      BY <3>2, <3>3, <3>4 DEF k
    <3> HIDE DEF l
    <3>6. e \in Nat /\ l <= e /\ e <= committed
      <4> DEFINE z == search.page * PerPage
      <4>1. z = l + PerPage /\ e = IF z < committed THEN z ELSE committed
        BY <3>5 DEF PageEnd
      <4> HIDE DEF z, e
      <4> QED BY <3>1, <3>2, <3>5, <4>1
    <3> HIDE DEF e
    <3>7. FirstTxs(l) \o SubSeq(FirstTxs(committed), l + 1, e) = FirstTxs(e)
      BY <3>1, <3>5, <3>6, PartFollows
    <3>8. x.txs = SubSeq(FirstTxs(committed), l + 1, e)
      BY <2>1, <2>2, <3>1, <3>2 DEF e
    <3>9. committed <= committed
      BY <3>1
    <3> QED BY <2>2, <3>1, <3>2, <3>7, <3>8, <3>9 DEF e
  <2>4. x.kind # "tx" /\ requests[1].kind # "subscribe" /\ messages' = Append(messages, x)
    BY <1>4, <2>2 DEF x, r
  <2> QED BY <1>1, <1>3, <1>4, <2>2, <2>3, <2>4, AnswerKeeps
<1>5. CASE r.kind = "status" /\ messages' = Append(messages, r) /\ UNCHANGED subscribed
  <2>1. r \in LiveMessage /\ r.kind # "tx" /\ r.kind # "page" /\ requests[1].kind # "subscribe"
    BY <1>2, <1>5 DEF LiveMessage, LiveRequest, r
  <2> QED BY <1>1, <1>3, <1>5, <2>1, AnswerKeeps
<1>6. CASE r.kind \in {"search", "status"} /\ messages' = Append(messages, [kind |-> "error"]) /\ UNCHANGED subscribed
  <2> DEFINE x == [kind |-> "error"]
  <2>1. x \in LiveMessage /\ x.kind # "tx" /\ x.kind # "page" /\ requests[1].kind # "subscribe" /\ messages' = Append(messages, x)
    BY <1>6 DEF LiveMessage, r
  <2> HIDE DEF x
  <2> QED BY <1>1, <1>3, <1>6, <2>1, AnswerKeeps
<1>7. CASE r.kind = "subscribe" /\ subscribed' = TRUE /\ UNCHANGED messages
  <2>1. search.state # "none"
    BY <1>1 DEF LiveInv, SearchInv
  <2>2. \A n \in DOMAIN requests' : n + 1 \in DOMAIN requests /\ requests'[n] = requests[n + 1] /\ n \in Nat
    BY <1>2, <1>3
  <2>3. \A m, n \in Nat : m + 1 = n + 1 => m = n
    OBVIOUS
  <2>4. LiveTypeOK'
    BY <1>2, <1>3, <1>7 DEF LiveInv, LiveTypeOK, Committed
  <2>5. SearchInv'
    BY <1>3, <2>1 DEF LiveInv, SearchInv
  <2>6. OneRequest' /\ OneAnswer'
    BY <1>3, <1>7, <2>2, <2>3 DEF LiveInv, OneRequest, OneAnswer
  <2>7. UpdatesInv' /\ WaitingInv' /\ Distinct(emitted)'
    BY <1>3, <1>7 DEF LiveInv, UpdatesInv, WaitingInv, Distinct, Ascending
  <2>8. ASSUME ResultsByHeight' PROVE PagesInv' /\ EmittedInv'
    <3>1. PagesInv /\ EmittedInv
      BY <1>3, <2>8 DEF LiveInv, ResultsByHeight
    <3>2. EmittedInv'
      BY <1>3, <1>7, <3>1 DEF EmittedInv, Ascending
    <3>3. PagesInv'
      BY <1>3, <1>7, <2>2, <3>1 DEF PagesInv, PageEnd
    <3> QED BY <3>2, <3>3
  <2> QED BY <2>4, <2>5, <2>6, <2>7, <2>8 DEF LiveInv
<1> QED
  BY <1>3, <1>4, <1>5, <1>6, <1>7

(* What the listener is given. *)
LEMMA DropNothing ==
  ASSUME NEW T, NEW e \in Seq(T)
  PROVE  DropDuplicates(e, <<>>) = <<>>
<1> DEFINE none == <<>>
           d == DropDuplicates(e, none)
<1>1. none \in Seq(T) /\ ToSet(none) = {}
  BY EmptySeq DEF ToSet
<1> HIDE DEF none
<1>2. d \in Seq(T) /\ ToSet(d) = {}
  BY <1>1, DropElements
<1> HIDE DEF d
<1>3. Len(d) \in Nat /\ DOMAIN d = 1 .. Len(d)
  BY <1>2, LenProperties
<1>4. Len(d) = 0
  <2> SUFFICES ASSUME Len(d) # 0 PROVE FALSE
    OBVIOUS
  <2>1. 1 \in DOMAIN d
    BY <1>3
  <2> QED BY <1>2, <2>1 DEF ToSet
<1>5. d = <<>>
  BY <1>2, <1>4, EmptySeq
<1> QED
  BY <1>5 DEF d, none

LEMMA NewPart ==
  ASSUME NEW T, NEW s \in Seq(T), NEW x \in Seq(T)
  PROVE  SubSeq(s \o x, Len(s) + 1, Len(s \o x)) = x
<1> DEFINE c == s \o x
           l == Len(s)
           k == Len(x)
           a1 == l + 1
           z == Len(c)
<1>1. l \in Nat /\ k \in Nat
  BY LenProperties
<1>2. /\ c \in Seq(T) /\ z = l + k
      /\ \A i \in 1 .. l + k : c[i] = IF i <= l THEN s[i] ELSE x[i - l]
  BY ConcatProperties
<1>3. \A i \in 1 .. k : x[i] \in T
  BY ElementOfSeq
<1> HIDE DEF c, l, k, z
<1>4. \A i \in a1 .. z : i \in 1 .. l + k /\ ~(i <= l) /\ i - l \in 1 .. k
  BY <1>1, <1>2
<1>5. \A i \in a1 .. z : c[i] \in T
  BY <1>2, <1>3, <1>4
<1>6. a1 \in Int /\ z \in Int
  BY <1>1, <1>2
<1> HIDE DEF a1
<1> DEFINE u == SubSeq(c, a1, z)
<1>7. u \in Seq(T) /\ Len(u) = (IF a1 <= z THEN z - a1 + 1 ELSE 0) /\ \A i \in 1 .. z - a1 + 1 : u[i] = c[a1 + i - 1]
  BY <1>5, <1>6, SubSeqProperties
<1> HIDE DEF u
<1>8. z - a1 + 1 = k /\ (~(a1 <= z) => k = 0)
  BY <1>1, <1>2 DEF a1
<1>9. Len(u) = k
  BY <1>7, <1>8
<1>10. ASSUME NEW i \in 1 .. k PROVE u[i] = x[i]
  <2>1. a1 + i - 1 = l + i /\ l + i \in 1 .. l + k /\ ~(l + i <= l) /\ (l + i) - l = i
    BY <1>1 DEF a1
  <2>2. u[i] = c[l + i]
    BY <1>7, <1>8, <2>1
  <2>3. c[l + i] = x[(l + i) - l]
    BY <1>2, <2>1
  <2> QED BY <2>1, <2>2, <2>3
<1>11. u = x
  BY <1>7, <1>9, <1>10, SeqEqual DEF k
<1> QED
  BY <1>11 DEF u, c, a1, z, l

LEMMA DeliverIs ==
  ASSUME LiveTypeOK, Distinct(emitted), NEW x \in Seq(LiveTxs), NEW c, c.out = concat.out \o x, Deliver(c)
  PROVE  /\ concat' = c /\ emitted' = emitted \o DropDuplicates(emitted, x)
         /\ emitted' \in Seq(LiveTxs) /\ Distinct(emitted') /\ ToSet(emitted') = ToSet(emitted) \cup ToSet(x)
<1> DEFINE d == DropDuplicates(emitted, x)
<1>1. concat.out \in Seq(LiveTxs) /\ emitted \in Seq(LiveTxs)
  BY LiveTypes DEF LiveConcat
<1>2. SubSeq(c.out, Len(concat.out) + 1, Len(c.out)) = x
  BY <1>1, NewPart
<1>3. concat' = c /\ emitted' = emitted \o d
  BY <1>2 DEF Deliver
<1>4. d \in Seq(LiveTxs) /\ Distinct(d) /\ ToSet(d) = ToSet(x) \ ToSet(emitted)
  BY <1>1, DropElements
<1> HIDE DEF d
<1>5. /\ emitted \o d \in Seq(LiveTxs) /\ ToSet(emitted \o d) = ToSet(emitted) \cup ToSet(d)
      /\ Distinct(emitted \o d)
  <2>1. ToSet(emitted) \cap ToSet(d) = {}
    BY <1>4
  <2> QED BY <1>1, <1>4, <2>1, ConcatDistinct
<1> QED
  BY <1>3, <1>4, <1>5 DEF d

(* concat() with two streams: an update comes, or the search fails. *)
LEMMA ConcatFields ==
  ASSUME NEW c \in LiveConcat
  PROVE  /\ c = ConcatRec(c.queues, c.completed, c.active, c.out, c.status)
         /\ c.queues \in [1 .. 2 -> Seq(LiveTxs)] /\ c.queues[2] \in Seq(LiveTxs) /\ c.completed \subseteq 1 .. 2
         /\ c.active \in 1 .. 2 /\ c.out \in Seq(LiveTxs) /\ c.status \in {"stopped", "running", "failed"}
<1>1. 2 \in 1 .. 2
  OBVIOUS
<1> QED
  BY <1>1 DEF LiveConcat, ConcatRec

LEMMA UpdateQueued ==
  ASSUME NEW c \in LiveConcat, c.active = 1, NEW t \in LiveTxs
  PROVE  LET n == ConcatNext(c, 2, t)
         IN /\ n \in LiveConcat /\ n.queues[1] = c.queues[1] /\ n.queues[2] = c.queues[2] \o <<t>>
            /\ n.out = c.out /\ n.active = 1 /\ n.completed = c.completed /\ n.status = c.status
<1> DEFINE n == ConcatNext(c, 2, t)
           q == c.queues
           x == q[2] \o <<t>>
           r == [q EXCEPT ![2] = x]
<1>1. /\ c = ConcatRec(q, c.completed, c.active, c.out, c.status) /\ q \in [1 .. 2 -> Seq(LiveTxs)] /\ q[2] \in Seq(LiveTxs)
      /\ c.completed \subseteq 1 .. 2 /\ c.active \in 1 .. 2 /\ c.out \in Seq(LiveTxs)
      /\ c.status \in {"stopped", "running", "failed"}
  BY ConcatFields
<1>2. n = [c EXCEPT !.queues[2] = x]
  BY DEF ConcatNext, ConcatNextAll
<1>3. n = [c EXCEPT !.queues = r]
  BY <1>2
<1>4. x \in Seq(LiveTxs)
  <2>1. <<t>> \in Seq(LiveTxs)
    OBVIOUS
  <2> QED BY <1>1, <2>1, ConcatProperties
<1> HIDE DEF x
<1>5. r \in [1 .. 2 -> Seq(LiveTxs)] /\ r[1] = q[1] /\ r[2] = x
  BY <1>1, <1>4
<1> HIDE DEF r, n
<1> DEFINE d == c.completed
           k == c.active
           o == c.out
           st == c.status
<1>6. n = ConcatRec(r, d, k, o, st)
  <2>1. c = ConcatRec(q, d, k, o, st)
    BY <1>1
  <2> HIDE DEF q, d, k, o, st
  <2> QED BY <1>3, <2>1 DEF ConcatRec
<1>7. n.queues = r /\ n.completed = d /\ n.active = k /\ n.out = o /\ n.status = st
  <2> HIDE DEF d, k, o, st
  <2> QED BY <1>6 DEF ConcatRec
<1>8. n \in LiveConcat
  BY <1>1, <1>5, <1>6 DEF LiveConcat, ConcatRec
<1> QED
  BY <1>5, <1>7, <1>8 DEF n, x

LEMMA UpdatePassed ==
  ASSUME NEW c \in LiveConcat, c.active = 2, NEW t \in LiveTxs
  PROVE  LET n == ConcatNext(c, 2, t)
         IN /\ n \in LiveConcat /\ n.out = c.out \o <<t>> /\ n.active = 2 /\ n.status = c.status
<1> DEFINE n == ConcatNext(c, 2, t)
           q == c.queues
           x == c.out \o <<t>>
           d == c.completed
           k == c.active
           o == c.out
           st == c.status
<1>1. /\ c = ConcatRec(q, c.completed, c.active, c.out, c.status) /\ q \in [1 .. 2 -> Seq(LiveTxs)]
      /\ c.completed \subseteq 1 .. 2 /\ c.active \in 1 .. 2 /\ c.out \in Seq(LiveTxs)
      /\ c.status \in {"stopped", "running", "failed"}
  BY ConcatFields
<1>2. n = [c EXCEPT !.out = x]
  BY DEF ConcatNext, ConcatNextAll
<1>3. x \in Seq(LiveTxs)
  <2>1. <<t>> \in Seq(LiveTxs)
    OBVIOUS
  <2> QED BY <1>1, <2>1, ConcatProperties
<1> HIDE DEF x, n
<1>4. n = ConcatRec(q, d, k, x, st)
  <2>1. c = ConcatRec(q, d, k, o, st)
    BY <1>1
  <2> HIDE DEF q, d, k, o, st
  <2> QED BY <1>2, <2>1 DEF ConcatRec
<1>5. n.active = k /\ n.out = x /\ n.status = st
  <2> HIDE DEF q, d, k, o, st
  <2> QED BY <1>4 DEF ConcatRec
<1>6. n \in LiveConcat
  BY <1>1, <1>3, <1>4 DEF LiveConcat, ConcatRec
<1> QED
  BY <1>5, <1>6 DEF n, x

(* A message is taken from the queue. *)
MessageTaken ==
  /\ messages # <<>> /\ messages' = Tail(messages)
  /\ UNCHANGED <<rank, committed, subscribed, history, promised>>

LEMMA TakenFacts ==
  ASSUME LiveInv, MessageTaken
  PROVE  /\ messages[1] \in LiveMessage /\ 1 \in DOMAIN messages /\ Head(messages) = messages[1]
         /\ messages' \in Seq(LiveMessage)
         /\ \A n \in DOMAIN messages' : n \in Nat /\ n + 1 \in DOMAIN messages /\ 1 < n + 1 /\ messages'[n] = messages[n + 1]
         /\ \A m, n \in DOMAIN messages' : m < n => m + 1 < n + 1
         /\ UpdatesInv'
         /\ search.state # "none"
<1>1. messages \in Seq(LiveMessage) /\ messages # <<>> /\ messages' = Tail(messages) /\ UNCHANGED committed
  BY LiveTypes DEF LiveInv, MessageTaken
<1>2. /\ Head(messages) = messages[1] /\ messages[1] \in LiveMessage /\ 1 \in DOMAIN messages /\ messages' \in Seq(LiveMessage)
      /\ \A n \in DOMAIN messages' : n \in Nat /\ n + 1 \in DOMAIN messages /\ n + 1 # 1 /\ messages'[n] = messages[n + 1]
  BY <1>1, TailIs
<1>3. Len(messages') \in Nat /\ DOMAIN messages' = 1 .. Len(messages')
  BY <1>2, LenProperties
<1>4. (\A m, n \in DOMAIN messages' : m < n => m + 1 < n + 1) /\ \A n \in DOMAIN messages' : 1 < n + 1
  BY <1>3
<1>5. UpdatesInv'
  BY <1>1, <1>2, <1>4 DEF LiveInv, UpdatesInv
<1>6. search.state # "none"
  BY <1>1 DEF LiveInv, SearchInv
<1> QED
  BY <1>2, <1>4, <1>5, <1>6

(* An answer of the search is taken: no other is under way. *)
LEMMA AnswerTaken ==
  ASSUME LiveInv, MessageTaken, messages[1].kind # "tx"
  PROVE  /\ search.state = "searching"
         /\ \A n \in DOMAIN messages' : messages'[n].kind = "tx" /\ n + 1 \in DOMAIN messages /\ messages'[n] = messages[n + 1]
         /\ \A n \in DOMAIN requests : requests[n].kind = "subscribe"
<1>1. /\ 1 \in DOMAIN messages
      /\ \A n \in DOMAIN messages' : n \in Nat /\ n + 1 \in DOMAIN messages /\ 1 < n + 1 /\ messages'[n] = messages[n + 1]
  BY TakenFacts
<1>2. /\ search.state = "searching" /\ (\A m \in DOMAIN messages : messages[m].kind # "tx" => m = 1)
      /\ \A n \in DOMAIN requests : requests[n].kind = "subscribe"
  BY <1>1 DEF LiveInv, OneAnswer
<1>3. \A n \in DOMAIN messages' : n + 1 # 1
  BY <1>1
<1> QED
  BY <1>1, <1>2, <1>3

(* The parts of the invariant that the search does not disturb. *)
LEMMA SearchLeaves ==
  ASSUME LiveInv, MessageTaken, UNCHANGED <<concat, emitted>>
  PROVE  WaitingInv' /\ Distinct(emitted') /\ (ResultsByHeight => EmittedInv')
<1>1. \A n \in DOMAIN messages' : n \in Nat /\ n + 1 \in DOMAIN messages /\ messages'[n] = messages[n + 1]
  BY TakenFacts
<1>2. WaitingInv'
  BY <1>1 DEF LiveInv, MessageTaken, WaitingInv, Ascending
<1>3. Distinct(emitted')
  BY DEF LiveInv, Distinct
<1>4. ResultsByHeight => EmittedInv'
  BY <1>1 DEF LiveInv, MessageTaken, EmittedInv, Ascending
<1> QED
  BY <1>2, <1>3, <1>4

LEMMA RequestNext ==
  ASSUME LiveInv, MessageTaken, messages[1].kind # "tx", UNCHANGED <<concat, emitted>>,
         NEW r \in LiveRequest, r.kind # "subscribe", requests' = Append(requests, r),
         search' \in LiveSearch, search'.state = "searching", search'.page # 0,
         r.kind = "search" => r.page = search'.page,
         ResultsByHeight =>
           /\ search'.txs = FirstTxs(Len(search'.txs)) /\ Len(search'.txs) <= committed
           /\ r.kind = "search" => Len(search'.txs) = (search'.page - 1) * PerPage
  PROVE  LiveInv'
<1> DEFINE l == Len(requests) + 1
<1>1. /\ \A n \in DOMAIN messages' : messages'[n].kind = "tx"
      /\ \A n \in DOMAIN requests : requests[n].kind = "subscribe"
  BY AnswerTaken
<1>2. messages' \in Seq(LiveMessage) /\ UpdatesInv'
  BY TakenFacts
<1>3. /\ requests' \in Seq(LiveRequest) /\ DOMAIN requests' = DOMAIN requests \cup {l} /\ requests'[l] = r
      /\ \A n \in DOMAIN requests : requests'[n] = requests[n]
  BY LiveTypes, AppendIs DEF LiveInv
<1> HIDE DEF l
<1>4. \A n \in DOMAIN requests' : requests'[n].kind # "subscribe" => n = l /\ requests'[n] = r
  BY <1>1, <1>3
<1>5. LiveTypeOK'
  BY <1>2, <1>3 DEF LiveInv, LiveTypeOK, MessageTaken, LiveSearch, Committed
<1>6. SearchInv' /\ OneRequest' /\ OneAnswer'
  BY <1>1, <1>4 DEF SearchInv, OneRequest, OneAnswer
<1>7. WaitingInv' /\ Distinct(emitted') /\ (ResultsByHeight => EmittedInv')
  BY SearchLeaves
<1>8. ASSUME ResultsByHeight' PROVE PagesInv' /\ EmittedInv'
  <2>1. ResultsByHeight /\ UNCHANGED committed
    BY <1>8 DEF ResultsByHeight, MessageTaken
  <2>2. \A n \in DOMAIN requests' : requests'[n].kind = "search" => Len(search'.txs) = (search'.page - 1) * PerPage
    BY <1>4, <2>1
  <2>3. PagesInv'
    BY <1>1, <2>1, <2>2 DEF PagesInv
  <2> QED BY <1>7, <2>1, <2>3
<1> QED
  BY <1>2, <1>5, <1>6, <1>7, <1>8 DEF LiveInv

LEMMA PageKeeps ==
  ASSUME LiveInv, MessageTaken, messages[1].kind = "page", ReceivePage(messages[1]), UNCHANGED <<concat, emitted>>
  PROVE  LiveInv'
<1> DEFINE m == messages[1]
           s == search.txs \o m.txs
           p == search.page
           e == PageEnd(p, m.totalCount)
<1>1. /\ m \in LiveMessage /\ 1 \in DOMAIN messages /\ search.state = "searching" /\ search.page # 0
      /\ m.totalCount \in Nat /\ m.txs \in Seq(LiveTxs)
  BY TakenFacts, AnswerTaken, MessageKinds DEF LiveInv, SearchInv
<1>2. search \in LiveSearch /\ PerPage \in Nat /\ MaxChain \in Nat /\ committed \in 0 .. MaxChain /\ committed \in Nat
  BY LiveTypes DEF LiveInv
<1>3. search.txs \in Seq(LiveTxs) /\ p \in Nat /\ search = [state |-> "searching", page |-> p, txs |-> search.txs]
  BY <1>1, <1>2 DEF LiveSearch
<1>4. s \in Seq(LiveTxs)
  BY <1>1, <1>3, ConcatProperties
<1>5. p * PerPage \in Nat
  BY <1>2, <1>3, Times
<1>6. e \in Nat /\ e <= m.totalCount /\ (e < m.totalCount => e = p * PerPage)
  BY <1>1, <1>5 DEF PageEnd
<1>7. ASSUME ResultsByHeight PROVE s = FirstTxs(e) /\ Len(s) = e /\ e <= committed /\ e \in 0 .. MaxChain
  <2>1. s = FirstTxs(e) /\ m.totalCount <= committed
    BY <1>1, <1>7 DEF LiveInv, PagesInv
  <2>2. e <= committed /\ e \in 0 .. MaxChain
    <3> HIDE DEF e
    <3> QED BY <1>1, <1>2, <1>6, <2>1
  <2>3. 1 .. e \subseteq Nat
    BY <1>6
  <2>4. Len(FirstTxs(e)) = e
    <3> HIDE DEF e
    <3> QED BY <1>6, <2>3, FirstTxsIs
  <2> QED BY <2>1, <2>2, <2>4
<1> HIDE DEF s, e
<1>8. CASE Len(s) < m.totalCount
  <2> DEFINE r == [kind |-> "search", page |-> p + 1]
  <2>1. search' = [search EXCEPT !.txs = s, !.page = p + 1] /\ requests' = Append(requests, r)
    BY <1>8 DEF ReceivePage, s
  <2>2. search' = [state |-> "searching", page |-> p + 1, txs |-> s]
    <3> DEFINE st == "searching"
               k == p + 1
               u == search.txs
               c == search
               d == [c EXCEPT !.txs = s]
    <3>1. c = [state |-> st, page |-> p, txs |-> u] /\ search' = [c EXCEPT !.txs = s, !.page = k]
      BY <1>3, <2>1
    <3> HIDE DEF st, k, u, c, p
    <3>2. [c EXCEPT !.txs = s, !.page = k] = [d EXCEPT !.page = k]
      OBVIOUS
    <3>3. d = [state |-> st, page |-> p, txs |-> s]
      BY <3>1
    <3> HIDE DEF d
    <3>4. [d EXCEPT !.page = k] = [state |-> st, page |-> k, txs |-> s]
      BY <3>3
    <3> QED BY <3>1, <3>2, <3>4 DEF st, k
  <2>3. p + 1 \in Nat /\ p + 1 # 0 /\ (p + 1) - 1 = p
    BY <1>3
  <2>4. search' \in LiveSearch /\ search'.state = "searching" /\ search'.page = p + 1 /\ search'.txs = s
    BY <1>4, <2>2, <2>3 DEF LiveSearch
  <2>5. r \in LiveRequest /\ r.kind = "search" /\ r.page = p + 1
    BY <2>3 DEF LiveRequest
  <2> HIDE DEF r, p
  <2>6. ASSUME ResultsByHeight
        PROVE  /\ search'.txs = FirstTxs(Len(search'.txs)) /\ Len(search'.txs) <= committed
               /\ Len(search'.txs) = (search'.page - 1) * PerPage
    <3>1. e = p * PerPage
      BY <1>6, <1>7, <1>8, <2>6
    <3> QED BY <1>7, <2>3, <2>4, <2>6, <3>1
  <2> QED BY <1>1, <2>1, <2>3, <2>4, <2>5, <2>6, RequestNext
<1>9. CASE ~(Len(s) < m.totalCount)
  <2> DEFINE r == [kind |-> "status"]
             u == SortByHeight(s)
             place == [t \in 1 .. MaxChain |-> t]
  <2>1. search' = [search EXCEPT !.txs = u] /\ requests' = Append(requests, r)
    BY <1>9 DEF ReceivePage, s
  <2>2. u \in Seq(LiveTxs)
    BY <1>4, ByPlaceType DEF SortByHeight, LiveTxs
  <2>3. ResultsByHeight => u = s
    <3>1. \A t \in 1 .. MaxChain : place[t] = t
      OBVIOUS
    <3> HIDE DEF place
    <3>2. \A k \in 0 .. MaxChain : ByPlace(FirstTxs(k), place) = FirstTxs(k)
      BY <3>1, ByPlaceOrdered
    <3>3. u = ByPlace(s, place)
      BY DEF SortByHeight, place
    <3> QED BY <1>7, <3>2, <3>3
  <2> HIDE DEF u
  <2>4. search' = [state |-> "searching", page |-> p, txs |-> u]
    BY <1>3, <2>1
  <2>5. search' \in LiveSearch /\ search'.state = "searching" /\ search'.page = p /\ search'.txs = u
    BY <1>3, <2>2, <2>4 DEF LiveSearch
  <2>6. r \in LiveRequest /\ r.kind = "status"
    BY DEF LiveRequest
  <2> HIDE DEF r
  <2>7. ResultsByHeight => search'.txs = FirstTxs(Len(search'.txs)) /\ Len(search'.txs) <= committed
    BY <1>7, <2>3, <2>5
  <2>8. search'.page # 0 /\ r.kind # "search" /\ r.kind # "subscribe" /\ messages[1].kind # "tx"
    BY <1>1, <2>5, <2>6
  <2> QED BY <2>1, <2>5, <2>6, <2>7, <2>8, RequestNext
<1> QED
  BY <1>8, <1>9

LEMMA SettledKeeps ==
  ASSUME LiveInv, MessageTaken, messages[1].kind # "tx", UNCHANGED <<requests, concat, emitted>>,
         NEW st \in {"resolved", "rejected"}, search' = [search EXCEPT !.state = st]
  PROVE  LiveInv'
<1>1. /\ \A n \in DOMAIN messages' : messages'[n].kind = "tx" /\ n + 1 \in DOMAIN messages /\ messages'[n] = messages[n + 1]
      /\ \A n \in DOMAIN requests : requests[n].kind = "subscribe"
      /\ search.state = "searching"
  BY AnswerTaken
<1>2. messages' \in Seq(LiveMessage) /\ UpdatesInv'
  BY TakenFacts
<1>3. search' \in LiveSearch /\ search'.state = st /\ search'.page = search.page /\ search'.txs = search.txs
  <2>1. search \in LiveSearch
    BY LiveTypes DEF LiveInv
  <2> QED BY <2>1 DEF LiveSearch
<1>4. LiveTypeOK'
  BY <1>2, <1>3 DEF LiveInv, LiveTypeOK, MessageTaken, LiveSearch, Committed
<1>5. SearchInv' /\ OneRequest' /\ OneAnswer'
  BY <1>1, <1>3 DEF LiveInv, SearchInv, OneRequest, OneAnswer
<1>6. WaitingInv' /\ Distinct(emitted') /\ (ResultsByHeight => EmittedInv')
  BY SearchLeaves
<1>7. ASSUME ResultsByHeight' PROVE PagesInv' /\ EmittedInv'
  <2>1. ResultsByHeight /\ UNCHANGED committed
    BY <1>7 DEF ResultsByHeight, MessageTaken
  <2>2. PagesInv
    BY <2>1 DEF LiveInv
  <2>3. PagesInv'
    BY <1>1, <1>3, <2>1, <2>2 DEF PagesInv
  <2> QED BY <1>6, <2>1, <2>3
<1> QED
  BY <1>2, <1>4, <1>5, <1>6, <1>7 DEF LiveInv

(* The parts of the invariant that an update does not disturb. *)
LEMMA UpdateLeaves ==
  ASSUME LiveInv, MessageTaken, messages[1].kind = "tx", UNCHANGED <<requests, search>>
  PROVE  SearchInv' /\ OneRequest' /\ OneAnswer' /\ UpdatesInv' /\ (ResultsByHeight => PagesInv')
<1>1. /\ \A n \in DOMAIN messages' : n \in Nat /\ n + 1 \in DOMAIN messages /\ messages'[n] = messages[n + 1]
      /\ UpdatesInv' /\ search.state # "none"
  BY TakenFacts
<1>2. \A m, n \in Nat : m + 1 = n + 1 => m = n
  OBVIOUS
<1>3. SearchInv'
  BY <1>1 DEF LiveInv, SearchInv
<1>4. OneRequest' /\ OneAnswer'
  BY <1>1, <1>2 DEF LiveInv, OneRequest, OneAnswer
<1>5. ResultsByHeight => PagesInv'
  BY <1>1 DEF LiveInv, PagesInv, MessageTaken, PageEnd
<1> QED
  BY <1>1, <1>3, <1>4, <1>5

LEMMA UpdateIgnored ==
  ASSUME LiveInv, MessageTaken, messages[1].kind = "tx", UNCHANGED <<requests, search, concat, emitted>>
  PROVE  LiveInv'
<1>1. SearchInv' /\ OneRequest' /\ OneAnswer' /\ UpdatesInv' /\ (ResultsByHeight => PagesInv')
  BY UpdateLeaves
<1>2. WaitingInv' /\ Distinct(emitted') /\ (ResultsByHeight => EmittedInv')
  BY SearchLeaves
<1>3. messages' \in Seq(LiveMessage)
  BY TakenFacts
<1>4. LiveTypeOK'
  BY <1>3 DEF LiveInv, LiveTypeOK, MessageTaken, Committed
<1>5. ResultsByHeight' => ResultsByHeight
  BY DEF ResultsByHeight, MessageTaken
<1> QED
  BY <1>1, <1>2, <1>4, <1>5 DEF LiveInv

LEMMA UpdateWaits ==
  ASSUME LiveInv, MessageTaken, messages[1].kind = "tx", UNCHANGED <<requests, search>>,
         concat.status = "running", concat.active = 1, Deliver(ConcatNext(concat, 2, messages[1].tx))
  PROVE  LiveInv'
<1> DEFINE t == messages[1].tx
           c == ConcatNext(concat, 2, t)
           q == concat.queues[2]
<1>1. /\ messages[1] \in LiveMessage /\ 1 \in DOMAIN messages /\ messages' \in Seq(LiveMessage)
      /\ \A n \in DOMAIN messages' : n \in Nat /\ n + 1 \in DOMAIN messages /\ 1 < n + 1 /\ messages'[n] = messages[n + 1]
  BY TakenFacts
<1>2. t \in LiveTxs /\ concat \in LiveConcat /\ LiveTxs \subseteq Nat /\ LiveTypeOK /\ Distinct(emitted) /\ emitted \in Seq(LiveTxs)
  BY <1>1, MessageKinds, LiveTypes DEF LiveInv
<1>3. ~history
  BY DEF LiveInv, WaitingInv
<1>4. /\ concat.active = 1 /\ concat.completed = {} /\ concat.out = <<>> /\ concat.queues[1] = <<>> /\ emitted = <<>>
      /\ Ascending(q) /\ \A k \in DOMAIN q : q[k] <= committed /\ \A n \in DOMAIN messages : messages[n].kind = "tx" => q[k] < messages[n].tx
  BY <1>3 DEF LiveInv, WaitingInv
<1>5. /\ c \in LiveConcat /\ c.queues[1] = concat.queues[1] /\ c.queues[2] = q \o <<t>>
      /\ c.out = concat.out /\ c.active = 1 /\ c.completed = concat.completed /\ c.status = concat.status
  BY <1>2, <1>4, UpdateQueued
<1> HIDE DEF c, t, q
<1>6. concat' = c /\ emitted' = <<>>
  <2> DEFINE none == <<>>
  <2>1. none \in Seq(LiveTxs) /\ concat.out \o none = concat.out
    BY <1>4, EmptySeq, ConcatEmptySeq
  <2>2. c.out = concat.out \o none /\ Deliver(c)
    BY <1>5, <2>1 DEF c, t
  <2>3. DropDuplicates(emitted, none) = <<>>
    BY <1>2, DropNothing
  <2>4. concat' = c /\ emitted' = emitted \o DropDuplicates(emitted, none)
    <3> HIDE DEF none
    <3> QED BY <1>2, <2>1, <2>2, DeliverIs
  <2>5. emitted \o <<>> = emitted
    BY <1>2, ConcatEmptySeq
  <2> QED BY <1>4, <2>3, <2>4, <2>5
<1>7. LiveTypeOK'
  BY <1>1, <1>4, <1>5, <1>6 DEF LiveInv, LiveTypeOK, MessageTaken, LiveConcat, Committed
<1>8. SearchInv' /\ OneRequest' /\ OneAnswer' /\ UpdatesInv' /\ (ResultsByHeight => PagesInv')
  BY UpdateLeaves
<1>9. Distinct(emitted') /\ EmittedInv'
  <2>1. DOMAIN emitted' = {}
    BY <1>6, EmptySeq
  <2> QED BY <2>1 DEF Distinct, EmittedInv, Ascending
<1>10. WaitingInv'
  <2>1. q \in Seq(LiveTxs) /\ q \in Seq(Nat) /\ <<t>> \in Seq(Nat)
    <3>1. q \in Seq(LiveTxs)
      BY <1>2, ConcatFields DEF q
    <3>2. <<t>> \in Seq(Nat)
      BY <1>2
    <3> QED BY <1>2, <3>1, <3>2, SeqGrows
  <2> DEFINE u == <<t>>
             w == q \o u
  <2>2. u \in Seq(Nat) /\ Ascending(u) /\ ToSet(u) = {t} /\ DOMAIN u = {1}
    BY <1>2, <2>1 DEF Ascending, ToSet
  <2> HIDE DEF u
  <2>3. t <= committed /\ committed' = committed /\ \A n \in DOMAIN messages' : messages'[n].kind = "tx" => t < messages'[n].tx
    BY <1>1 DEF LiveInv, UpdatesInv, MessageTaken, t
  <2>4. \A x \in ToSet(q) : x <= committed /\ x < t /\ \A n \in DOMAIN messages' : messages'[n].kind = "tx" => x < messages'[n].tx
    BY <1>1, <1>4 DEF ToSet, t
  <2>5. Ascending(w)
    <3>1. \A x \in ToSet(q), y \in ToSet(u) : x < y
      BY <2>2, <2>4
    <3> QED BY <1>4, <2>1, <2>2, <3>1, AscendingConcat
  <2>6. ToSet(w) = ToSet(q) \cup {t}
    BY <2>1, <2>2, ConcatDistinct
  <2>7. concat'.queues[2] = w
    BY <1>5, <1>6 DEF u
  <2> HIDE DEF w
  <2>8. \A k \in DOMAIN w : w[k] \in ToSet(w)
    BY DEF ToSet
  <2>9. \A k \in DOMAIN w : w[k] <= committed' /\ \A n \in DOMAIN messages' : messages'[n].kind = "tx" => w[k] < messages'[n].tx
    BY <2>3, <2>4, <2>6, <2>8
  <2>10. ~history' /\ concat'.active = 1 /\ concat'.completed = {} /\ concat'.out = <<>> /\ concat'.queues[1] = <<>>
    BY <1>3, <1>4, <1>5, <1>6 DEF MessageTaken
  <2> QED BY <1>6, <2>5, <2>7, <2>9, <2>10 DEF WaitingInv
<1>11. ResultsByHeight' => ResultsByHeight
  BY DEF ResultsByHeight, MessageTaken
<1> QED
  BY <1>7, <1>8, <1>9, <1>10, <1>11 DEF LiveInv

LEMMA UpdateEmitted ==
  ASSUME LiveInv, MessageTaken, messages[1].kind = "tx", UNCHANGED <<requests, search>>,
         concat.status = "running", concat.active = 2, Deliver(ConcatNext(concat, 2, messages[1].tx))
  PROVE  LiveInv'
<1> DEFINE t == messages[1].tx
           c == ConcatNext(concat, 2, t)
           u == <<t>>
<1>1. /\ messages[1] \in LiveMessage /\ 1 \in DOMAIN messages /\ messages' \in Seq(LiveMessage)
      /\ \A n \in DOMAIN messages' : n \in Nat /\ n + 1 \in DOMAIN messages /\ 1 < n + 1 /\ messages'[n] = messages[n + 1]
  BY TakenFacts
<1>2. t \in LiveTxs /\ concat \in LiveConcat /\ LiveTxs \subseteq Nat /\ LiveTypeOK /\ Distinct(emitted) /\ emitted \in Seq(LiveTxs)
  BY <1>1, MessageKinds, LiveTypes DEF LiveInv
<1>3. history
  <2>1. 1 # 2
    OBVIOUS
  <2> QED BY <2>1 DEF LiveInv, WaitingInv
<1>4. c \in LiveConcat /\ c.out = concat.out \o u /\ c.active = 2 /\ c.status = concat.status
  BY <1>2, UpdatePassed
<1>5. u \in Seq(LiveTxs) /\ ToSet(u) = {t} /\ Len(u) = 1
  BY <1>2 DEF ToSet
<1> DEFINE d == DropDuplicates(emitted, u)
<1> HIDE DEF u, t, c
<1>6. /\ concat' = c /\ emitted' = emitted \o d /\ emitted' \in Seq(LiveTxs) /\ Distinct(emitted')
      /\ ToSet(emitted') = ToSet(emitted) \cup {t}
  BY <1>2, <1>4, <1>5, DeliverIs DEF c, t
<1>7. LiveTypeOK'
  BY <1>1, <1>4, <1>6 DEF LiveInv, LiveTypeOK, MessageTaken, LiveConcat, Committed
<1>8. SearchInv' /\ OneRequest' /\ OneAnswer' /\ UpdatesInv' /\ (ResultsByHeight => PagesInv')
  BY UpdateLeaves
<1>9. WaitingInv'
  BY <1>3, <1>4, <1>6 DEF WaitingInv, MessageTaken
<1>10. ASSUME ResultsByHeight' PROVE PagesInv' /\ EmittedInv'
  <2>1. ResultsByHeight
    BY <1>10 DEF ResultsByHeight, MessageTaken
  <2>2. EmittedInv
    BY <2>1 DEF LiveInv
  <2>3. t <= committed /\ committed' = committed /\ \A n \in DOMAIN messages' : messages'[n].kind = "tx" => t < messages'[n].tx
    BY <1>1 DEF LiveInv, UpdatesInv, MessageTaken, t
  <2>4. t \in ToSet(emitted) \/ \A x \in ToSet(emitted) : x < t
    <3>1. t \in ToSet(emitted) \/ \A i \in DOMAIN emitted : emitted[i] < t
      BY <1>1, <2>2 DEF EmittedInv, t
    <3> QED BY <3>1 DEF ToSet
  <2>5. \A i \in DOMAIN emitted' : emitted'[i] \in ToSet(emitted')
    BY DEF ToSet
  <2>6. Ascending(emitted')
    <3>1. emitted \in Seq(Nat) /\ u \in Seq(Nat)
      BY <1>2, <1>5, SeqGrows
    <3>2. Ascending(d)
      <4>1. \A m \in NewOnes(emitted, u) : m = 1
        BY <1>5 DEF NewOnes
      <4>2. \A m, n \in NewOnes(emitted, u) : m < n => u[m] < u[n]
        BY <4>1
      <4> QED BY <3>1, <4>2, DropAscending
    <3>3. d \in Seq(Nat) /\ ToSet(d) = {t} \ ToSet(emitted)
      BY <1>5, <3>1, DropElements
    <3> HIDE DEF d
    <3>4. \A x \in ToSet(emitted), y \in ToSet(d) : x < y
      BY <2>4, <3>3
    <3>5. Ascending(emitted \o d)
      BY <2>2, <3>1, <3>2, <3>3, <3>4, AscendingConcat DEF EmittedInv
    <3> QED BY <1>6, <3>5
  <2>7. \A x \in ToSet(emitted) : x <= committed
    BY <2>2 DEF EmittedInv, ToSet
  <2>8. \A i \in DOMAIN emitted' : emitted'[i] <= committed'
    BY <1>6, <2>3, <2>5, <2>7
  <2>9. ASSUME NEW n \in DOMAIN messages', messages'[n].kind = "tx"
        PROVE  messages'[n].tx \in ToSet(emitted') \/ \A i \in DOMAIN emitted' : emitted'[i] < messages'[n].tx
    <3> DEFINE y == messages'[n].tx
    <3>1. y \in ToSet(emitted) \/ \A i \in DOMAIN emitted : emitted[i] < y
      BY <1>1, <2>2, <2>9 DEF EmittedInv
    <3>2. t < y
      BY <2>3, <2>9
    <3> HIDE DEF y
    <3>3. y \in ToSet(emitted) \/ \A x \in ToSet(emitted) : x < y
      BY <3>1 DEF ToSet
    <3>4. y \in ToSet(emitted') \/ \A i \in DOMAIN emitted' : emitted'[i] < y
      BY <1>6, <2>5, <3>2, <3>3
    <3> QED BY <3>4 DEF y
  <2>10. EmittedInv'
    BY <2>6, <2>8, <2>9 DEF EmittedInv
  <2> QED BY <1>8, <2>1, <2>10
<1> QED
  BY <1>6, <1>7, <1>8, <1>9, <1>10 DEF LiveInv

LEMMA ReceiveKeeps == LiveInv /\ Receive => LiveInv'
<1> SUFFICES ASSUME LiveInv, Receive PROVE LiveInv'
  OBVIOUS
<1> DEFINE m == messages[1]
<1>1. MessageTaken
  BY DEF Receive, MessageTaken
<1>2. Head(messages) = m /\ m \in LiveMessage
  BY <1>1, TakenFacts
<1>3. \/ m.kind = "page" /\ ReceivePage(m) /\ UNCHANGED <<concat, emitted>>
      \/ /\ m.kind \in {"status", "error"}
         /\ search' = [search EXCEPT !.state = IF m.kind = "status" THEN "resolved" ELSE "rejected"]
         /\ UNCHANGED <<requests, concat, emitted>>
      \/ /\ m.kind = "tx"
         /\ IF concat.status = "running" THEN Deliver(ConcatNext(concat, 2, m.tx)) ELSE UNCHANGED <<concat, emitted>>
         /\ UNCHANGED <<requests, search>>
  BY <1>2 DEF Receive
<1>4. CASE m.kind = "page" /\ ReceivePage(m) /\ UNCHANGED <<concat, emitted>>
  BY <1>1, <1>4, PageKeeps
<1>5. CASE /\ m.kind \in {"status", "error"}
           /\ search' = [search EXCEPT !.state = IF m.kind = "status" THEN "resolved" ELSE "rejected"]
           /\ UNCHANGED <<requests, concat, emitted>>
  <2> DEFINE st == IF m.kind = "status" THEN "resolved" ELSE "rejected"
  <2>1. st \in {"resolved", "rejected"} /\ messages[1].kind # "tx"
    BY <1>5
  <2> HIDE DEF st
  <2>2. search' = [search EXCEPT !.state = st]
    BY <1>5 DEF st
  <2> QED BY <1>1, <1>5, <2>1, <2>2, SettledKeeps
<1>6. CASE /\ m.kind = "tx"
           /\ IF concat.status = "running" THEN Deliver(ConcatNext(concat, 2, m.tx)) ELSE UNCHANGED <<concat, emitted>>
           /\ UNCHANGED <<requests, search>>
  <2>1. CASE concat.status # "running"
    BY <1>1, <1>6, <2>1, UpdateIgnored
  <2>2. CASE concat.status = "running"
    <3>1. concat.active = 1 \/ concat.active = 2
      <4>1. concat.active \in 1 .. 2
        BY LiveTypes, ConcatFields DEF LiveInv
      <4> QED BY <4>1
    <3> QED BY <1>1, <1>6, <2>2, <3>1, UpdateWaits, UpdateEmitted
  <2> QED BY <2>1, <2>2
<1> QED
  BY <1>3, <1>4, <1>5, <1>6

(* The search results by height and the updates that waited for them. *)
LEMMA HistoryAscends ==
  ASSUME NEW k \in Nat, NEW u \in Seq(Nat \ {0}), Ascending(u)
  PROVE  Ascending(DropDuplicates(<<>>, FirstTxs(k) \o u))
<1> DEFINE s == FirstTxs(k) \o u
           none == <<>>
<1>1. /\ FirstTxs(k) \in Seq(Nat \ {0}) /\ Len(FirstTxs(k)) = k
      /\ \A i \in 1 .. k : FirstTxs(k)[i] = i
  <2>1. 1 .. k \subseteq Nat \ {0}
    OBVIOUS
  <2> QED BY <2>1, FirstTxsIs
<1>2. /\ s \in Seq(Nat \ {0}) /\ Len(s) = k + Len(u)
      /\ \A n \in 1 .. k : s[n] = n
      /\ \A n \in k + 1 .. k + Len(u) : s[n] = u[n - k]
  <2> DEFINE f == FirstTxs(k)
             T == Nat \ {0}
  <2>0. Len(f) = k /\ \A i \in 1 .. k : f[i] = i
    BY <1>1
  <2>1. f \in Seq(T) /\ u \in Seq(T)
    BY <1>1
  <2> HIDE DEF f, T, s
  <2>2. /\ f \o u \in Seq(T) /\ Len(f \o u) = Len(f) + Len(u)
        /\ \A n \in 1 .. Len(f) : (f \o u)[n] = f[n]
        /\ \A n \in Len(f) + 1 .. Len(f) + Len(u) : (f \o u)[n] = u[n - Len(f)]
    BY <2>1, ConcatEntries
  <2>3. /\ f \o u \in Seq(T) /\ Len(f \o u) = k + Len(u)
        /\ \A n \in 1 .. k : (f \o u)[n] = n
        /\ \A n \in k + 1 .. k + Len(u) : (f \o u)[n] = u[n - k]
    BY <2>0, <2>2
  <2> QED BY <2>3 DEF f, T, s
<1>3. Len(u) \in Nat /\ DOMAIN u = 1 .. Len(u)
  BY LenProperties
<1>4. none \in Seq(Nat) /\ s \in Seq(Nat)
  <2>1. Nat \ {0} \subseteq Nat
    OBVIOUS
  <2> QED BY <1>2, <2>1, EmptySeq, SeqGrows
<1>5. \A n \in 1 .. k + Len(u) : s[n] \in Nat \ {0}
  BY <1>2, ElementOfSeq
<1> HIDE DEF s
<1>6. ASSUME NEW m \in NewOnes(none, s), NEW n \in NewOnes(none, s), m < n
      PROVE  s[m] < s[n]
  <2>1. m \in 1 .. k + Len(u) /\ n \in 1 .. k + Len(u) /\ \A i \in 1 .. n - 1 : s[i] # s[n]
    BY <1>2, <1>6 DEF NewOnes
  <2>2. CASE n <= k
    BY <1>2, <1>6, <2>1, <2>2
  <2>3. CASE m <= k /\ k < n
    <3>1. \A i \in 1 .. k : s[n] # i
      BY <1>2, <2>1, <2>3
    <3>2. s[n] \in Nat \ {0} /\ s[m] = m
      BY <1>2, <1>5, <2>1, <2>3
    <3>3. ~ (s[n] <= k)
      BY <3>1, <3>2
    <3> QED BY <2>1, <2>3, <3>2, <3>3
  <2>4. CASE k < m
    <3>1. s[m] = u[m - k] /\ s[n] = u[n - k] /\ m - k \in DOMAIN u /\ n - k \in DOMAIN u /\ m - k < n - k
      BY <1>2, <1>3, <1>6, <2>1, <2>4
    <3> QED BY <3>1 DEF Ascending
  <2> QED BY <1>3, <2>1, <2>2, <2>3, <2>4
<1>7. Ascending(DropDuplicates(none, s))
  BY <1>4, <1>6, DropAscending
<1> QED
  BY <1>7 DEF s

(* A listener that waits for the search results has been given nothing. *)
LEMMA WaitingIs ==
  ASSUME LiveInv, concat.status = "running", ~history
  PROVE  /\ concat = ConcatRec(concat.queues, {}, 1, <<>>, "running")
         /\ TwoQueues(concat.queues, LiveTxs) /\ concat.queues[1] = <<>> /\ concat.queues[2] \in Seq(LiveTxs)
         /\ concat.out = <<>> /\ emitted = <<>>
<1>1. concat \in LiveConcat
  BY LiveTypes DEF LiveInv
<1>2. concat.active = 1 /\ concat.completed = {} /\ concat.out = <<>> /\ concat.queues[1] = <<>> /\ emitted = <<>>
  BY DEF LiveInv, WaitingInv
<1>3. concat = ConcatRec(concat.queues, concat.completed, concat.active, concat.out, concat.status)
  BY <1>1, ConcatFields
<1>4. concat.queues \in [1 .. 2 -> Seq(LiveTxs)] /\ concat.queues[2] \in Seq(LiveTxs)
  BY <1>1, ConcatFields
<1> QED
  BY <1>2, <1>3, <1>4 DEF TwoQueues

(* Giving the listener the search results, or an error, leaves the search. *)
LEMMA HistoryLeaves ==
  ASSUME LiveInv, UNCHANGED <<nodeVars, search, promised>>, history' = TRUE,
         concat' \in LiveConcat, concat'.status # "stopped",
         concat'.active = 2 \/ concat'.status # "running",
         emitted' \in Seq(LiveTxs), Distinct(emitted'), ResultsByHeight => EmittedInv'
  PROVE  LiveInv'
<1>1. UNCHANGED <<rank, committed, requests, messages, subscribed, search, promised>>
  BY DEF nodeVars
<1>2. LiveTypeOK'
  BY <1>1 DEF LiveInv, LiveTypeOK, LiveConcat, Committed
<1>3. SearchInv' /\ OneRequest' /\ OneAnswer' /\ UpdatesInv'
  BY <1>1 DEF LiveInv, SearchInv, OneRequest, OneAnswer, UpdatesInv
<1>4. WaitingInv'
  BY DEF WaitingInv
<1>5. ResultsByHeight' => ResultsByHeight /\ PagesInv'
  <2>1. ResultsByHeight' => ResultsByHeight
    BY <1>1 DEF ResultsByHeight
  <2>2. ResultsByHeight => PagesInv
    BY DEF LiveInv
  <2>3. PagesInv => PagesInv'
    BY <1>1 DEF PagesInv
  <2> QED BY <2>1, <2>2, <2>3
<1> QED
  BY <1>2, <1>3, <1>4, <1>5 DEF LiveInv

LEMMA HistoryEmitted ==
  ASSUME LiveInv, Undefined \notin LiveTxs, concat.status = "running", ~history, history' = TRUE,
         Deliver(EmitListPromise(concat, 1, search.txs)), UNCHANGED <<nodeVars, search, promised>>
  PROVE  LiveInv'
<1> DEFINE q == concat.queues
           none == <<>>
           h == search.txs
           c == EmitListPromise(concat, 1, h)
           w == q[2]
           x == h \o w
<1>1. /\ concat = ConcatRec(q, {}, 1, none, "running")
      /\ TwoQueues(q, LiveTxs) /\ q[1] = <<>> /\ w \in Seq(LiveTxs) /\ concat.out = none /\ emitted = none
  BY WaitingIs
<1>2. LiveTypeOK /\ Distinct(emitted) /\ search \in LiveSearch /\ LiveTxs \subseteq Nat /\ LiveTxs \subseteq Nat \ {0}
  <2>1. LiveTypeOK /\ Distinct(emitted) /\ search \in LiveSearch /\ LiveTxs \subseteq Nat
    BY LiveTypes DEF LiveInv
  <2> QED BY <2>1 DEF LiveTxs
<1>3. h \in Seq(LiveTxs) /\ none \in Seq(LiveTxs)
  BY <1>2, EmptySeq DEF LiveSearch
<1> HIDE DEF none, h, q
<1>4. /\ TwoQueues(c.queues, LiveTxs) /\ c.completed = {1} /\ c.active = 2 /\ c.status = "running"
      /\ c.out = none \o x
      /\ c = ConcatRec(c.queues, c.completed, c.active, c.out, c.status)
  <2> DEFINE r == ConcatRec(q, {}, 1, none, "running")
             d == EmitListPromise(r, 1, h)
  <2>1. /\ TwoQueues(d.queues, LiveTxs) /\ d.completed = {1} /\ d.active = 2 /\ d.status = "running"
        /\ d.out = none \o (h \o q[2]) /\ d.queues[2] = <<>>
        /\ d = ConcatRec(d.queues, d.completed, d.active, d.out, d.status)
    <3>1. TwoQueues(q, LiveTxs) /\ q[1] = <<>> /\ none \in Seq(LiveTxs) /\ h \in Seq(LiveTxs)
      BY <1>1, <1>3
    <3> HIDE DEF c, w, x
    <3> QED BY ONLY <3>1, Undefined \notin LiveTxs, HistoryIs
  <2> HIDE DEF r
  <2>2. c = d
    BY <1>1 DEF r
  <2> HIDE DEF d, c
  <2> QED BY <2>1, <2>2
<1>5. x \in Seq(LiveTxs) /\ ToSet(x) = ToSet(h) \cup ToSet(w) /\ none \o x = x /\ c.out \in Seq(LiveTxs)
  <2>1. x \in Seq(LiveTxs) /\ ToSet(x) = ToSet(h) \cup ToSet(w)
    BY <1>1, <1>3, ConcatDistinct
  <2>2. none \o x = x
    <3> HIDE DEF x
    <3> QED BY <2>1, ConcatEmptySeq DEF none
  <2> QED BY <1>4, <2>1, <2>2
<1>6. Deliver(c) /\ c.out = concat.out \o x
  BY <1>1, <1>4 DEF h
<1> HIDE DEF c
<1> DEFINE d == DropDuplicates(none, x)
<1>7. /\ concat' = c /\ emitted' = emitted \o DropDuplicates(emitted, x)
      /\ emitted' \in Seq(LiveTxs) /\ Distinct(emitted') /\ ToSet(emitted') = ToSet(emitted) \cup ToSet(x)
  <2> HIDE DEF x
  <2> QED BY <1>2, <1>5, <1>6, DeliverIs
<1>8. emitted' = d /\ ToSet(emitted') = ToSet(h) \cup ToSet(w)
  <2>1. d \in Seq(LiveTxs) /\ ToSet(none) = {}
    <3>1. d \in Seq(LiveTxs)
      <4> HIDE DEF x
      <4> QED BY <1>3, <1>5, DropElements
    <3>2. ToSet(none) = {}
      BY DEF none, ToSet
    <3> QED BY <3>1, <3>2
  <2>2. none \o d = d
    <3> HIDE DEF d
    <3> QED BY <2>1, ConcatEmptySeq DEF none
  <2> QED BY <1>1, <1>5, <1>7, <2>1, <2>2
<1>9. c \in LiveConcat
  <2> DEFINE r == c.queues
             o == c.out
  <2>1. r \in [1 .. 2 -> Seq(LiveTxs)] /\ o \in Seq(LiveTxs)
    BY <1>4, <1>5 DEF TwoQueues
  <2>2. c = ConcatRec(r, {1}, 2, o, "running")
    BY <1>4
  <2> HIDE DEF r, o
  <2>3. {1} \in SUBSET (1 .. 2) /\ 2 \in 1 .. 2
    OBVIOUS
  <2> QED BY <2>1, <2>2, <2>3 DEF LiveConcat, ConcatRec
<1>10. ASSUME ResultsByHeight PROVE EmittedInv'
  <2> DEFINE k == Len(h)
  <2>1. h = FirstTxs(k) /\ k <= committed /\ k \in Nat
    <3>1. PagesInv
      BY <1>10 DEF LiveInv
    <3>2. k \in Nat
      BY <1>3, LenProperties
    <3> QED BY <3>1, <3>2 DEF PagesInv, h
  <2> HIDE DEF k
  <2>2. ToSet(h) = 1 .. k
    <3>1. 1 .. k \subseteq Nat
      BY <2>1
    <3>2. FirstTxs(k) \in Seq(Nat) /\ Len(FirstTxs(k)) = k /\ \A i \in 1 .. k : FirstTxs(k)[i] = i
      BY <2>1, <3>1, FirstTxsIs
    <3>3. DOMAIN h = 1 .. k /\ \A i \in 1 .. k : h[i] = i
      BY <2>1, <3>2, LenProperties
    <3> QED BY <3>3 DEF ToSet
  <2>3. Ascending(w) /\ \A y \in ToSet(w) : y <= committed /\ \A n \in DOMAIN messages : messages[n].kind = "tx" => y < messages[n].tx
    BY DEF LiveInv, WaitingInv, q, ToSet
  <2>4. Ascending(emitted')
    <3>1. w \in Seq(Nat \ {0})
      BY <1>1, <1>2, SeqGrows
    <3> HIDE DEF w
    <3>2. Ascending(DropDuplicates(<<>>, FirstTxs(k) \o w))
      BY <2>1, <2>3, <3>1, HistoryAscends
    <3> QED BY <1>8, <2>1, <3>2 DEF none
  <2>5. \A i \in DOMAIN emitted' : emitted'[i] \in ToSet(emitted')
    BY DEF ToSet
  <2>6. committed \in Nat /\ committed' = committed /\ messages' = messages
    BY <1>2, LiveTypes DEF nodeVars
  <2>7. \A i \in DOMAIN emitted' : emitted'[i] \in 1 .. k \/ emitted'[i] \in ToSet(w)
    BY <1>8, <2>2, <2>5
  <2>8. \A i \in DOMAIN emitted' : emitted'[i] <= committed'
    BY <2>1, <2>3, <2>6, <2>7
  <2>9. ASSUME NEW n \in DOMAIN messages, messages[n].kind = "tx"
        PROVE  messages[n].tx \in ToSet(emitted') \/ \A i \in DOMAIN emitted' : emitted'[i] < messages[n].tx
    <3> DEFINE y == messages[n].tx
    <3>1. y \in Nat \ {0}
      <4>1. messages[n] \in LiveMessage
        BY <1>2, <2>9, LiveTypes, ElementOfSeq
      <4> QED BY <1>2, <2>9, <4>1, MessageKinds
    <3>2. \A z \in ToSet(w) : z < y
      BY <2>3, <2>9
    <3> HIDE DEF y
    <3>3. CASE y <= k
      BY <1>8, <2>1, <2>2, <3>1, <3>3 DEF y
    <3>4. CASE k < y
      <4>1. \A i \in DOMAIN emitted' : emitted'[i] < y
        BY <2>1, <2>7, <3>1, <3>2, <3>4
      <4> QED BY <4>1 DEF y
    <3> QED BY <2>1, <3>1, <3>3, <3>4
  <2> QED BY <2>4, <2>6, <2>8, <2>9 DEF EmittedInv
<1>11. concat' \in LiveConcat /\ concat'.active = 2 /\ concat'.status # "stopped"
  BY <1>4, <1>7, <1>9
<1> HIDE DEF d, x
<1> QED
  BY <1>7, <1>10, <1>11, HistoryLeaves

LEMMA HistoryFails ==
  ASSUME LiveInv, concat.status = "running", ~history, history' = TRUE,
         Deliver(ConcatError(concat)), UNCHANGED <<nodeVars, search, promised>>
  PROVE  LiveInv'
<1> DEFINE none == <<>>
           q == concat.queues
           r == [i \in DOMAIN q |-> <<>>]
           c == ConcatError(concat)
<1>1. concat = ConcatRec(q, {}, 1, none, "running") /\ TwoQueues(q, LiveTxs) /\ concat.out = none /\ emitted = none
  BY WaitingIs
<1>2. c = ConcatRec(r, {}, 1, none, "failed")
  <2> HIDE DEF q
  <2>1. c = [concat EXCEPT !.queues = [i \in DOMAIN @ |-> <<>>], !.completed = {}, !.active = 1, !.status = "failed"]
    BY DEF ConcatError, Reset
  <2>2. concat = [queues |-> q, completed |-> {}, active |-> 1, out |-> none, status |-> "running"]
    BY <1>1 DEF ConcatRec
  <2> HIDE DEF none
  <2>3. c = [queues |-> r, completed |-> {}, active |-> 1, out |-> none, status |-> "failed"]
    BY <2>1, <2>2
  <2> QED BY <2>3 DEF ConcatRec
<1>3. r \in [1 .. 2 -> Seq(LiveTxs)] /\ none \in Seq(LiveTxs) /\ none \o none = none
  <2>1. DOMAIN q = 1 .. 2
    BY <1>1 DEF TwoQueues
  <2>2. none \in Seq(LiveTxs)
    BY EmptySeq
  <2>3. none \o none = none
    BY <2>2, ConcatEmptySeq
  <2> QED BY <2>1, <2>2, <2>3
<1> HIDE DEF none, r, q
<1>4. c \in LiveConcat /\ c.out = none /\ c.status = "failed"
  <2>1. {} \in SUBSET (1 .. 2) /\ 1 \in 1 .. 2
    OBVIOUS
  <2>2. c = [queues |-> r, completed |-> {}, active |-> 1, out |-> none, status |-> "failed"]
    BY <1>2 DEF ConcatRec
  <2> HIDE DEF c
  <2> QED BY <1>3, <2>1, <2>2 DEF LiveConcat
<1>5. LiveTypeOK /\ Distinct(emitted)
  BY DEF LiveInv
<1> HIDE DEF c
<1>6. concat' = c /\ emitted' = emitted \o DropDuplicates(emitted, none) /\ emitted' \in Seq(LiveTxs) /\ Distinct(emitted')
  <2>1. Deliver(c) /\ c.out = concat.out \o none
    BY <1>1, <1>3, <1>4 DEF c
  <2> QED BY <1>3, <1>5, <2>1, DeliverIs
<1>7. DropDuplicates(none, none) = none
  BY <1>3, DropNothing DEF none
<1>8. DOMAIN emitted' = {}
  <2>1. emitted' = none
    BY <1>1, <1>3, <1>6, <1>7
  <2> QED BY <2>1 DEF none
<1>9. EmittedInv'
  BY <1>8 DEF EmittedInv, Ascending
<1> QED
  BY <1>4, <1>6, <1>9, HistoryLeaves

LEMMA DeliverHistoryKeeps ==
  ASSUME Undefined \notin LiveTxs, LiveInv, DeliverHistory
  PROVE  LiveInv'
<1>1. CASE search.state = "resolved"
  BY <1>1, HistoryEmitted DEF DeliverHistory
<1>2. CASE search.state # "resolved"
  BY <1>2, HistoryFails DEF DeliverHistory
<1> QED
  BY <1>1, <1>2

LEMMA LiveStep ==
  ASSUME Undefined \notin LiveTxs, LiveInv, [LiveNext]_liveVars
  PROVE  LiveInv'
<1>1. CASE UNCHANGED liveVars
  BY <1>1 DEF liveVars, nodeVars, LiveInv, LiveTypeOK, SearchInv, OneRequest, OneAnswer, UpdatesInv, WaitingInv,
              Distinct, ResultsByHeight, PagesInv, EmittedInv, Committed
<1>2. CASE LiveNext
  BY <1>2, CallLiveTxKeeps, ListenLiveKeeps, DeliverHistoryKeeps, ReceiveKeeps, NodeHandlesKeeps, NodeCommitsKeeps
     DEF LiveNext
<1> QED
  BY <1>1, <1>2

(* The queues, the search and the stream of liveTx() have their types: the  *)
(* client asks for pages from 1 on, and the node sends transactions of the  *)
(* chain.  A transaction is never the value `undefined`.                    *)
THEOREM LiveTypeCorrect ==
  ASSUME Undefined \notin LiveTxs
  PROVE  LiveSpec => []LiveTypeOK
<1>1. LiveInv => LiveTypeOK
  BY DEF LiveInv
<1> QED
  BY LiveInitially, LiveStep, <1>1, PTL DEF LiveSpec

(* BnsConnection.liveTx() gives a transaction to its listener once, and in  *)
(* the order of the chain when the node sorts the search results by height, *)
(* for every page size, every length of the chain and every interleaving of *)
(* pages, updates and commits.                                              *)
THEOREM LiveTxOnceInOrder ==
  ASSUME Undefined \notin LiveTxs
  PROVE  LiveSpec => []EmittedOnceInOrder
<1>1. LiveInv => EmittedOnceInOrder
  BY DEF LiveInv, EmittedOnceInOrder, Distinct, IsInjective, ResultsByHeight, EmittedInv, Ascending
<1> QED
  BY LiveInitially, LiveStep, <1>1, PTL DEF LiveSpec

-----------------------------------------------------------------------------
(* The streams together (MCStreams). *)

(* A step of one stream is a step or a stutter of every stream. *)
LEMMA StreamsStep ==
  ASSUME [AllNext]_allVars
  PROVE  /\ [StreamNext]_streamVars /\ [SwapNext]_swapVars /\ [LiveNext]_liveVars /\ [PostNext]_postVars
         /\ [WatchNext]_watchVars /\ [FeedNext]_feedVars /\ [HeadNext]_headVars /\ [SwapLogNext]_swapLogVars
<1>1. CASE UNCHANGED allVars
  BY <1>1 DEF allVars
<1>2. CASE AllNext
  BY <1>2 DEF AllNext
<1> QED
  BY <1>1, <1>2

(* The composition adds nothing to a stream: a behaviour of AllSpec is, for  *)
(* the variables of each stream, a behaviour of the specification of that    *)
(* stream, so what is proved of one holds in the composition.                *)
THEOREM StreamsAreIndependent ==
  AllSpec => StreamSpec /\ SwapSpec /\ LiveSpec /\ PostSpec /\ WatchSpec /\ FeedSpec /\ HeadSpec /\ SwapLogSpec
<1>1. AllInit => StreamInit /\ SwapInit /\ LiveInit /\ PostInit /\ WatchInit /\ FeedInit /\ HeadInit /\ SwapLogInit
  BY DEF AllInit
<1>2. [AllNext]_allVars =>
        /\ [StreamNext]_streamVars /\ [SwapNext]_swapVars /\ [LiveNext]_liveVars /\ [PostNext]_postVars
        /\ [WatchNext]_watchVars /\ [FeedNext]_feedVars /\ [HeadNext]_headVars /\ [SwapLogNext]_swapLogVars
  BY StreamsStep
<1> QED
  BY <1>1, <1>2, PTL DEF AllSpec, StreamSpec, SwapSpec, LiveSpec, PostSpec, WatchSpec, FeedSpec, HeadSpec, SwapLogSpec

(* A producer that was stopped leaves nothing behind, for any number of      *)
(* listeners, starts, polls and failures: no interval and no subscription of *)
(* postTx(), no timer of watchAccount() on Lisk, and at the node no newHeads *)
(* subscription of a start that was stopped after its ID had arrived.        *)
THEOREM NothingEverStaysBehind == AllSpec => []NothingStaysBehind
<1>1. StopReleases /\ TimersStop /\ HeadsUnsubscribed => NothingStaysBehind
  BY DEF NothingStaysBehind
<1> QED
  BY <1>1, StreamsAreIndependent, StopAlwaysReleases, WatchTimersStop, HeadsAlwaysUnsubscribed, PTL

=============================================================================
