----------------------------- MODULE SwapsProofs ----------------------------
(***************************************************************************)
(* Proofs about the lists of atomic swaps that the connections give:       *)
(* AtomicSwapMerger with watchSwaps() and getSwaps() of BNS, and getSwaps() *)
(* of Ethereum, for any number of swaps, transactions and pages.           *)
(***************************************************************************)
EXTENDS AtomicSwaps, SwapLogs, ProducerProofs

-----------------------------------------------------------------------------
(* Recursive functions, sublists (Sublists), FlattenSeq and pages (TxSearch). *)

(* What holds of 0 and passes on to the next number holds up to the end. *)
LEMMA UpToTheEnd ==
  ASSUME NEW last \in Nat, NEW S, 0 \in S, \A k \in 0 .. last - 1 : k \in S => k + 1 \in S
  PROVE  \A k \in 0 .. last : k \in S
<1> DEFINE B == {k \in 0 .. last : \A j \in 0 .. k : j \in S}
           m == Max(B)
<1>1. B \subseteq Nat /\ 0 \in B /\ \A x \in B : x <= last
  OBVIOUS
<1>2. m \in B /\ \A x \in B : x <= m
  <2>1. B # {}
    BY <1>1
  <2> QED BY <1>1, <2>1, MaxOfBounded
<1> HIDE DEF m
<1>3. m = last
  <2> SUFFICES ASSUME m # last PROVE FALSE
    OBVIOUS
  <2>1. m \in 0 .. last - 1 /\ m \in S /\ m \in Nat
    BY <1>2
  <2>2. m + 1 \in S /\ m + 1 \in 0 .. last
    BY <2>1
  <2>3. m + 1 \in B
    BY <1>2, <2>1, <2>2
  <2>4. m + 1 <= m
    BY <1>2, <2>3
  <2> QED BY <2>1, <2>4
<1> QED
  BY <1>2, <1>3

(* A function may be defined by recursion on the first numbers. *)
StepFunctions(T, last) == [T \X (1 .. last) -> T]
Recurs(f, T, base, g, last) ==
  f \in [0 .. last -> T] /\ f[0] = base /\ \A n \in 1 .. last : f[n] = g[<<f[n - 1], n>>]

LEMMA Recursion ==
  ASSUME NEW last \in Nat, NEW T, NEW base \in T, NEW g \in StepFunctions(T, last)
  PROVE  \E f : Recurs(f, T, base, g, last)
<1> USE DEF StepFunctions
<1> DEFINE Solves(f, k) == f[0] = base /\ \A n \in 1 .. k : f[n] = g[<<f[n - 1], n>>]
           P == {k \in 0 .. last : \E f \in [0 .. k -> T] : Solves(f, k)}
<1>1. 0 \in P
  <2>1. [i \in 0 .. 0 |-> base] \in [0 .. 0 -> T] /\ Solves([i \in 0 .. 0 |-> base], 0)
    OBVIOUS
  <2>2. 0 \in 0 .. last
    OBVIOUS
  <2> HIDE DEF Solves
  <2> QED BY <2>1, <2>2
<1>2. ASSUME NEW k \in 0 .. last - 1, k \in P PROVE k + 1 \in P
  <2>1. PICK f \in [0 .. k -> T] : Solves(f, k)
    BY <1>2
  <2> DEFINE next == g[<<f[k], k + 1>>]
             h == [i \in 0 .. k + 1 |-> IF i <= k THEN f[i] ELSE next]
  <2>2. next \in T
    <3>1. f[k] \in T /\ k + 1 \in 1 .. last
      OBVIOUS
    <3> QED BY <3>1
  <2>3. h \in [0 .. k + 1 -> T]
    BY <2>2
  <2>4. h[0] = base /\ h[k + 1] = next /\ \A i \in 0 .. k : h[i] = f[i]
    BY <2>1
  <2> HIDE DEF h, next
  <2>5. ASSUME NEW n \in 1 .. k + 1 PROVE h[n] = g[<<h[n - 1], n>>]
    <3>1. CASE n = k + 1
      <4>1. n - 1 = k /\ k \in 0 .. k
        BY <3>1
      <4> QED BY <2>4, <3>1, <4>1 DEF next
    <3>2. CASE n # k + 1
      <4>1. n \in 1 .. k /\ n \in 0 .. k /\ n - 1 \in 0 .. k
        BY <3>2
      <4> QED BY <2>1, <2>4, <4>1
    <3> QED BY <3>1, <3>2
  <2>6. k + 1 \in 0 .. last
    OBVIOUS
  <2> QED BY <2>3, <2>4, <2>5, <2>6
<1>3. last \in P
  <2> HIDE DEF P
  <2>1. \A k \in 0 .. last : k \in P
    BY <1>1, <1>2, UpToTheEnd
  <2> QED BY <2>1
<1> QED
  BY <1>3 DEF Recurs

(* Positions(s, S, u, n, h): u has the elements of S among the first n of s, *)
(* u[i] being the one at h[i].                                               *)
Positions(s, S, u, n, h) ==
  /\ h \in [1 .. Len(u) -> 1 .. n]
  /\ \A i, j \in 1 .. Len(u) : i < j => h[i] < h[j]
  /\ \A i \in 1 .. Len(u) : u[i] = s[h[i]] /\ s[h[i]] \in S
  /\ \A m \in 1 .. n : s[m] \in S => \E i \in 1 .. Len(u) : h[i] = m

(* Those(s, S) has exactly the elements of s that are in S, in their order. *)
LEMMA ThosePositions ==
  ASSUME NEW T, NEW s \in Seq(T), NEW S
  PROVE  Those(s, S) \in Seq(T) /\ \E h : Positions(s, S, Those(s, S), Len(s), h)
<1> DEFINE L == Len(s)
           Step(u, n) == IF s[n] \in S THEN Append(u, s[n]) ELSE u
           IsUpTo(f) == f = [n \in 0 .. L |-> IF n = 0 THEN <<>> ELSE Step(f[n - 1], n)]
           upTo == CHOOSE f : IsUpTo(f)
<1>1. L \in Nat /\ \A n \in 1 .. L : s[n] \in T
  BY LenProperties, ElementOfSeq
<1>2. Those(s, S) = upTo[L]
  BY DEF Those
<1>3. \E f : IsUpTo(f)
  <2> DEFINE g == [x \in Seq(T) \X (1 .. L) |-> Step(x[1], x[2])]
  <2>1. g \in [Seq(T) \X (1 .. L) -> Seq(T)]
    BY <1>1, AppendProperties
  <2>2. \A u \in Seq(T), n \in 1 .. L : g[<<u, n>>] = Step(u, n)
    OBVIOUS
  <2> DEFINE empty == <<>>
  <2>3. empty \in Seq(T)
    BY EmptySeq
  <2> HIDE DEF g, Step, L, empty
  <2>4. PICK f \in [0 .. L -> Seq(T)] : f[0] = empty /\ \A n \in 1 .. L : f[n] = g[<<f[n - 1], n>>]
    <3>1. L \in Nat /\ g \in StepFunctions(Seq(T), L)
      BY <1>1, <2>1 DEF StepFunctions
    <3>2. \E f : Recurs(f, Seq(T), empty, g, L)
      BY <2>3, <3>1, Recursion
    <3> QED BY <3>2 DEF Recurs
  <2>5. \A n \in 1 .. L : f[n - 1] \in Seq(T)
    BY <1>1, <2>4
  <2>6. \A n \in 1 .. L : f[n] = Step(f[n - 1], n)
    BY <2>2, <2>4, <2>5
  <2>7. f = [n \in 0 .. L |-> IF n = 0 THEN empty ELSE Step(f[n - 1], n)]
    <3>1. \A n \in 0 .. L : n # 0 => n \in 1 .. L
      BY <1>1
    <3> QED BY <2>4, <2>6, <3>1
  <2>8. IsUpTo(f)
    BY <2>7 DEF empty
  <2> QED BY <2>8
<1>4. IsUpTo(upTo)
  BY <1>3
<1> HIDE DEF upTo
<1>5. upTo[0] = <<>> /\ \A n \in 1 .. L : upTo[n] = Step(upTo[n - 1], n)
  <2>1. upTo = [n \in 0 .. L |-> IF n = 0 THEN <<>> ELSE Step(upTo[n - 1], n)]
    BY <1>4
  <2>2. 0 \in 0 .. L /\ \A n \in 1 .. L : n \in 0 .. L /\ n # 0
    BY <1>1
  <2> HIDE DEF L, Step
  <2>3. \A n \in 0 .. L : upTo[n] = IF n = 0 THEN <<>> ELSE Step(upTo[n - 1], n)
    BY <2>1
  <2> QED BY <2>2, <2>3
<1> DEFINE Good(n) == upTo[n] \in Seq(T) /\ \E h : Positions(s, S, upTo[n], n, h)
           P == {n \in 0 .. L : Good(n)}
<1>6. Good(0)
  <2>1. upTo[0] \in Seq(T) /\ Len(upTo[0]) = 0
    BY <1>5, EmptySeq
  <2>2. Positions(s, S, upTo[0], 0, [i \in 1 .. 0 |-> 0])
    BY <2>1 DEF Positions
  <2> QED BY <2>1, <2>2
<1>7. ASSUME NEW k \in 0 .. L - 1, Good(k) PROVE Good(k + 1)
  <2> DEFINE u == upTo[k]
             v == upTo[k + 1]
  <2>1. u \in Seq(T) /\ Len(u) \in Nat
    BY <1>7, LenProperties
  <2>2. PICK h : Positions(s, S, u, k, h)
    BY <1>7
  <2>3. v = Step(u, k + 1) /\ k + 1 \in 1 .. L
    <3>1. k + 1 \in 1 .. L /\ (k + 1) - 1 = k
      BY <1>1
    <3> QED BY <1>5, <3>1
  <2> HIDE DEF u, v
  <2>4. CASE s[k + 1] \notin S
    <3>1. v = u
      BY <2>3, <2>4
    <3>2. Positions(s, S, u, k + 1, h)
      <4>1. /\ h \in [1 .. Len(u) -> 1 .. k]
            /\ \A i, j \in 1 .. Len(u) : i < j => h[i] < h[j]
            /\ \A i \in 1 .. Len(u) : u[i] = s[h[i]] /\ s[h[i]] \in S
            /\ \A m \in 1 .. k : s[m] \in S => \E i \in 1 .. Len(u) : h[i] = m
        BY <2>2 DEF Positions
      <4>2. 1 .. k \subseteq 1 .. k + 1 /\ \A m \in 1 .. k + 1 : m \in 1 .. k \/ m = k + 1
        OBVIOUS
      <4>3. h \in [1 .. Len(u) -> 1 .. k + 1]
        BY <4>1, <4>2
      <4> QED BY <2>4, <4>1, <4>2, <4>3 DEF Positions
    <3> QED BY <2>1, <3>1, <3>2 DEF v
  <2>5. CASE s[k + 1] \in S
    <3>1. v = Append(u, s[k + 1]) /\ s[k + 1] \in T
      BY <1>1, <2>3, <2>5
    <3>2. /\ v \in Seq(T) /\ Len(v) = Len(u) + 1 /\ v[Len(u) + 1] = s[k + 1]
          /\ \A i \in 1 .. Len(u) : v[i] = u[i]
      BY <2>1, <3>1, AppendProperties
    <3> DEFINE h2 == [i \in 1 .. Len(u) + 1 |-> IF i <= Len(u) THEN h[i] ELSE k + 1]
    <3>3. /\ h \in [1 .. Len(u) -> 1 .. k]
          /\ \A i, j \in 1 .. Len(u) : i < j => h[i] < h[j]
          /\ \A i \in 1 .. Len(u) : u[i] = s[h[i]] /\ s[h[i]] \in S
          /\ \A m \in 1 .. k : s[m] \in S => \E i \in 1 .. Len(u) : h[i] = m
      BY <2>2 DEF Positions
    <3>4. /\ h2 \in [1 .. Len(u) + 1 -> 1 .. k + 1] /\ h2[Len(u) + 1] = k + 1
          /\ \A i \in 1 .. Len(u) : h2[i] = h[i] /\ h2[i] \in 1 .. k
      <4>1. \A i \in 1 .. Len(u) + 1 : IF i <= Len(u) THEN i \in 1 .. Len(u) ELSE i = Len(u) + 1
        BY <2>1
      <4>2. \A i \in 1 .. Len(u) : i \in 1 .. Len(u) + 1 /\ i <= Len(u)
        BY <2>1
      <4>3. Len(u) + 1 \in 1 .. Len(u) + 1 /\ ~(Len(u) + 1 <= Len(u))
        BY <2>1
      <4>4. 1 .. k \subseteq 1 .. k + 1 /\ k + 1 \in 1 .. k + 1
        OBVIOUS
      <4>5. \A i \in 1 .. Len(u) : h[i] \in 1 .. k
        BY <3>3
      <4>6. h2 \in [1 .. Len(u) + 1 -> 1 .. k + 1]
        BY <4>1, <4>4, <4>5
      <4> QED BY <4>2, <4>3, <4>5, <4>6
    <3> HIDE DEF h2
    <3>5. \A i \in 1 .. Len(u) + 1 : i \in 1 .. Len(u) \/ i = Len(u) + 1
      BY <2>1
    <3>6. 1 .. Len(u) \subseteq 1 .. Len(u) + 1 /\ Len(u) + 1 \in 1 .. Len(u) + 1
      BY <2>1
    <3>7. \A i, j \in 1 .. Len(u) + 1 : i < j => h2[i] < h2[j]
      <4> SUFFICES ASSUME NEW i \in 1 .. Len(u) + 1, NEW j \in 1 .. Len(u) + 1, i < j PROVE h2[i] < h2[j]
        OBVIOUS
      <4>1. i \in 1 .. Len(u)
        BY <2>1
      <4>2. CASE j = Len(u) + 1
        BY <3>4, <4>1, <4>2
      <4>3. CASE j # Len(u) + 1
        BY <3>3, <3>4, <3>5, <4>1, <4>3
      <4> QED BY <4>2, <4>3
    <3>8. \A i \in 1 .. Len(u) + 1 : v[i] = s[h2[i]] /\ s[h2[i]] \in S
      BY <2>5, <3>2, <3>3, <3>4, <3>5
    <3>9. \A m \in 1 .. k + 1 : s[m] \in S => \E i \in 1 .. Len(u) + 1 : h2[i] = m
      <4>1. \A m \in 1 .. k + 1 : m \in 1 .. k \/ m = k + 1
        OBVIOUS
      <4> QED BY <3>3, <3>4, <3>6, <4>1
    <3>10. Positions(s, S, v, k + 1, h2)
      BY <3>2, <3>4, <3>7, <3>8, <3>9 DEF Positions
    <3> QED BY <3>2, <3>10 DEF v
  <2> QED BY <2>4, <2>5
<1>8. L \in P
  <2>1. 0 \in P
    BY <1>1, <1>6
  <2>2. \A k \in 0 .. L - 1 : k \in P => k + 1 \in P
    <3>1. \A k \in 0 .. L - 1 : k + 1 \in 0 .. L
      BY <1>1
    <3> QED BY <1>7, <3>1
  <2> HIDE DEF P
  <2>3. \A k \in 0 .. L : k \in P
    BY <1>1, <2>1, <2>2, UpToTheEnd
  <2> QED BY <1>1, <2>3
<1> QED
  BY <1>2, <1>8
Distinct(s) == \A i, j \in DOMAIN s : s[i] = s[j] => i = j

(* Those(s, S) as a set, and that it repeats nothing. *)
LEMMA ThoseElements ==
  ASSUME NEW T, NEW s \in Seq(T), NEW S
  PROVE  /\ Those(s, S) \in Seq(T) /\ ToSet(Those(s, S)) = ToSet(s) \cap S
         /\ Distinct(s) => Distinct(Those(s, S))
<1> DEFINE u == Those(s, S)
<1>1. u \in Seq(T) /\ DOMAIN u = 1 .. Len(u) /\ DOMAIN s = 1 .. Len(s) /\ Len(u) \in Nat
  BY ThosePositions, LenProperties
<1>2. PICK h : Positions(s, S, u, Len(s), h)
  BY ThosePositions
<1> HIDE DEF u
<1>3. /\ h \in [1 .. Len(u) -> 1 .. Len(s)]
      /\ \A i, j \in 1 .. Len(u) : i < j => h[i] < h[j]
      /\ \A i \in 1 .. Len(u) : u[i] = s[h[i]] /\ s[h[i]] \in S
      /\ \A m \in 1 .. Len(s) : s[m] \in S => \E i \in 1 .. Len(u) : h[i] = m
  BY <1>2 DEF Positions
<1>4. ToSet(u) = ToSet(s) \cap S
  <2>1. \A i \in DOMAIN u : u[i] \in S /\ \E m \in DOMAIN s : u[i] = s[m]
    BY <1>1, <1>3
  <2>2. \A m \in DOMAIN s : s[m] \in S => \E i \in DOMAIN u : u[i] = s[m]
    BY <1>1, <1>3
  <2> QED BY <2>1, <2>2 DEF ToSet
<1>5. ASSUME Distinct(s) PROVE Distinct(u)
  <2> SUFFICES ASSUME NEW i \in 1 .. Len(u), NEW j \in 1 .. Len(u), u[i] = u[j] PROVE i = j
    BY <1>1 DEF Distinct
  <2>1. h[i] = h[j] /\ h[i] \in 1 .. Len(s)
    BY <1>1, <1>3, <1>5 DEF Distinct
  <2>2. ~(i < j) /\ ~(j < i)
    <3>1. h[i] \in Int /\ ~(h[i] < h[i])
      BY <2>1
    <3> QED BY <1>3, <2>1, <3>1
  <2> QED BY <1>1, <2>2
<1> QED
  BY <1>1, <1>4, <1>5 DEF u

(* Two sequences without repetition and without a common element. *)
LEMMA ConcatDistinct ==
  ASSUME NEW T, NEW s \in Seq(T), NEW u \in Seq(T)
  PROVE  /\ s \o u \in Seq(T) /\ ToSet(s \o u) = ToSet(s) \cup ToSet(u)
         /\ Distinct(s) /\ Distinct(u) /\ ToSet(s) \cap ToSet(u) = {} => Distinct(s \o u)
<1> DEFINE c == s \o u
<1>1. /\ c \in Seq(T) /\ DOMAIN c = 1 .. Len(s) + Len(u)
      /\ \A n \in 1 .. Len(s) : c[n] = s[n]
      /\ \A n \in Len(s) + 1 .. Len(s) + Len(u) : c[n] = u[n - Len(s)]
  BY ConcatEntries
<1>2. Len(s) \in Nat /\ Len(u) \in Nat /\ DOMAIN s = 1 .. Len(s) /\ DOMAIN u = 1 .. Len(u)
  BY LenProperties
<1> HIDE DEF c
<1>3. \A n \in DOMAIN c : \/ n \in DOMAIN s /\ c[n] = s[n]
                          \/ n - Len(s) \in DOMAIN u /\ c[n] = u[n - Len(s)]
  <2> SUFFICES ASSUME NEW n \in DOMAIN c, n \notin DOMAIN s
               PROVE  n - Len(s) \in DOMAIN u /\ c[n] = u[n - Len(s)]
    BY <1>1, <1>2
  <2>1. n \in Len(s) + 1 .. Len(s) + Len(u) /\ n - Len(s) \in 1 .. Len(u)
    BY <1>1, <1>2
  <2> QED BY <1>1, <1>2, <2>1
<1>4. \A n \in DOMAIN s : n \in DOMAIN c /\ c[n] = s[n]
  BY <1>1, <1>2
<1>5. \A n \in DOMAIN u : n + Len(s) \in DOMAIN c /\ c[n + Len(s)] = u[n]
  <2> SUFFICES ASSUME NEW n \in DOMAIN u PROVE n + Len(s) \in DOMAIN c /\ c[n + Len(s)] = u[n]
    OBVIOUS
  <2>1. n + Len(s) \in Len(s) + 1 .. Len(s) + Len(u) /\ (n + Len(s)) - Len(s) = n /\ n + Len(s) \in 1 .. Len(s) + Len(u)
    BY <1>2
  <2> QED BY <1>1, <2>1
<1>6. ToSet(c) = ToSet(s) \cup ToSet(u)
  BY <1>3, <1>4, <1>5 DEF ToSet
<1>7. ASSUME Distinct(s), Distinct(u), ToSet(s) \cap ToSet(u) = {} PROVE Distinct(c)
  <2> SUFFICES ASSUME NEW i \in DOMAIN c, NEW j \in DOMAIN c, c[i] = c[j] PROVE i = j
    BY DEF Distinct
  <2>1. i \in Int /\ j \in Int
    BY <1>1, <1>2
  <2>2. CASE i \in DOMAIN s /\ c[i] = s[i] /\ j \in DOMAIN s /\ c[j] = s[j]
    BY <1>7, <2>2 DEF Distinct
  <2>3. CASE i - Len(s) \in DOMAIN u /\ c[i] = u[i - Len(s)] /\ j - Len(s) \in DOMAIN u /\ c[j] = u[j - Len(s)]
    <3>1. i - Len(s) = j - Len(s)
      BY <1>7, <2>3 DEF Distinct
    <3> QED BY <1>2, <2>1, <3>1
  <2>4. \A m \in DOMAIN s, n \in DOMAIN u : s[m] # u[n]
    BY <1>7 DEF ToSet
  <2> QED BY <1>3, <2>2, <2>3, <2>4
<1> QED
  BY <1>1, <1>6, <1>7 DEF c

(* The values of the first n sequences of s, one after the other. *)
Flat(s, n) == FlattenSeq(SubSeq(s, 1, n))

LEMMA FirstOfSeq ==
  ASSUME NEW T, NEW s \in Seq(T), NEW n \in 0 .. Len(s)
  PROVE  /\ SubSeq(s, 1, n) \in Seq(T) /\ Len(SubSeq(s, 1, n)) = n
         /\ \A i \in 1 .. n : SubSeq(s, 1, n)[i] = s[i] /\ i \in 1 .. Len(s)
<1>1. Len(s) \in Nat /\ n \in Nat /\ \A i \in 1 .. n : i \in 1 .. Len(s)
  BY LenProperties
<1>2. \A i \in 1 .. n : s[i] \in T
  BY <1>1, ElementOfSeq
<1>3. /\ SubSeq(s, 1, n) \in Seq(T) /\ Len(SubSeq(s, 1, n)) = IF 1 <= n THEN n - 1 + 1 ELSE 0
      /\ \A i \in 1 .. n - 1 + 1 : SubSeq(s, 1, n)[i] = s[1 + i - 1]
  BY <1>1, <1>2, SubSeqProperties
<1>4. n - 1 + 1 = n /\ \A i \in 1 .. n : 1 + i - 1 = i
  BY <1>1
<1> QED
  BY <1>1, <1>3, <1>4

(* The recursive function inside FlattenSeq. *)
FlattensBy(T, s, f) ==
  /\ f \in [1 .. Len(s) -> Seq(T)] /\ FlattenSeq(s) = f[Len(s)]
  /\ f[1] = s[1] /\ \A n \in 2 .. Len(s) : f[n] = f[n - 1] \o s[n]

LEMMA FlattenFunction ==
  ASSUME NEW T, NEW s \in Seq(Seq(T)), Len(s) # 0
  PROVE  \E f : FlattensBy(T, s, f)
<1> DEFINE L == Len(s)
           IsFlat(f) == f = [i \in 1 .. L |-> IF i = 1 THEN s[i] ELSE f[i - 1] \o s[i]]
           flatten == CHOOSE f : IsFlat(f)
           M == L - 1
           g == [x \in Seq(T) \X (1 .. M) |-> x[1] \o s[x[2] + 1]]
<1>1. L \in Nat /\ M \in Nat /\ 1 \in 1 .. L /\ \A n \in 1 .. L : s[n] \in Seq(T)
  BY LenProperties, ElementOfSeq
<1>2. FlattenSeq(s) = flatten[L]
  BY DEF FlattenSeq
<1>3. g \in StepFunctions(Seq(T), M)
  <2>1. \A n \in 1 .. M : n + 1 \in 1 .. L
    BY <1>1
  <2>2. \A u \in Seq(T), n \in 1 .. M : u \o s[n + 1] \in Seq(T)
    BY <1>1, <2>1, ConcatProperties
  <2> QED BY <2>2 DEF StepFunctions
<1>4. \A u \in Seq(T), n \in 1 .. M : g[<<u, n>>] = u \o s[n + 1]
  OBVIOUS
<1> HIDE DEF g
<1>5. PICK h \in [0 .. M -> Seq(T)] : h[0] = s[1] /\ \A n \in 1 .. M : h[n] = g[<<h[n - 1], n>>]
  <2>1. s[1] \in Seq(T)
    BY <1>1
  <2> HIDE DEF M
  <2>2. \E h : Recurs(h, Seq(T), s[1], g, M)
    BY <1>1, <1>3, <2>1, Recursion
  <2> QED BY <2>2 DEF Recurs
<1> DEFINE f == [i \in 1 .. L |-> h[i - 1]]
<1>6. \A i \in 1 .. L : i - 1 \in 0 .. M
  BY <1>1
<1>7. f \in [1 .. L -> Seq(T)] /\ f[1] = s[1]
  <2>1. \A i \in 1 .. L : f[i] = h[i - 1]
    OBVIOUS
  <2> QED BY <1>1, <1>5, <1>6, <2>1
<1>8. \A i \in 2 .. L : f[i] = f[i - 1] \o s[i]
  <2> SUFFICES ASSUME NEW i \in 2 .. L PROVE f[i] = f[i - 1] \o s[i]
    OBVIOUS
  <2>1. i \in 1 .. L /\ i - 1 \in 1 .. L /\ i - 1 \in 1 .. M /\ (i - 1) + 1 = i /\ (i - 1) - 1 \in 0 .. M
    BY <1>1
  <2>2. h[i - 1] = h[(i - 1) - 1] \o s[i]
    BY <1>4, <1>5, <2>1
  <2> QED BY <2>1, <2>2
<1> HIDE DEF f
<1>9. \A i \in 1 .. L : i # 1 => i \in 2 .. L
  BY <1>1
<1>10. IsFlat(f)
  <2> HIDE DEF L
  <2>1. f = [i \in 1 .. L |-> IF i = 1 THEN s[i] ELSE f[i - 1] \o s[i]]
    BY <1>7, <1>8, <1>9
  <2> QED BY <2>1
<1>11. IsFlat(flatten)
  BY <1>10
<1> HIDE DEF flatten
<1>12. /\ flatten[1] = s[1] /\ \A n \in 2 .. L : flatten[n] = flatten[n - 1] \o s[n]
       /\ DOMAIN flatten = 1 .. L /\ flatten = [i \in 1 .. L |-> flatten[i]]
  <2>1. flatten = [i \in 1 .. L |-> IF i = 1 THEN s[i] ELSE flatten[i - 1] \o s[i]]
    BY <1>11
  <2>2. \A n \in 2 .. L : n \in 1 .. L /\ n # 1
    BY <1>1
  <2> HIDE DEF L
  <2>3. \A n \in 1 .. L : flatten[n] = IF n = 1 THEN s[n] ELSE flatten[n - 1] \o s[n]
    BY <2>1
  <2> QED BY <1>1, <2>1, <2>2, <2>3
<1>13. \A n \in 1 .. L : flatten[n] \in Seq(T)
  <2> DEFINE P == {k \in 0 .. M : flatten[k + 1] \in Seq(T)}
  <2>1. 0 \in P
    BY <1>1, <1>12
  <2>2. ASSUME NEW k \in 0 .. M - 1, k \in P PROVE k + 1 \in P
    <3>1. k + 1 \in 0 .. M /\ (k + 1) + 1 \in 2 .. L /\ (k + 1) + 1 \in 1 .. L /\ ((k + 1) + 1) - 1 = k + 1
      BY <1>1
    <3>2. flatten[(k + 1) + 1] = flatten[k + 1] \o s[(k + 1) + 1] /\ s[(k + 1) + 1] \in Seq(T)
      BY <1>1, <1>12, <3>1
    <3>3. flatten[(k + 1) + 1] \in Seq(T)
      BY <2>2, <3>2, ConcatProperties
    <3> QED BY <3>1, <3>3
  <2> HIDE DEF P, M
  <2>3. \A k \in 0 .. M : k \in P
    BY <1>1, <2>1, <2>2, UpToTheEnd
  <2>4. \A n \in 1 .. L : n - 1 \in 0 .. M /\ (n - 1) + 1 = n
    BY <1>1 DEF M
  <2> QED BY <2>3, <2>4 DEF P
<1>14. flatten \in [1 .. L -> Seq(T)]
  BY <1>12, <1>13
<1> QED
  BY <1>2, <1>12, <1>14 DEF FlattensBy

(* One sequence more is put behind the others. *)
LEMMA FlatStep ==
  ASSUME NEW T, NEW s \in Seq(Seq(T)), NEW n \in 0 .. Len(s)
  PROVE  /\ Flat(s, n) \in Seq(T) /\ (n = 0 => Flat(s, n) = <<>>)
         /\ n # 0 => Flat(s, n) = Flat(s, n - 1) \o s[n]
<1>1. Len(s) \in Nat /\ n \in Nat
  BY LenProperties
<1>2. Flat(s, 0) = <<>>
  <2>1. 0 \in 0 .. Len(s)
    BY <1>1
  <2>2. Len(SubSeq(s, 1, 0)) = 0 /\ SubSeq(s, 1, 0) \in Seq(Seq(T))
    BY <2>1, FirstOfSeq
  <2>3. SubSeq(s, 1, 0) = <<>>
    BY <2>2, EmptySeq
  <2> QED BY <2>2, <2>3 DEF Flat, FlattenSeq
<1>3. CASE n = 0
  BY <1>2, <1>3, EmptySeq
<1>4. CASE n # 0
  <2>1. Len(s) # 0 /\ n \in 1 .. Len(s)
    BY <1>1, <1>4
  <2>2. PICK f : FlattensBy(T, s, f)
    BY <2>1, FlattenFunction
  <2>3. /\ f \in [1 .. Len(s) -> Seq(T)] /\ FlattenSeq(s) = f[Len(s)]
        /\ f[1] = s[1] /\ \A k \in 2 .. Len(s) : f[k] = f[k - 1] \o s[k]
    BY <2>2 DEF FlattensBy
  <2>4. ASSUME NEW m \in 1 .. Len(s) PROVE Flat(s, m) = f[m]
    <3> DEFINE p == SubSeq(s, 1, m)
    <3>1. m \in 0 .. Len(s) /\ m \in Nat /\ m # 0 /\ m - 1 \in Nat
      BY <1>1
    <3>2. p \in Seq(Seq(T)) /\ Len(p) = m /\ \A i \in 1 .. m : p[i] = s[i]
      BY <3>1, FirstOfSeq
    <3> HIDE DEF p
    <3>3. PICK h : FlattensBy(T, p, h)
      BY <3>1, <3>2, FlattenFunction
    <3>4. /\ h \in [1 .. Len(p) -> Seq(T)] /\ FlattenSeq(p) = h[Len(p)]
          /\ h[1] = p[1] /\ \A k \in 2 .. Len(p) : h[k] = h[k - 1] \o p[k]
      BY <3>3 DEF FlattensBy
    <3> DEFINE P == {k \in 0 .. m - 1 : h[k + 1] = f[k + 1]}
    <3>5. 0 \in P
      <4>1. 1 \in 1 .. m /\ 0 \in 0 .. m - 1 /\ 0 + 1 = 1
        BY <3>1
      <4>2. h[1] = f[1]
        BY <2>3, <3>2, <3>4, <4>1
      <4> QED BY <4>1, <4>2
    <3>6. ASSUME NEW k \in 0 .. (m - 1) - 1, k \in P PROVE k + 1 \in P
      <4> DEFINE j == (k + 1) + 1
      <4>1. k + 1 \in 0 .. m - 1 /\ j \in 2 .. m /\ j \in 1 .. m /\ j \in 2 .. Len(s) /\ j - 1 = k + 1
        BY <1>1, <3>1
      <4> HIDE DEF j
      <4>2. h[j] = h[k + 1] \o p[j] /\ f[j] = f[k + 1] \o s[j] /\ p[j] = s[j]
        BY <2>3, <3>2, <3>4, <4>1
      <4>3. h[j] = f[j]
        BY <3>6, <4>2
      <4> QED BY <4>1, <4>3 DEF j
    <3> HIDE DEF P
    <3>7. \A k \in 0 .. m - 1 : k \in P
      BY <3>1, <3>5, <3>6, UpToTheEnd
    <3>8. m - 1 \in 0 .. m - 1 /\ (m - 1) + 1 = m
      BY <3>1
    <3>9. h[m] = f[m]
      BY <3>7, <3>8 DEF P
    <3> QED BY <3>2, <3>4, <3>9 DEF Flat, p
  <2>5. Flat(s, n) \in Seq(T)
    BY <2>1, <2>3, <2>4
  <2>6. CASE n = 1
    <3>1. Flat(s, n) = s[1] /\ s[1] \in Seq(T)
      BY <2>1, <2>3, <2>4, <2>6, ElementOfSeq
    <3>2. <<>> \o s[1] = s[1]
      BY <3>1, ConcatEmptySeq
    <3> QED BY <1>2, <2>5, <2>6, <3>1, <3>2
  <2>7. CASE n # 1
    <3>1. n \in 2 .. Len(s) /\ n - 1 \in 1 .. Len(s)
      BY <1>1, <2>1, <2>7
    <3>2. Flat(s, n) = f[n] /\ Flat(s, n - 1) = f[n - 1] /\ f[n] = f[n - 1] \o s[n]
      BY <2>1, <2>4, <2>3, <3>1
    <3> QED BY <1>4, <2>5, <3>2
  <2> QED BY <1>4, <2>5, <2>6, <2>7
<1> QED
  BY <1>3, <1>4

(* Only the first n sequences count. *)
LEMMA FlatSame ==
  ASSUME NEW T, NEW s \in Seq(T), NEW u \in Seq(T), NEW n \in 0 .. Len(s), n <= Len(u),
         \A i \in 1 .. n : s[i] = u[i]
  PROVE  Flat(s, n) = Flat(u, n)
<1>1. n \in 0 .. Len(u)
  BY LenProperties
<1>2. /\ SubSeq(s, 1, n) \in Seq(T) /\ Len(SubSeq(s, 1, n)) = n /\ \A i \in 1 .. n : SubSeq(s, 1, n)[i] = s[i]
      /\ SubSeq(u, 1, n) \in Seq(T) /\ Len(SubSeq(u, 1, n)) = n /\ \A i \in 1 .. n : SubSeq(u, 1, n)[i] = u[i]
  BY <1>1, FirstOfSeq
<1>3. SubSeq(s, 1, n) = SubSeq(u, 1, n)
  BY <1>2, SeqEqual
<1> QED
  BY <1>3 DEF Flat

(* All of them. *)
LEMMA FlatWhole ==
  ASSUME NEW T, NEW s \in Seq(T)
  PROVE  Flat(s, Len(s)) = FlattenSeq(s)
<1> DEFINE u == SubSeq(s, 1, Len(s))
<1>1. Len(s) \in 0 .. Len(s)
  BY LenProperties
<1>2. u \in Seq(T) /\ Len(u) = Len(s) /\ \A i \in 1 .. Len(u) : u[i] = s[i]
  BY <1>1, FirstOfSeq
<1>3. u = s
  <2> HIDE DEF u
  <2> QED BY <1>2, SeqEqual
<1> QED
  BY <1>3 DEF Flat

LEMMA Times ==
  ASSUME NEW k \in Nat, NEW z \in Nat
  PROVE  k * z \in Nat /\ (k + 1) * z = k * z + z
  OBVIOUS

(* A list with an element put in. *)
LEMMA InsertIs ==
  ASSUME NEW T, NEW s \in Seq(T), NEW e \in T, NEW k \in 0 .. Len(s), NEW g, g = InsertAt(s, k + 1, e)
  PROVE  /\ g \in Seq(T) /\ Len(g) = Len(s) + 1 /\ ToSet(g) = ToSet(s) \cup {e}
         /\ Distinct(s) /\ e \notin ToSet(s) => Distinct(g)
         /\ g[k + 1] = e /\ \A i \in 1 .. k : g[i] = s[i]
         /\ \A i \in k + 2 .. Len(s) + 1 : g[i] = s[i - 1]
<1> DEFINE L == Len(s)
           front == SubSeq(s, 1, k)
           rest == SubSeq(s, k + 1, L)
           one == <<e>>
           upTo == front \o one
<1>1. L \in Nat /\ k \in Nat /\ k <= L /\ DOMAIN s = 1 .. L /\ \A i \in 1 .. L : s[i] \in T
  BY LenProperties, ElementOfSeq
<1>2. front \in Seq(T) /\ Len(front) = k /\ \A i \in 1 .. k : front[i] = s[i]
  BY FirstOfSeq
<1>3. rest \in Seq(T) /\ Len(rest) = L - k /\ \A i \in 1 .. L - k : rest[i] = s[k + i]
  <2>1. k + 1 \in Int /\ L \in Int /\ \A i \in k + 1 .. L : s[i] \in T
    BY <1>1
  <2>2. /\ rest \in Seq(T) /\ Len(rest) = IF k + 1 <= L THEN L - (k + 1) + 1 ELSE 0
        /\ \A i \in 1 .. L - (k + 1) + 1 : rest[i] = s[k + 1 + i - 1]
    BY <2>1, SubSeqProperties
  <2> HIDE DEF rest, L
  <2>3. L - (k + 1) + 1 = L - k /\ \A i \in 1 .. L - k : k + 1 + i - 1 = k + i
    BY <1>1
  <2>4. ~(k + 1 <= L) => L - k = 0
    BY <1>1
  <2> QED BY <2>2, <2>3, <2>4
<1>4. one \in Seq(T) /\ Len(one) = 1 /\ one[1] = e
  OBVIOUS
<1>5. g = upTo \o rest
  <2>1. (k + 1) - 1 = k
    BY <1>1
  <2> QED BY <2>1 DEF InsertAt
<1> HIDE DEF front, rest, one, L
<1>6. upTo \in Seq(T) /\ Len(upTo) = k + 1 /\ upTo[k + 1] = e /\ \A i \in 1 .. k : upTo[i] = s[i]
  <2>1. /\ upTo \in Seq(T) /\ Len(upTo) = Len(front) + Len(one)
        /\ \A i \in 1 .. Len(front) : upTo[i] = front[i]
        /\ \A i \in Len(front) + 1 .. Len(front) + Len(one) : upTo[i] = one[i - Len(front)]
    BY <1>2, <1>4, ConcatEntries
  <2>2. k + 1 \in k + 1 .. k + 1 /\ (k + 1) - k = 1
    BY <1>1
  <2> QED BY <1>2, <1>4, <2>1, <2>2
<1> HIDE DEF upTo
<1>7. /\ g \in Seq(T) /\ Len(g) = L + 1 /\ DOMAIN g = 1 .. L + 1
      /\ \A i \in 1 .. k + 1 : g[i] = upTo[i]
      /\ \A i \in k + 2 .. L + 1 : g[i] = rest[i - (k + 1)]
  <2>1. /\ upTo \o rest \in Seq(T) /\ Len(upTo \o rest) = Len(upTo) + Len(rest)
        /\ DOMAIN (upTo \o rest) = 1 .. Len(upTo) + Len(rest)
        /\ \A i \in 1 .. Len(upTo) : (upTo \o rest)[i] = upTo[i]
        /\ \A i \in Len(upTo) + 1 .. Len(upTo) + Len(rest) : (upTo \o rest)[i] = rest[i - Len(upTo)]
    BY <1>3, <1>6, ConcatEntries
  <2>2. (k + 1) + (L - k) = L + 1 /\ (k + 1) + 1 = k + 2
    BY <1>1
  <2> QED BY <1>3, <1>5, <1>6, <2>1, <2>2
<1>8. /\ g[k + 1] = e /\ \A i \in 1 .. k : g[i] = s[i]
      /\ \A i \in k + 2 .. L + 1 : g[i] = s[i - 1]
  <2>1. k + 1 \in 1 .. k + 1 /\ \A i \in 1 .. k : i \in 1 .. k + 1
    BY <1>1
  <2>2. \A i \in k + 2 .. L + 1 : i - (k + 1) \in 1 .. L - k /\ k + (i - (k + 1)) = i - 1
    BY <1>1
  <2> QED BY <1>3, <1>6, <1>7, <2>1, <2>2
<1>9. \A i \in DOMAIN g : \/ i \in 1 .. k /\ i \in DOMAIN s /\ g[i] = s[i]
                          \/ i = k + 1
                          \/ i \in k + 2 .. L + 1 /\ i - 1 \in DOMAIN s /\ g[i] = s[i - 1]
  <2> SUFFICES ASSUME NEW i \in 1 .. L + 1
               PROVE  i \in 1 .. k \/ i = k + 1 \/ i \in k + 2 .. L + 1
    <3>1. \A i \in 1 .. k : i \in DOMAIN s
      BY <1>1
    <3>2. \A i \in k + 2 .. L + 1 : i - 1 \in DOMAIN s
      BY <1>1
    <3> QED BY <1>7, <1>8, <3>1, <3>2
  <2> QED BY <1>1
<1>10. \A m \in DOMAIN s : \E i \in DOMAIN g : g[i] = s[m]
  <2> SUFFICES ASSUME NEW m \in 1 .. L PROVE \E i \in 1 .. L + 1 : g[i] = s[m]
    BY <1>1, <1>7
  <2>1. CASE m <= k
    <3>1. m \in 1 .. k /\ m \in 1 .. L + 1
      BY <1>1, <2>1
    <3> QED BY <1>8, <3>1
  <2>2. CASE ~(m <= k)
    <3>1. m + 1 \in k + 2 .. L + 1 /\ m + 1 \in 1 .. L + 1 /\ (m + 1) - 1 = m
      BY <1>1, <2>2
    <3> QED BY <1>8, <3>1
  <2> QED BY <2>1, <2>2
<1>11. ToSet(g) = ToSet(s) \cup {e}
  <2>1. k + 1 \in DOMAIN g
    BY <1>1, <1>7
  <2>2. \A i \in DOMAIN g : g[i] = e \/ \E m \in DOMAIN s : g[i] = s[m]
    BY <1>8, <1>9
  <2> QED BY <1>8, <1>10, <2>1, <2>2 DEF ToSet
<1>12. ASSUME Distinct(s), e \notin ToSet(s) PROVE Distinct(g)
  <2> SUFFICES ASSUME NEW i \in DOMAIN g, NEW j \in DOMAIN g, g[i] = g[j] PROVE i = j
    BY DEF Distinct
  <2>1. \A m \in DOMAIN s : s[m] # e
    BY <1>12 DEF ToSet
  <2>2. \A m, n \in DOMAIN s : s[m] = s[n] => m = n
    BY <1>12 DEF Distinct
  <2>3. i \in Int /\ j \in Int
    BY <1>1, <1>7
  <2>4. CASE i = k + 1 \/ j = k + 1
    BY <1>8, <1>9, <2>1, <2>4
  <2>5. CASE i # k + 1 /\ j # k + 1
    <3>1. CASE i \in 1 .. k /\ j \in 1 .. k
      BY <1>9, <2>2, <2>5, <3>1, <1>1, <1>8
    <3>2. CASE i \in k + 2 .. L + 1 /\ j \in k + 2 .. L + 1
      <4>1. i - 1 \in DOMAIN s /\ j - 1 \in DOMAIN s
        BY <1>1, <3>2
      <4>2. s[i - 1] = s[j - 1]
        BY <1>8, <3>2
      <4>3. i - 1 = j - 1
        BY <2>2, <4>1, <4>2
      <4> QED BY <2>3, <4>3
    <3>3. CASE i \in 1 .. k /\ j \in k + 2 .. L + 1
      <4>1. i \in DOMAIN s /\ j - 1 \in DOMAIN s /\ i # j - 1
        BY <1>1, <3>3
      <4>2. s[i] = s[j - 1]
        BY <1>8, <3>3
      <4> QED BY <2>2, <4>1, <4>2
    <3>4. CASE j \in 1 .. k /\ i \in k + 2 .. L + 1
      <4>1. j \in DOMAIN s /\ i - 1 \in DOMAIN s /\ j # i - 1
        BY <1>1, <3>4
      <4>2. s[j] = s[i - 1]
        BY <1>8, <3>4
      <4> QED BY <2>2, <4>1, <4>2
    <3> QED BY <1>9, <2>5, <3>1, <3>2, <3>3, <3>4
  <2> QED BY <2>4, <2>5
<1> QED
  BY <1>7, <1>8, <1>11, <1>12 DEF L

(* A page of search results (TxSearch). *)
LEMMA PageIsPart ==
  ASSUME NEW T, NEW f \in Seq(T), NEW p \in Nat, p # 0, (p - 1) * PerPage <= Len(f)
  PROVE  LET r == (p - 1) * PerPage
             e == PageEnd(p, Len(f))
             x == PageOf(f, p)
         IN /\ r \in Nat /\ e \in Nat /\ r <= e /\ e <= Len(f)
            /\ x \in Seq(T) /\ Len(x) = e - r /\ \A i \in 1 .. e - r : x[i] = f[r + i]
            /\ e < Len(f) => e = p * PerPage
<1> DEFINE L == Len(f)
           r == (p - 1) * PerPage
           e == PageEnd(p, L)
           x == PageOf(f, p)
<1>1. L \in Nat /\ PerPage \in Nat /\ p - 1 \in Nat /\ (p - 1) + 1 = p
  BY PageAssumption, LenProperties
<1>2. r \in Nat /\ p * PerPage = r + PerPage
  BY <1>1, Times
<1>3. x = SubSeq(f, r + 1, e) /\ e = IF p * PerPage < L THEN p * PerPage ELSE L
  BY DEF PageOf, PageEnd
<1>4. r <= L
  OBVIOUS
<1> HIDE DEF r, e, x, L
<1>5. e \in Nat /\ r <= e /\ e <= L /\ (e < L => e = p * PerPage)
  BY <1>1, <1>2, <1>3, <1>4
<1>6. \A i \in r + 1 .. e : f[i] \in T
  <2>1. \A i \in r + 1 .. e : i \in 1 .. Len(f)
    BY <1>1, <1>2, <1>5 DEF L
  <2> QED BY <2>1, ElementOfSeq
<1>7. x \in Seq(T) /\ Len(x) = e - r /\ \A i \in 1 .. e - r : x[i] = f[r + i]
  <2>1. r + 1 \in Int /\ e \in Int
    BY <1>2, <1>5
  <2>2. /\ x \in Seq(T) /\ Len(x) = IF r + 1 <= e THEN e - (r + 1) + 1 ELSE 0
        /\ \A i \in 1 .. e - (r + 1) + 1 : x[i] = f[r + 1 + i - 1]
    BY <1>3, <1>6, <2>1, SubSeqProperties
  <2>3. /\ (IF r + 1 <= e THEN e - (r + 1) + 1 ELSE 0) = e - r /\ e - (r + 1) + 1 = e - r
        /\ \A i \in 1 .. e - r : r + 1 + i - 1 = r + i
    BY <1>2, <1>5
  <2> QED BY <2>2, <2>3
<1> QED
  BY <1>2, <1>5, <1>7 DEF r, e, x, L

(* The entries of a sequence after an Append. *)
LEMMA AppendIs ==
  ASSUME NEW T, NEW s \in Seq(T), NEW x \in T
  PROVE  /\ Append(s, x) \in Seq(T) /\ DOMAIN Append(s, x) = DOMAIN s \cup {Len(s) + 1}
         /\ Append(s, x)[Len(s) + 1] = x /\ Len(s) + 1 \in Nat
         /\ \A n \in DOMAIN s : n \in Nat /\ n < Len(s) + 1 /\ Append(s, x)[n] = s[n] /\ n # Len(s) + 1
<1>1. Len(s) \in Nat /\ DOMAIN s = 1 .. Len(s)
  BY LenProperties
<1>2. /\ Append(s, x) \in Seq(T) /\ Len(Append(s, x)) = Len(s) + 1
      /\ (\A n \in 1 .. Len(s) : Append(s, x)[n] = s[n]) /\ Append(s, x)[Len(s) + 1] = x
  BY AppendProperties
<1>3. DOMAIN Append(s, x) = 1 .. Len(s) + 1
  BY <1>2, LenProperties
<1>4. 1 .. Len(s) + 1 = 1 .. Len(s) \cup {Len(s) + 1} /\ \A n \in 1 .. Len(s) : n \in Nat /\ n < Len(s) + 1 /\ n # Len(s) + 1
  BY <1>1
<1> QED
  BY <1>1, <1>2, <1>3, <1>4

-----------------------------------------------------------------------------
(* AtomicSwapMerger (AtomicSwaps). *)

(* The chain has one offer of a swap and at most one claim or abort after it. *)
ChainInv ==
  /\ \A m, n \in DOMAIN chain : chain[m].swap = chain[n].swap /\ m < n =>
       chain[m].kind = "open" /\ chain[n].kind \in Settled
  /\ \A n \in DOMAIN chain : chain[n].kind \in Settled => \E m \in 1 .. n - 1 : chain[m].swap = chain[n].swap

(* A set of events with at most one offer and one settlement of a swap. *)
Legal(D) == \A d, e \in D : d.swap = e.swap /\ d # e => (d.kind = "open" <=> e.kind # "open")

OpenIn(D, w) == \E e \in D : e.swap = w /\ e.kind = "open"
SettledIn(D, w, k) == \E e \in D : e.swap = w /\ e.kind = k

SettlingType == [swap : Swap, kind : Settled]
MergerType == [open : SUBSET Swap, settling : SUBSET SettlingType]

(* The pools of a merger that has processed the events of D: offers that     *)
(* wait for their settlement, and settlements that wait for their offer.     *)
MergedIs(D, m) ==
  /\ m \in MergerType
  /\ \A w \in Swap : w \in m.open <=> OpenIn(D, w) /\ \A k \in Settled : ~SettledIn(D, w, k)
  /\ \A s \in SettlingType : s \in m.settling <=> ~OpenIn(D, s.swap) /\ SettledIn(D, s.swap, s.kind)

(* What process() then makes of one more event. *)
ResultIs(D, e, r) ==
  IF e.kind = "open"
  THEN \/ r = "open" /\ \A k \in Settled : ~SettledIn(D, e.swap, k)
       \/ r \in Settled /\ SettledIn(D, e.swap, r)
  ELSE \/ r = e.kind /\ OpenIn(D, e.swap)
       \/ r = "undefined" /\ ~OpenIn(D, e.swap)

LEMMA EventTypes ==
  ASSUME NEW e \in Event
  PROVE  /\ e.swap \in Swap /\ e.tag \in Tag /\ (e.kind = "open" \/ e.kind \in Settled)
         /\ e.kind = "open" => e.tag = "set"
         /\ "open" \notin Settled /\ "undefined" \notin Settled /\ e.kind # "undefined" /\ e.kind # "throw"
  BY DEF Event, Settled, Tag

(* process() on the pools. *)
LEMMA ProcessCases ==
  ASSUME NEW m \in MergerType, NEW e \in Event
  PROVE  LET p == process(m, e)
             S == SettlingFor(m, e.swap)
         IN /\ p.merger \in MergerType /\ p.result \in Result
            /\ e.kind = "open" /\ S # {} =>
                 /\ p.merger.open = m.open /\ p.merger.settling = m.settling \ S
                 /\ p.result \in Settled /\ [swap |-> e.swap, kind |-> p.result] \in m.settling
            /\ e.kind = "open" /\ S = {} /\ e.swap \in m.open => p.result = "throw"
            /\ e.kind = "open" /\ S = {} /\ e.swap \notin m.open =>
                 /\ p.merger.open = m.open \cup {e.swap} /\ p.merger.settling = m.settling /\ p.result = "open"
            /\ e.kind # "open" /\ e.swap \in m.open =>
                 /\ p.merger.open = m.open \ {e.swap} /\ p.merger.settling = m.settling /\ p.result = e.kind
            /\ e.kind # "open" /\ e.swap \notin m.open /\ S # {} => p.result = "throw"
            /\ e.kind # "open" /\ e.swap \notin m.open /\ S = {} =>
                 /\ p.merger.open = m.open
                 /\ p.merger.settling = m.settling \cup {[swap |-> e.swap, kind |-> e.kind]}
                 /\ p.result = "undefined"
<1> DEFINE p == process(m, e)
           S == SettlingFor(m, e.swap)
<1>1. /\ e.swap \in Swap /\ (e.kind = "open" \/ e.kind \in Settled)
      /\ m.open \subseteq Swap /\ m.settling \subseteq SettlingType /\ S \subseteq m.settling
  BY EventTypes DEF MergerType, SettlingFor
<1>2. m = [open |-> m.open, settling |-> m.settling]
  BY DEF MergerType
<1>3. \A c \in SUBSET Swap, d \in SUBSET SettlingType : [open |-> c, settling |-> d] \in MergerType
  BY DEF MergerType
<1>4. CASE e.kind = "open" /\ S # {}
  <2> DEFINE s == CHOOSE x \in S : TRUE
  <2>1. s \in S
    BY <1>4
  <2>2. s \in SettlingType /\ s.swap = e.swap /\ s = [swap |-> s.swap, kind |-> s.kind] /\ s.kind \in Settled
    BY <1>1, <2>1 DEF SettlingFor, SettlingType
  <2>3. p = [merger |-> [m EXCEPT !.settling = m.settling \ S], result |-> s.kind]
    BY <1>4 DEF process, ProcessOpen
  <2> HIDE DEF s
  <2>4. p.merger = [open |-> m.open, settling |-> m.settling \ S] /\ p.result = s.kind
    BY <1>2, <2>3
  <2>5. [swap |-> e.swap, kind |-> s.kind] \in m.settling
    BY <1>1, <2>1, <2>2
  <2>6. p.merger \in MergerType /\ p.result \in Result /\ p.result \in Settled
    BY <1>1, <1>3, <2>2, <2>4 DEF Result
  <2> HIDE DEF p, S
  <2> QED BY <1>4, <2>4, <2>5, <2>6 DEF p, S
<1>5. CASE e.kind = "open" /\ S = {}
  <2>1. CASE e.swap \in m.open
    <3>1. p = [merger |-> m, result |-> "throw"]
      BY <1>5, <2>1 DEF process, ProcessOpen
    <3> QED BY <1>5, <2>1, <3>1 DEF Result
  <2>2. CASE e.swap \notin m.open
    <3>1. p = [merger |-> [m EXCEPT !.open = m.open \cup {e.swap}], result |-> "open"]
      BY <1>5, <2>2 DEF process, ProcessOpen
    <3>2. p.merger = [open |-> m.open \cup {e.swap}, settling |-> m.settling] /\ p.result = "open"
      BY <1>2, <3>1
    <3>3. p.merger \in MergerType /\ p.result \in Result
      BY <1>1, <1>3, <3>2 DEF Result
    <3> HIDE DEF p, S
    <3> QED BY <1>5, <2>2, <3>2, <3>3 DEF p, S
  <2> QED BY <2>1, <2>2
<1>6. CASE e.kind # "open"
  <2>1. e.kind \in Settled /\ p = ProcessSettling(m, e)
    BY <1>1, <1>6 DEF process
  <2>2. CASE e.swap \in m.open
    <3>1. p.merger = [open |-> m.open \ {e.swap}, settling |-> m.settling] /\ p.result = e.kind
      BY <1>2, <2>1, <2>2 DEF ProcessSettling
    <3>2. p.merger \in MergerType /\ p.result \in Result
      BY <1>1, <1>3, <2>1, <3>1 DEF Result
    <3> HIDE DEF p, S
    <3> QED BY <1>6, <2>2, <3>1, <3>2 DEF p, S
  <2>3. CASE e.swap \notin m.open /\ S # {}
    <3>1. p = [merger |-> m, result |-> "throw"]
      BY <2>1, <2>3 DEF ProcessSettling
    <3> QED BY <1>6, <2>3, <3>1 DEF Result
  <2>4. CASE e.swap \notin m.open /\ S = {}
    <3> DEFINE d == [swap |-> e.swap, kind |-> e.kind]
    <3>1. p.merger = [open |-> m.open, settling |-> m.settling \cup {d}] /\ p.result = "undefined"
      BY <1>2, <2>1, <2>4 DEF ProcessSettling
    <3>2. d \in SettlingType
      BY <1>1, <2>1 DEF SettlingType
    <3> HIDE DEF d
    <3>3. p.merger \in MergerType /\ p.result \in Result
      BY <1>1, <1>3, <3>1, <3>2 DEF Result
    <3> HIDE DEF p, S
    <3> QED BY <1>6, <2>4, <3>1, <3>3 DEF p, S, d
  <2> QED BY <2>2, <2>3, <2>4
<1> QED
  BY <1>4, <1>5, <1>6

(* process() keeps the pools as MergedIs says, whatever the order in which   *)
(* offers and settlements come, and finds no swap twice in a pool.           *)
LEMMA ProcessMerges ==
  ASSUME NEW D \in SUBSET Event, NEW e \in Event, e \notin D, Legal(D \cup {e}),
         NEW m, MergedIs(D, m)
  PROVE  LET p == process(m, e)
         IN MergedIs(D \cup {e}, p.merger) /\ ResultIs(D, e, p.result) /\ p.result \in Result
<1> DEFINE p == process(m, e)
           S == SettlingFor(m, e.swap)
           E == D \cup {e}
<1>1. /\ m \in MergerType
      /\ \A w \in Swap : w \in m.open <=> OpenIn(D, w) /\ \A k \in Settled : ~SettledIn(D, w, k)
      /\ \A s \in SettlingType : s \in m.settling <=> ~OpenIn(D, s.swap) /\ SettledIn(D, s.swap, s.kind)
  BY DEF MergedIs
<1>2. /\ e.swap \in Swap /\ (e.kind = "open" \/ e.kind \in Settled) /\ "open" \notin Settled
      /\ m.settling \subseteq SettlingType
  BY <1>1, EventTypes DEF MergerType
<1>3. \A w \in Swap : OpenIn(E, w) <=> OpenIn(D, w) \/ (w = e.swap /\ e.kind = "open")
  BY DEF OpenIn
<1>4. \A w \in Swap, k \in Settled : SettledIn(E, w, k) <=> SettledIn(D, w, k) \/ (w = e.swap /\ e.kind = k)
  BY DEF SettledIn
<1>5. e.kind = "open" => ~OpenIn(D, e.swap)
  BY DEF Legal, OpenIn
<1>6. e.kind \in Settled => \A k \in Settled : ~SettledIn(D, e.swap, k)
  BY <1>2 DEF Legal, SettledIn
<1>7. \A w \in Swap, k, j \in Settled : SettledIn(D, w, k) /\ SettledIn(D, w, j) => k = j
  BY <1>2 DEF Legal, SettledIn
<1>8. \A s \in SettlingType : s.swap \in Swap /\ s.kind \in Settled /\ s = [swap |-> s.swap, kind |-> s.kind]
  BY DEF SettlingType
<1>9. \A k \in Settled : [swap |-> e.swap, kind |-> k] \in SettlingType
  BY <1>2 DEF SettlingType
<1>10. S = {s \in m.settling : s.swap = e.swap}
  BY DEF SettlingFor
<1>11. p.merger \in MergerType /\ p.result \in Result
  BY <1>1, ProcessCases
<1>12. CASE e.kind = "open" /\ S # {}
  <2>1. /\ p.merger.open = m.open /\ p.merger.settling = m.settling \ S
        /\ p.result \in Settled /\ [swap |-> e.swap, kind |-> p.result] \in m.settling
    BY <1>1, <1>12, ProcessCases
  <2> HIDE DEF p, S, E
  <2>2. SettledIn(D, e.swap, p.result)
    BY <1>1, <1>9, <2>1
  <2>3. \A w \in Swap : w \in p.merger.open <=> OpenIn(E, w) /\ \A k \in Settled : ~SettledIn(E, w, k)
    BY <1>1, <1>2, <1>3, <1>4, <1>12, <2>1, <2>2
  <2>4. \A s \in SettlingType : s \in p.merger.settling <=> ~OpenIn(E, s.swap) /\ SettledIn(E, s.swap, s.kind)
    BY <1>1, <1>2, <1>3, <1>4, <1>8, <1>10, <1>12, <2>1
  <2>5. ResultIs(D, e, p.result)
    BY <1>12, <2>1, <2>2 DEF ResultIs
  <2> QED BY <1>11, <2>3, <2>4, <2>5 DEF MergedIs, p, E
<1>13. CASE e.kind = "open" /\ S = {}
  <2>1. e.swap \notin m.open
    BY <1>1, <1>2, <1>5, <1>13
  <2>2. p.merger.open = m.open \cup {e.swap} /\ p.merger.settling = m.settling /\ p.result = "open"
    BY <1>1, <1>13, <2>1, ProcessCases
  <2> HIDE DEF p, S, E
  <2>3. \A k \in Settled : ~SettledIn(D, e.swap, k)
    <3> SUFFICES ASSUME NEW k \in Settled, SettledIn(D, e.swap, k) PROVE FALSE
      OBVIOUS
    <3> DEFINE d == [swap |-> e.swap, kind |-> k]
    <3>1. d \in SettlingType /\ d.swap = e.swap /\ d.kind = k
      BY <1>9
    <3> HIDE DEF d
    <3> QED BY <1>1, <1>5, <1>10, <1>13, <3>1
  <2>4. \A w \in Swap : w \in p.merger.open <=> OpenIn(E, w) /\ \A k \in Settled : ~SettledIn(E, w, k)
    BY <1>1, <1>2, <1>3, <1>4, <1>13, <2>2, <2>3
  <2>5. \A s \in SettlingType : s \in p.merger.settling <=> ~OpenIn(E, s.swap) /\ SettledIn(E, s.swap, s.kind)
    BY <1>1, <1>2, <1>3, <1>4, <1>8, <1>13, <2>2, <2>3
  <2>6. ResultIs(D, e, p.result)
    BY <1>13, <2>2, <2>3 DEF ResultIs
  <2> QED BY <1>11, <2>4, <2>5, <2>6 DEF MergedIs, p, E
<1>14. CASE e.kind # "open"
  <2>1. e.kind \in Settled
    BY <1>2, <1>14
  <2>2. S = {}
    BY <1>1, <1>2, <1>6, <1>8, <1>10, <2>1
  <2>3. CASE e.swap \in m.open
    <3>1. p.merger.open = m.open \ {e.swap} /\ p.merger.settling = m.settling /\ p.result = e.kind
      BY <1>1, <1>14, <2>3, ProcessCases
    <3> HIDE DEF p, S, E
    <3>2. OpenIn(D, e.swap)
      BY <1>1, <1>2, <2>3
    <3>3. \A w \in Swap : w \in p.merger.open <=> OpenIn(E, w) /\ \A k \in Settled : ~SettledIn(E, w, k)
      BY <1>1, <1>2, <1>3, <1>4, <1>14, <2>1, <3>1
    <3>4. \A s \in SettlingType : s \in p.merger.settling <=> ~OpenIn(E, s.swap) /\ SettledIn(E, s.swap, s.kind)
      BY <1>1, <1>2, <1>3, <1>4, <1>8, <1>14, <3>1, <3>2
    <3>5. ResultIs(D, e, p.result)
      BY <1>14, <3>1, <3>2 DEF ResultIs
    <3> QED BY <1>11, <3>3, <3>4, <3>5 DEF MergedIs, p, E
  <2>4. CASE e.swap \notin m.open
    <3> DEFINE d == [swap |-> e.swap, kind |-> e.kind]
    <3>1. p.merger.open = m.open /\ p.merger.settling = m.settling \cup {d} /\ p.result = "undefined"
      BY <1>1, <1>14, <2>2, <2>4, ProcessCases
    <3>2. d \in SettlingType /\ d.swap = e.swap /\ d.kind = e.kind
      BY <1>9, <2>1
    <3>3. \A s \in SettlingType : s = d <=> s.swap = e.swap /\ s.kind = e.kind
      BY <1>8
    <3> HIDE DEF p, S, E, d
    <3>4. ~OpenIn(D, e.swap)
      BY <1>1, <1>2, <1>6, <2>1, <2>4
    <3>5. \A w \in Swap : w \in p.merger.open <=> OpenIn(E, w) /\ \A k \in Settled : ~SettledIn(E, w, k)
      BY <1>1, <1>2, <1>3, <1>4, <1>14, <2>1, <2>4, <3>1
    <3>6. \A s \in SettlingType : s \in p.merger.settling <=> ~OpenIn(E, s.swap) /\ SettledIn(E, s.swap, s.kind)
      BY <1>1, <1>2, <1>3, <1>4, <1>8, <1>14, <3>1, <3>3, <3>4
    <3>7. ResultIs(D, e, p.result)
      BY <1>14, <3>1, <3>4 DEF ResultIs
    <3> QED BY <1>11, <3>5, <3>6, <3>7 DEF MergedIs, p, E
  <2> QED BY <2>3, <2>4
<1> QED
  BY <1>2, <1>12, <1>13, <1>14

(* The state of a swap after n transactions, from the events themselves. *)
First(n) == {chain[i] : i \in 1 .. n}

LEMMA StateAtIs ==
  ASSUME chain \in Seq(Event), ChainInv, NEW w \in Swap, NEW n \in 0 .. Len(chain)
  PROVE  /\ (\A i \in 1 .. n : chain[i].swap # w) => StateAt(w, n) = "undefined"
         /\ \A i \in 1 .. n : chain[i].swap = w /\ chain[i].kind \in Settled => StateAt(w, n) = chain[i].kind
         /\ \A i \in 1 .. n : chain[i].swap = w /\ (\A j \in 1 .. n : chain[j].swap = w => chain[j].kind = "open")
              => StateAt(w, n) = "open"
<1> DEFINE of == {i \in 1 .. n : chain[i].swap = w}
<1>1. StateAt(w, n) = IF of = {} THEN "undefined" ELSE chain[Max(of)].kind
  BY DEF StateAt
<1>2. DOMAIN chain = 1 .. Len(chain) /\ Len(chain) \in Nat
  BY LenProperties
<1>3. 1 .. n \subseteq DOMAIN chain /\ of \subseteq Nat /\ n \in Nat /\ \A x \in of : x <= n
  BY <1>2
<1>4. of # {} => Max(of) \in of /\ \A x \in of : x <= Max(of)
  BY <1>3, MaxOfBounded
<1>5. \A i \in 1 .. n : chain[i].swap = w /\ chain[i].kind \in Settled => chain[Max(of)].kind = chain[i].kind
  <2> SUFFICES ASSUME NEW i \in 1 .. n, chain[i].swap = w, chain[i].kind \in Settled
               PROVE  i = Max(of)
    OBVIOUS
  <2>1. i \in of /\ Max(of) \in of /\ i <= Max(of)
    BY <1>4
  <2> HIDE DEF of
  <2>2. ~(i < Max(of))
    <3>1. Max(of) \in DOMAIN chain /\ chain[Max(of)].swap = w /\ i \in DOMAIN chain
      BY <1>3, <2>1 DEF of
    <3>2. chain[i].kind # "open"
      BY DEF Settled
    <3> QED BY <3>1, <3>2 DEF ChainInv
  <2>3. Max(of) \in Nat /\ i \in Nat
    BY <1>3, <2>1
  <2> QED BY <2>1, <2>2, <2>3
<1> HIDE DEF of
<1>6. \A i \in 1 .. n : chain[i].swap = w <=> i \in of
  BY DEF of
<1>7. of # {} => Max(of) \in 1 .. n
  BY <1>4 DEF of
<1> QED
  BY <1>1, <1>4, <1>5, <1>6, <1>7

(* The states that getSwaps() reports after the events of D. *)
StatesAre(D, st) ==
  /\ st \in [Swap -> Result]
  /\ \A w \in Swap :
       /\ ~OpenIn(D, w) => st[w] = "undefined"
       /\ OpenIn(D, w) /\ (\A k \in Settled : ~SettledIn(D, w, k)) => st[w] = "open"
       /\ \A k \in Settled : OpenIn(D, w) /\ SettledIn(D, w, k) => st[w] = k

(* The pools of the merger of getSwaps() after the events of D, some of      *)
(* which may have come more than once, offers first.                         *)
PoolsAre(D, m) ==
  /\ m \in MergerType
  /\ \A w \in Swap : w \in m.open <=> OpenIn(D, w) /\ \A k \in Settled : ~SettledIn(D, w, k)
  /\ \A s \in m.settling : SettledIn(D, s.swap, s.kind)

(* process() throws only at an event that has come before; otherwise it      *)
(* keeps the pools.                                                          *)
LEMMA ProcessAgain ==
  ASSUME NEW D \in SUBSET Event, NEW e \in Event, Legal(D \cup {e}), NEW m, PoolsAre(D, m),
         e.kind = "open" => \A d \in D : d.kind = "open"
  PROVE  LET p == process(m, e)
         IN /\ p.merger \in MergerType /\ p.result \in Result
            /\ p.result = "throw" => e \in D
            /\ p.result # "throw" =>
                 /\ PoolsAre(D \cup {e}, p.merger)
                 /\ e.kind = "open" => p.result = "open"
                 /\ e.kind # "open" => \/ p.result = e.kind /\ OpenIn(D, e.swap)
                                       \/ /\ p.result = "undefined"
                                          /\ ~OpenIn(D, e.swap) \/ SettledIn(D, e.swap, e.kind)
<1> DEFINE p == process(m, e)
           S == SettlingFor(m, e.swap)
           E == D \cup {e}
<1>1. /\ m \in MergerType
      /\ \A w \in Swap : w \in m.open <=> OpenIn(D, w) /\ \A k \in Settled : ~SettledIn(D, w, k)
      /\ \A s \in m.settling : SettledIn(D, s.swap, s.kind)
  BY DEF PoolsAre
<1>2. /\ e.swap \in Swap /\ (e.kind = "open" \/ e.kind \in Settled) /\ "open" \notin Settled
      /\ e.kind # "throw" /\ m.settling \subseteq SettlingType
  BY <1>1, EventTypes DEF MergerType
<1>3. \A w \in Swap : OpenIn(E, w) <=> OpenIn(D, w) \/ (w = e.swap /\ e.kind = "open")
  BY DEF OpenIn
<1>4. \A w \in Swap : \A k : SettledIn(E, w, k) <=> SettledIn(D, w, k) \/ (w = e.swap /\ e.kind = k)
  BY DEF SettledIn
<1>5. \A k, j \in Settled : SettledIn(E, e.swap, k) /\ SettledIn(E, e.swap, j) => k = j
  BY <1>2 DEF Legal, SettledIn
<1>6. S = {s \in m.settling : s.swap = e.swap}
  BY DEF SettlingFor
<1>7. \A s \in SettlingType : s.swap \in Swap /\ s.kind \in Settled
  BY DEF SettlingType
<1>8. p.merger \in MergerType /\ p.result \in Result
  BY <1>1, ProcessCases
<1>9. CASE e.kind = "open"
  <2>1. \A k \in Settled : ~SettledIn(D, e.swap, k)
    BY <1>2, <1>9 DEF SettledIn
  <2>2. S = {}
    BY <1>1, <1>2, <1>6, <1>7, <2>1
  <2>3. CASE e.swap \in m.open
    <3>1. PICK d \in D : d.swap = e.swap /\ d.kind = "open"
      BY <1>1, <1>2, <2>3 DEF OpenIn
    <3>2. d = e
      BY <1>9, <3>1 DEF Legal
    <3>3. p.result = "throw"
      BY <1>1, <1>9, <2>2, <2>3, ProcessCases
    <3> QED BY <1>8, <3>1, <3>2, <3>3
  <2>4. CASE e.swap \notin m.open
    <3>1. p.merger.open = m.open \cup {e.swap} /\ p.merger.settling = m.settling /\ p.result = "open"
      BY <1>1, <1>9, <2>2, <2>4, ProcessCases
    <3> HIDE DEF p, S, E
    <3>2. \A w \in Swap : w \in p.merger.open <=> OpenIn(E, w) /\ \A k \in Settled : ~SettledIn(E, w, k)
      BY <1>1, <1>2, <1>3, <1>4, <1>9, <2>1, <3>1
    <3>3. \A s \in p.merger.settling : SettledIn(E, s.swap, s.kind)
      BY <1>1, <1>2, <1>4, <1>7, <3>1
    <3> QED BY <1>8, <1>9, <3>1, <3>2, <3>3 DEF PoolsAre, p, E
  <2> QED BY <2>3, <2>4
<1>10. CASE e.kind # "open"
  <2>1. e.kind \in Settled
    BY <1>2, <1>10
  <2>2. CASE e.swap \in m.open
    <3>1. p.merger.open = m.open \ {e.swap} /\ p.merger.settling = m.settling /\ p.result = e.kind
      BY <1>1, <1>10, <2>2, ProcessCases
    <3> HIDE DEF p, S, E
    <3>2. OpenIn(D, e.swap)
      BY <1>1, <1>2, <2>2
    <3>3. \A w \in Swap : w \in p.merger.open <=> OpenIn(E, w) /\ \A k \in Settled : ~SettledIn(E, w, k)
      BY <1>1, <1>2, <1>3, <1>4, <1>10, <2>1, <3>1
    <3>4. \A s \in p.merger.settling : SettledIn(E, s.swap, s.kind)
      BY <1>1, <1>2, <1>4, <1>7, <3>1
    <3>5. PoolsAre(E, p.merger)
      BY <1>8, <3>3, <3>4 DEF PoolsAre
    <3> QED BY <1>2, <1>8, <1>10, <3>1, <3>2, <3>5 DEF p, E
  <2>3. CASE e.swap \notin m.open /\ S # {}
    <3>1. p.result = "throw"
      BY <1>1, <1>10, <2>3, ProcessCases
    <3>2. PICK s \in m.settling : s.swap = e.swap
      BY <1>6, <2>3
    <3>3. PICK d \in D : d.swap = e.swap /\ d.kind = s.kind
      BY <1>1, <3>2 DEF SettledIn
    <3>4. d.kind # "open"
      BY <1>2, <1>7, <3>2, <3>3
    <3>5. d = e
      BY <1>10, <3>3, <3>4 DEF Legal
    <3> QED BY <1>8, <3>1, <3>3, <3>5
  <2>4. CASE e.swap \notin m.open /\ S = {}
    <3> DEFINE c == [swap |-> e.swap, kind |-> e.kind]
    <3>1. p.merger.open = m.open /\ p.merger.settling = m.settling \cup {c} /\ p.result = "undefined"
      BY <1>1, <1>10, <2>4, ProcessCases
    <3>2. c.swap = e.swap /\ c.kind = e.kind
      OBVIOUS
    <3> HIDE DEF p, S, E, c
    <3>3. ~OpenIn(D, e.swap) \/ SettledIn(D, e.swap, e.kind)
      <4>1. ~OpenIn(D, e.swap) \/ \E k \in Settled : SettledIn(D, e.swap, k)
        BY <1>1, <1>2, <2>4
      <4> QED BY <1>2, <1>4, <1>5, <2>1, <4>1
    <3>4. \A w \in Swap : w \in p.merger.open <=> OpenIn(E, w) /\ \A k \in Settled : ~SettledIn(E, w, k)
      BY <1>1, <1>2, <1>3, <1>4, <1>10, <2>1, <2>4, <3>1, <3>3
    <3>5. \A s \in p.merger.settling : SettledIn(E, s.swap, s.kind)
      BY <1>1, <1>2, <1>4, <1>7, <3>1, <3>2
    <3>6. PoolsAre(E, p.merger)
      BY <1>8, <3>4, <3>5 DEF PoolsAre
    <3> QED BY <1>8, <1>10, <3>1, <3>3, <3>6 DEF p, E
  <2> QED BY <2>2, <2>3, <2>4
<1> QED
  BY <1>9, <1>10

AccType == [merger : MergerType, states : [Swap -> Result], threw : BOOLEAN]

LEMMA MergeOneTypes ==
  ASSUME NEW acc \in AccType, NEW e \in Event
  PROVE  LET p == process(acc.merger, e)
         IN /\ MergeOne(acc, e) \in AccType /\ MergeOne(acc, e).merger = p.merger
            /\ MergeOne(acc, e).threw <=> acc.threw \/ p.result = "throw"
            /\ \A w \in Swap : MergeOne(acc, e).states[w] =
                 IF w = e.swap /\ p.result # "undefined" THEN p.result ELSE acc.states[w]
<1> DEFINE p == process(acc.merger, e)
           st == [acc.states EXCEPT ![e.swap] = IF p.result = "undefined" THEN @ ELSE p.result]
           t == acc.threw \/ p.result = "throw"
<1>1. acc.merger \in MergerType /\ acc.states \in [Swap -> Result] /\ e.swap \in Swap
  BY EventTypes DEF AccType
<1>2. p.merger \in MergerType /\ p.result \in Result
  BY <1>1, ProcessCases
<1>3. MergeOne(acc, e) = [merger |-> p.merger, states |-> st, threw |-> t]
  BY DEF MergeOne
<1>4. t \in BOOLEAN
  BY DEF AccType
<1> HIDE DEF p
<1>5. /\ st \in [Swap -> Result]
      /\ \A w \in Swap : st[w] = IF w = e.swap /\ p.result # "undefined" THEN p.result ELSE acc.states[w]
  BY <1>1, <1>2
<1>6. t <=> acc.threw \/ p.result = "throw"
  OBVIOUS
<1> HIDE DEF st, t
<1>7. MergeOne(acc, e) \in AccType
  BY <1>2, <1>3, <1>4, <1>5 DEF AccType
<1>8. MergeOne(acc, e).merger = p.merger /\ MergeOne(acc, e).states = st /\ MergeOne(acc, e).threw = t
  BY <1>3
<1> QED
  BY <1>5, <1>6, <1>7, <1>8 DEF p

(* What a merger that has not thrown has of the events of D. *)
AccIs(D, acc) == ~acc.threw => PoolsAre(D, acc.merger) /\ StatesAre(D, acc.states)

LEMMA MergeOneKeeps ==
  ASSUME NEW D \in SUBSET Event, NEW e \in Event, Legal(D \cup {e}),
         e.kind = "open" => \A d \in D : d.kind = "open",
         NEW acc \in AccType, AccIs(D, acc)
  PROVE  /\ AccIs(D \cup {e}, MergeOne(acc, e))
         /\ MergeOne(acc, e).threw => acc.threw \/ e \in D
<1> DEFINE p == process(acc.merger, e)
           st == MergeOne(acc, e).states
           E == D \cup {e}
<1>1. /\ MergeOne(acc, e) \in AccType /\ MergeOne(acc, e).merger = p.merger
      /\ MergeOne(acc, e).threw <=> acc.threw \/ p.result = "throw"
      /\ \A w \in Swap : st[w] = IF w = e.swap /\ p.result # "undefined" THEN p.result ELSE acc.states[w]
  BY MergeOneTypes
<1> SUFFICES ASSUME ~acc.threw
             PROVE  /\ p.result = "throw" => e \in D
                    /\ p.result # "throw" => PoolsAre(E, p.merger) /\ StatesAre(E, st)
  BY <1>1 DEF AccIs
<1>2. PoolsAre(D, acc.merger) /\ StatesAre(D, acc.states)
  BY DEF AccIs
<1>3. /\ p.result = "throw" => e \in D
      /\ p.result # "throw" =>
           /\ PoolsAre(E, p.merger)
           /\ e.kind = "open" => p.result = "open"
           /\ e.kind # "open" => \/ p.result = e.kind /\ OpenIn(D, e.swap)
                                 \/ /\ p.result = "undefined"
                                    /\ ~OpenIn(D, e.swap) \/ SettledIn(D, e.swap, e.kind)
  BY <1>2, ProcessAgain
<1>4. st \in [Swap -> Result]
  BY <1>1 DEF AccType
<1>5. /\ e.swap \in Swap /\ (e.kind = "open" \/ e.kind \in Settled) /\ "open" \notin Settled
      /\ "undefined" \notin Settled /\ e.kind # "undefined"
  BY EventTypes
<1>6. \A w \in Swap : OpenIn(E, w) <=> OpenIn(D, w) \/ (w = e.swap /\ e.kind = "open")
  BY DEF OpenIn
<1>7. \A w \in Swap, k \in Settled : SettledIn(E, w, k) <=> SettledIn(D, w, k) \/ (w = e.swap /\ e.kind = k)
  BY DEF SettledIn
<1>8. \A k, j \in Settled : SettledIn(E, e.swap, k) /\ SettledIn(E, e.swap, j) => k = j
  BY <1>5 DEF Legal, SettledIn
<1>9. e.kind = "open" => \A k \in Settled : ~SettledIn(D, e.swap, k)
  BY <1>5 DEF SettledIn
<1> HIDE DEF p, st, E
<1>10. ASSUME p.result # "throw", NEW w \in Swap
       PROVE  /\ ~OpenIn(E, w) => st[w] = "undefined"
              /\ OpenIn(E, w) /\ (\A k \in Settled : ~SettledIn(E, w, k)) => st[w] = "open"
              /\ \A k \in Settled : OpenIn(E, w) /\ SettledIn(E, w, k) => st[w] = k
  <2>1. /\ ~OpenIn(D, w) => acc.states[w] = "undefined"
        /\ OpenIn(D, w) /\ (\A k \in Settled : ~SettledIn(D, w, k)) => acc.states[w] = "open"
        /\ \A k \in Settled : OpenIn(D, w) /\ SettledIn(D, w, k) => acc.states[w] = k
    BY <1>2 DEF StatesAre
  <2>2. CASE w # e.swap
    BY <1>1, <1>6, <1>7, <2>1, <2>2
  <2>3. CASE w = e.swap /\ e.kind = "open"
    <3>1. st[w] = "open"
      BY <1>1, <1>3, <1>10, <2>3
    <3>2. OpenIn(E, w) /\ \A k \in Settled : ~SettledIn(E, w, k)
      BY <1>5, <1>6, <1>7, <1>9, <2>3
    <3> QED BY <3>1, <3>2
  <2>4. CASE w = e.swap /\ e.kind \in Settled
    <3>1. /\ OpenIn(E, w) <=> OpenIn(D, w)
          /\ SettledIn(E, w, e.kind) /\ \A k \in Settled : SettledIn(E, w, k) => k = e.kind
      BY <1>5, <1>6, <1>7, <1>8, <2>4
    <3>2. CASE p.result = e.kind /\ OpenIn(D, e.swap)
      BY <1>1, <1>5, <2>4, <3>1, <3>2
    <3>3. CASE p.result = "undefined" /\ (~OpenIn(D, e.swap) \/ SettledIn(D, e.swap, e.kind))
      <4>1. st[w] = acc.states[w]
        BY <1>1, <3>3
      <4> QED BY <2>1, <2>4, <3>1, <3>3, <4>1
    <3> QED BY <1>3, <1>5, <1>10, <2>4, <3>2, <3>3
  <2> QED BY <1>5, <2>2, <2>3, <2>4
<1> QED
  BY <1>3, <1>4, <1>10 DEF StatesAre

OffersFirst(events) ==
  \A i, j \in DOMAIN events : i < j /\ events[j].kind = "open" => events[i].kind = "open"

(* A merger of its own, over a list with the offers first: it throws only if *)
(* the list repeats something.                                               *)
LEMMA MergeAllIs ==
  ASSUME NEW events \in Seq(Event), Legal(ToSet(events)), OffersFirst(events)
  PROVE  LET acc == MergeAll(events)
         IN /\ acc \in AccType /\ AccIs(ToSet(events), acc)
            /\ Distinct(events) => ~acc.threw
<1> DEFINE L == Len(events)
           IsMerged(f) == f = [n \in 0 .. L |-> IF n = 0 THEN MergeNone ELSE MergeOne(f[n - 1], events[n])]
           merged == CHOOSE f : IsMerged(f)
           Upto(n) == {events[i] : i \in 1 .. n}
<1>1. L \in Nat /\ DOMAIN events = 1 .. L /\ \A n \in 1 .. L : events[n] \in Event
  BY LenProperties, ElementOfSeq
<1>2. MergeAll(events) = merged[L]
  BY DEF MergeAll
<1>3. MergeNone \in AccType /\ AccIs({}, MergeNone) /\ ~MergeNone.threw
  <2>1. /\ MergeNone.merger = [open |-> {}, settling |-> {}]
        /\ MergeNone.states = [w \in Swap |-> "undefined"] /\ MergeNone.threw = FALSE
        /\ MergeNone = [merger |-> MergeNone.merger, states |-> MergeNone.states, threw |-> MergeNone.threw]
    BY DEF MergeNone, NewMerger
  <2>2. MergeNone.merger \in MergerType /\ MergeNone.states \in [Swap -> Result]
    BY <2>1 DEF MergerType, Result
  <2>3. MergeNone \in AccType
    BY <2>1, <2>2 DEF AccType
  <2>4. \A w : ~OpenIn({}, w) /\ \A k : ~SettledIn({}, w, k)
    BY DEF OpenIn, SettledIn
  <2>5. PoolsAre({}, MergeNone.merger)
    BY <2>1, <2>2, <2>4 DEF PoolsAre
  <2>6. StatesAre({}, MergeNone.states)
    BY <2>1, <2>2, <2>4 DEF StatesAre
  <2> QED BY <2>1, <2>3, <2>5, <2>6 DEF AccIs
<1>4. \E f \in [0 .. L -> AccType] : IsMerged(f)
  <2> DEFINE g == [x \in AccType \X (1 .. L) |-> MergeOne(x[1], events[x[2]])]
  <2>1. g \in [AccType \X (1 .. L) -> AccType]
    BY <1>1, MergeOneTypes
  <2>2. \A x \in AccType, n \in 1 .. L : g[<<x, n>>] = MergeOne(x, events[n])
    OBVIOUS
  <2> HIDE DEF g, L
  <2>3. PICK f \in [0 .. L -> AccType] : f[0] = MergeNone /\ \A n \in 1 .. L : f[n] = g[<<f[n - 1], n>>]
    <3>1. L \in Nat /\ g \in StepFunctions(AccType, L)
      BY <1>1, <2>1 DEF StepFunctions
    <3>2. \E f : Recurs(f, AccType, MergeNone, g, L)
      BY <1>3, <3>1, Recursion
    <3> QED BY <3>2 DEF Recurs
  <2>4. \A n \in 1 .. L : f[n - 1] \in AccType
    BY <1>1, <2>3
  <2>5. \A n \in 1 .. L : f[n] = MergeOne(f[n - 1], events[n])
    BY <2>2, <2>3, <2>4
  <2>6. f = [n \in 0 .. L |-> IF n = 0 THEN MergeNone ELSE MergeOne(f[n - 1], events[n])]
    <3>1. \A n \in 0 .. L : n # 0 => n \in 1 .. L
      BY <1>1
    <3> QED BY <2>3, <2>5, <3>1
  <2> QED BY <2>3, <2>6
<1>5. IsMerged(merged)
  BY <1>4
<1> HIDE DEF merged
<1>6. merged[0] = MergeNone /\ \A n \in 1 .. L : merged[n] = MergeOne(merged[n - 1], events[n])
  <2>1. merged = [n \in 0 .. L |-> IF n = 0 THEN MergeNone ELSE MergeOne(merged[n - 1], events[n])]
    BY <1>5
  <2>2. 0 \in 0 .. L /\ \A n \in 1 .. L : n \in 0 .. L /\ n # 0
    BY <1>1
  <2> HIDE DEF L
  <2>3. \A n \in 0 .. L : merged[n] = IF n = 0 THEN MergeNone ELSE MergeOne(merged[n - 1], events[n])
    BY <2>1
  <2> QED BY <2>2, <2>3
<1> DEFINE Good(n) == /\ merged[n] \in AccType /\ AccIs(Upto(n), merged[n])
                      /\ Distinct(events) => ~merged[n].threw
           P == {n \in 0 .. L : Good(n)}
<1>7. Good(0)
  <2>1. Upto(0) = {}
    OBVIOUS
  <2> HIDE DEF Upto
  <2> QED BY <1>3, <1>6, <2>1
<1>8. ASSUME NEW k \in 0 .. L - 1, Good(k) PROVE Good(k + 1)
  <2> DEFINE e == events[k + 1]
             D == Upto(k)
  <2>1. k + 1 \in 1 .. L /\ (k + 1) - 1 = k /\ k \in Nat /\ 1 .. k \subseteq 1 .. L
    BY <1>1
  <2>2. e \in Event /\ D \subseteq Event
    BY <1>1, <2>1
  <2>3. Upto(k + 1) = D \cup {e}
    <3>1. 1 .. k + 1 = (1 .. k) \cup {k + 1}
      BY <2>1
    <3> QED BY <3>1
  <2>4. Distinct(events) => e \notin D
    <3> SUFFICES ASSUME Distinct(events), NEW i \in 1 .. k, events[i] = events[k + 1] PROVE FALSE
      OBVIOUS
    <3>1. i \in 1 .. L /\ i # k + 1
      BY <2>1
    <3> QED BY <1>1, <2>1, <3>1 DEF Distinct
  <2>5. D \cup {e} \subseteq ToSet(events)
    BY <1>1, <2>1 DEF ToSet
  <2>6. Legal(D \cup {e})
    BY <2>5 DEF Legal
  <2>7. merged[k + 1] = MergeOne(merged[k], e)
    BY <1>6, <2>1
  <2>8. e.kind = "open" => \A d \in D : d.kind = "open"
    <3> SUFFICES ASSUME e.kind = "open", NEW i \in 1 .. k PROVE events[i].kind = "open"
      OBVIOUS
    <3>1. i \in DOMAIN events /\ k + 1 \in DOMAIN events /\ i < k + 1
      BY <1>1, <2>1
    <3> QED BY <3>1 DEF OffersFirst
  <2> HIDE DEF e, D
  <2>9. merged[k] \in AccType /\ AccIs(D, merged[k]) /\ (Distinct(events) => ~merged[k].threw)
    BY <1>8 DEF D
  <2>10. MergeOne(merged[k], e) \in AccType
    BY <2>2, <2>9, MergeOneTypes
  <2>11. /\ AccIs(D \cup {e}, MergeOne(merged[k], e))
         /\ MergeOne(merged[k], e).threw => merged[k].threw \/ e \in D
    BY <2>2, <2>6, <2>8, <2>9, MergeOneKeeps
  <2>12. Distinct(events) => ~MergeOne(merged[k], e).threw
    BY <2>4, <2>9, <2>11
  <2> QED BY <2>3, <2>7, <2>10, <2>11, <2>12
<1>9. L \in P
  <2>1. 0 \in P
    BY <1>1, <1>7
  <2>2. \A k \in 0 .. L - 1 : k \in P => k + 1 \in P
    <3>1. \A k \in 0 .. L - 1 : k + 1 \in 0 .. L
      BY <1>1
    <3> QED BY <1>8, <3>1
  <2> HIDE DEF P
  <2>3. \A k \in 0 .. L : k \in P
    BY <1>1, <2>1, <2>2, UpToTheEnd
  <2> QED BY <1>1, <2>3
<1>10. Upto(L) = ToSet(events)
  BY <1>1 DEF ToSet
<1> QED
  BY <1>2, <1>9, <1>10


(* The converse: what the state of a swap says of its events. *)
LEMMA StateAtTells ==
  ASSUME chain \in Seq(Event), ChainInv, NEW w \in Swap, NEW n \in 0 .. Len(chain)
  PROVE  /\ StateAt(w, n) = "undefined" \/ StateAt(w, n) = "open" \/ StateAt(w, n) \in Settled
         /\ StateAt(w, n) = "undefined" => \A i \in 1 .. n : chain[i].swap # w
         /\ StateAt(w, n) = "open" => /\ \E i \in 1 .. n : chain[i].swap = w
                                      /\ \A i \in 1 .. n : chain[i].swap = w => chain[i].kind = "open"
         /\ StateAt(w, n) \in Settled => \E i \in 1 .. n : chain[i].swap = w /\ chain[i].kind = StateAt(w, n)
<1>1. /\ (\A i \in 1 .. n : chain[i].swap # w) => StateAt(w, n) = "undefined"
      /\ \A i \in 1 .. n : chain[i].swap = w /\ chain[i].kind \in Settled => StateAt(w, n) = chain[i].kind
      /\ \A i \in 1 .. n : chain[i].swap = w /\ (\A j \in 1 .. n : chain[j].swap = w => chain[j].kind = "open")
           => StateAt(w, n) = "open"
  BY StateAtIs
<1>2. \A i \in 1 .. n : chain[i].kind = "open" \/ chain[i].kind \in Settled
  <2>1. \A i \in 1 .. n : i \in 1 .. Len(chain)
    BY LenProperties
  <2> QED BY <2>1, ElementOfSeq, EventTypes
<1>3. "open" \notin Settled /\ "undefined" \notin Settled
  BY DEF Settled
<1> HIDE DEF StateAt
<1> QED
  BY <1>1, <1>2, <1>3

(* The chain repeats nothing, and its events are legal. *)
LEMMA ChainFacts ==
  ASSUME chain \in Seq(Event), ChainInv
  PROVE  /\ DOMAIN chain = 1 .. Len(chain) /\ Len(chain) \in Nat /\ \A n \in DOMAIN chain : chain[n] \in Event
         /\ Distinct(chain) /\ Legal(ToSet(chain)) /\ ToSet(chain) \subseteq Event
<1>1. DOMAIN chain = 1 .. Len(chain) /\ Len(chain) \in Nat /\ \A n \in DOMAIN chain : chain[n] \in Event
  BY LenProperties, ElementOfSeq
<1>2. "open" \notin Settled
  BY DEF Settled
<1>3. \A m, n \in DOMAIN chain : chain[m].swap = chain[n].swap /\ m # n =>
        (chain[m].kind = "open" <=> chain[n].kind # "open")
  <2> SUFFICES ASSUME NEW m \in DOMAIN chain, NEW n \in DOMAIN chain, chain[m].swap = chain[n].swap, m # n
               PROVE  chain[m].kind = "open" <=> chain[n].kind # "open"
    OBVIOUS
  <2>1. m < n \/ n < m
    BY <1>1
  <2> QED BY <1>2, <2>1 DEF ChainInv
<1>4. Distinct(chain)
  <2> SUFFICES ASSUME NEW m \in DOMAIN chain, NEW n \in DOMAIN chain, chain[m] = chain[n], m # n
               PROVE  FALSE
    BY DEF Distinct
  <2> QED BY <1>3
<1>5. Legal(ToSet(chain))
  <2> SUFFICES ASSUME NEW m \in DOMAIN chain, NEW n \in DOMAIN chain, chain[m].swap = chain[n].swap,
                      chain[m] # chain[n]
               PROVE  chain[m].kind = "open" <=> chain[n].kind # "open"
    BY DEF Legal, ToSet
  <2> QED BY <1>3
<1>6. ToSet(chain) \subseteq Event
  BY <1>1 DEF ToSet
<1> QED
  BY <1>1, <1>4, <1>5, <1>6

(* A settled swap was open before. *)
LEMMA OpenBefore ==
  ASSUME chain \in Seq(Event), ChainInv, NEW n \in DOMAIN chain, chain[n].kind \in Settled
  PROVE  \E m \in 1 .. n - 1 : m \in DOMAIN chain /\ chain[m].swap = chain[n].swap /\ chain[m].kind = "open"
<1>1. PICK m \in 1 .. n - 1 : chain[m].swap = chain[n].swap
  BY DEF ChainInv
<1>2. m \in DOMAIN chain /\ m < n
  BY ChainFacts
<1> QED
  BY <1>1, <1>2 DEF ChainInv

-----------------------------------------------------------------------------
(* watchSwaps() and getSwaps(). *)

(* The events that the two live streams have delivered. *)
Delivered == {chain[n] : n \in {i \in DOMAIN chain : i <= taken[chain[i].tag]}}

(* What watchSwaps() has emitted of a swap after the events of D. *)
OutIs(D, w, u) ==
  /\ ~OpenIn(D, w) => u = <<>>
  /\ OpenIn(D, w) /\ (\A k \in Settled : ~SettledIn(D, w, k)) => u = <<"open">>
  /\ \A k \in Settled : OpenIn(D, w) /\ SettledIn(D, w, k) => u \in {<<k>>, <<"open", k>>}

EmittedStates == Result \ {"undefined", "throw"}

(* The transactions of the chain with a tag, and those of them that were in  *)
(* the chain when getSwaps() was called.                                     *)
TaggedIn(tag) == {e \in ToSet(chain) : e.tag = tag}
Early(tag) == {chain[i] : i \in {j \in 1 .. query.start : chain[j].tag = tag}}

QueryType(n) ==
  [step : {"none", "done", "rejected", "failed"} \cup Tag, found : Seq(Event), page : Nat \ {0},
   txs : Seq(Event), setTxs : Seq(Event), start : 0 .. n, end : 0 .. n,
   moved : BOOLEAN, result : [Swap -> Result]]

(* A search has found all transactions of the call's start; it has one twice *)
(* only if results have moved.                                               *)
FoundIs(tag, txs) ==
  /\ ToSet(txs) \subseteq TaggedIn(tag)
  /\ Early(tag) \subseteq ToSet(txs)
  /\ ~query.moved => Distinct(txs)

(* The results up to r were among those read; what joins them moves the      *)
(* others behind, never before a page that was read.                         *)
PagesRead(tag, r) ==
  /\ Distinct(query.found) /\ ToSet(query.found) = TaggedIn(tag)
  /\ r <= Len(query.found) /\ Len(query.txs) = r
  /\ ToSet(query.txs) \subseteq TaggedIn(tag)
  /\ \A j \in 1 .. r : query.found[j] \in Early(tag) => query.found[j] \in ToSet(query.txs)
  /\ ~query.moved => \A j \in 1 .. r : query.txs[j] = query.found[j]

QueryInv ==
  /\ query \in QueryType(Len(chain))
  /\ query.step \in Tag => PagesRead(query.step, (query.page - 1) * PerPage)
  /\ query.step = "del" => FoundIs("set", query.setTxs)
  /\ GetSwapsIsConsistent

WatchSwapsInv ==
  /\ taken \in [Tag -> 0 .. Len(chain)]
  /\ MergedIs(Delivered, merger)
  /\ out \in [Swap -> Seq(EmittedStates)]
  /\ \A w \in Swap : OutIs(Delivered, w, out[w])
  /\ failed = FALSE

SwapInv ==
  /\ chain \in Seq(Event)
  /\ ChainInv
  /\ WatchSwapsInv
  /\ QueryInv

LEMMA SwapInitially == SwapInit => SwapInv
<1> SUFFICES ASSUME SwapInit PROVE SwapInv
  OBVIOUS
<1>1. chain = <<>> /\ Len(chain) = 0 /\ DOMAIN chain = {} /\ chain \in Seq(Event)
  BY EmptySeq DEF SwapInit
<1>2. ChainInv
  BY <1>1 DEF ChainInv
<1>3. Delivered = {}
  BY <1>1 DEF Delivered
<1>4. \A w : ~OpenIn({}, w) /\ \A k : ~SettledIn({}, w, k)
  BY DEF OpenIn, SettledIn
<1>5. MergedIs({}, merger)
  BY <1>4 DEF SwapInit, NewMerger, MergedIs, MergerType
<1>6. out \in [Swap -> Seq(EmittedStates)] /\ \A w \in Swap : OutIs({}, w, out[w])
  <2>1. out = [w \in Swap |-> <<>>]
    BY DEF SwapInit
  <2>2. \A w \in Swap : out[w] = <<>>
    BY <2>1
  <2> QED BY <1>4, <2>1, <2>2, EmptySeq DEF OutIs
<1>7. taken \in [Tag -> 0 .. Len(chain)] /\ failed = FALSE
  BY <1>1 DEF SwapInit
<1>8. WatchSwapsInv
  BY <1>3, <1>5, <1>6, <1>7 DEF WatchSwapsInv
<1>9. query = NoQuery /\ query.step = "none" /\ query \in QueryType(Len(chain))
  BY <1>1, EmptySeq DEF SwapInit, NoQuery, QueryType, Result
<1>10. QueryInv
  BY <1>9 DEF QueryInv, GetSwapsIsConsistent, Tag
<1> QED
  BY <1>1, <1>2, <1>8, <1>10 DEF SwapInv

(* A transaction more does not change the states before it. *)
LEMMA StatesStay ==
  ASSUME chain \in Seq(Event), NEW e \in Event, chain' = Append(chain, e), NEW w \in Swap, NEW n \in 0 .. Len(chain)
  PROVE  StateAt(w, n)' = StateAt(w, n)
<1>1. Len(chain) \in Nat /\ \A i \in 1 .. Len(chain) : chain'[i] = chain[i]
  BY LenProperties, AppendProperties
<1>2. \A i \in 1 .. n : i \in 1 .. Len(chain)
  BY <1>1
<1>3. \A i \in 1 .. n : chain'[i] = chain[i]
  BY <1>1, <1>2
<1> DEFINE of == {i \in 1 .. n : chain[i].swap = w}
<1>4. {i \in 1 .. n : chain'[i].swap = w} = of
  BY <1>3
<1>5. of # {} => chain'[Max(of)] = chain[Max(of)]
  <2>1. of \subseteq Nat /\ n \in Nat /\ \A x \in of : x <= n
    BY <1>1
  <2>2. of # {} => Max(of) \in of
    BY <2>1, MaxOfBounded
  <2> QED BY <1>3, <2>2
<1> QED
  BY <1>4, <1>5 DEF StateAt

(* Nothing of the query depends on anything but it and the chain. *)
LEMMA QueryUnchanged ==
  ASSUME QueryInv, UNCHANGED <<chain, query>>
  PROVE  QueryInv'
<1>1. \A w \in Swap, k \in query.start .. query.end : StateAt(w, k)' = StateAt(w, k)
  BY DEF StateAt
<1>2. GetSwapsIsConsistent'
  <2>1. GetSwapsIsConsistent
    BY DEF QueryInv
  <2> HIDE DEF StateAt
  <2> QED BY <1>1, <2>1 DEF GetSwapsIsConsistent
<1> QED
  BY <1>2 DEF QueryInv, PagesRead, FoundIs, TaggedIn, Early

LEMMA ConfirmKeeps ==
  ASSUME SwapInv, NEW e \in Event, Confirm(e)
  PROVE  SwapInv'
<1> DEFINE L == Len(chain)
<1>1. chain \in Seq(Event) /\ ChainInv /\ WatchSwapsInv /\ QueryInv
  BY DEF SwapInv
<1>2. chain' = Append(chain, e) /\ UNCHANGED <<merger, taken, out, failed>> /\ JoinResults(e)
  BY DEF Confirm
<1>3. DOMAIN chain = 1 .. L /\ L \in Nat /\ \A n \in DOMAIN chain : chain[n] \in Event
  BY <1>1, ChainFacts
<1>4. /\ chain' \in Seq(Event) /\ Len(chain') = L + 1 /\ DOMAIN chain' = 1 .. L + 1
      /\ chain'[L + 1] = e /\ \A n \in DOMAIN chain : chain'[n] = chain[n]
  BY <1>1, <1>2, <1>3, AppendProperties, LenProperties
<1>5. /\ \A n \in DOMAIN chain' : n \in DOMAIN chain \/ n = L + 1
      /\ \A n \in DOMAIN chain : n < L + 1 /\ ~(L + 1 < n) /\ n \in DOMAIN chain' /\ n \in 1 .. (L + 1) - 1
  BY <1>3, <1>4
<1>6. e.swap \in Swap /\ (e.kind = "open" \/ e.kind \in Settled) /\ "open" \notin Settled
  BY EventTypes
<1>7. ChainInv'
  <2>1. \A m \in DOMAIN chain : chain[m].swap = e.swap => chain[m].kind = "open" /\ e.kind \in Settled
    <3>1. CASE e.kind = "open"
      <4>1. StateAt(e.swap, L) = "undefined"
        BY <3>1 DEF Confirm
      <4> QED BY <1>1, <1>3, <1>6, <4>1, StateAtTells
    <3>2. CASE e.kind # "open"
      <4>1. StateAt(e.swap, L) = "open"
        BY <3>2 DEF Confirm
      <4> QED BY <1>1, <1>3, <1>6, <3>2, <4>1, StateAtTells
    <3> QED BY <3>1, <3>2
  <2>2. e.kind \in Settled => \E m \in DOMAIN chain : chain[m].swap = e.swap
    <3> SUFFICES ASSUME e.kind \in Settled PROVE \E m \in DOMAIN chain : chain[m].swap = e.swap
      OBVIOUS
    <3>1. StateAt(e.swap, L) = "open"
      BY <1>6 DEF Confirm
    <3> QED BY <1>1, <1>3, <1>6, <3>1, StateAtTells
  <2>3. \A m, n \in DOMAIN chain' : chain'[m].swap = chain'[n].swap /\ m < n =>
          chain'[m].kind = "open" /\ chain'[n].kind \in Settled
    <3> SUFFICES ASSUME NEW m \in DOMAIN chain', NEW n \in DOMAIN chain', chain'[m].swap = chain'[n].swap, m < n
                 PROVE  chain'[m].kind = "open" /\ chain'[n].kind \in Settled
      OBVIOUS
    <3>1. m \in DOMAIN chain
      BY <1>3, <1>4
    <3>2. CASE n \in DOMAIN chain
      BY <1>1, <1>4, <3>1, <3>2 DEF ChainInv
    <3>3. CASE n = L + 1
      BY <1>4, <2>1, <3>1, <3>3
    <3> QED BY <1>5, <3>2, <3>3
  <2>4. \A n \in DOMAIN chain' : chain'[n].kind \in Settled =>
          \E m \in 1 .. n - 1 : chain'[m].swap = chain'[n].swap
    <3> SUFFICES ASSUME NEW n \in DOMAIN chain', chain'[n].kind \in Settled
                 PROVE  \E m \in 1 .. n - 1 : chain'[m].swap = chain'[n].swap
      OBVIOUS
    <3>1. CASE n \in DOMAIN chain
      <4>1. PICK m \in 1 .. n - 1 : chain[m].swap = chain[n].swap
        BY <1>1, <1>4, <3>1 DEF ChainInv
      <4>2. m \in DOMAIN chain
        BY <1>3, <3>1
      <4> QED BY <1>4, <3>1, <4>1, <4>2
    <3>2. CASE n = L + 1
      BY <1>4, <1>5, <2>2, <3>2
    <3> QED BY <1>5, <3>1, <3>2
  <2> QED BY <2>3, <2>4 DEF ChainInv
<1>8. WatchSwapsInv'
  <2>1. taken \in [Tag -> 0 .. L] /\ \A tag \in Tag : taken[tag] \in 0 .. L
    BY <1>1 DEF WatchSwapsInv
  <2>2. taken' \in [Tag -> 0 .. L + 1]
    <3>1. 0 .. L \subseteq 0 .. L + 1
      BY <1>3
    <3> QED BY <1>2, <2>1, <3>1
  <2>3. ~(L + 1 <= taken[e.tag])
    <3>1. taken[e.tag] \in 0 .. L
      BY <2>1, EventTypes
    <3> QED BY <1>3, <3>1
  <2>4. {i \in DOMAIN chain' : i <= taken'[chain'[i].tag]} = {i \in DOMAIN chain : i <= taken[chain[i].tag]}
    BY <1>2, <1>4, <1>5, <2>3
  <2>5. Delivered' = Delivered
    BY <1>4, <2>4 DEF Delivered
  <2> QED BY <1>1, <1>2, <1>4, <2>2, <2>5 DEF WatchSwapsInv
<1>9. QueryInv'
  <2>1. /\ query \in QueryType(L) /\ GetSwapsIsConsistent
        /\ query.step \in Tag => PagesRead(query.step, (query.page - 1) * PerPage)
        /\ query.step = "del" => FoundIs("set", query.setTxs)
    BY <1>1 DEF QueryInv
  <2>2. /\ query.start \in 0 .. L /\ query.end \in 0 .. L /\ query.start \in Nat /\ query.page \in Nat
        /\ query.page # 0 /\ query.found \in Seq(Event) /\ query.txs \in Seq(Event) /\ query.moved \in BOOLEAN
    BY <1>3, <2>1 DEF QueryType
  <2>3. query' \in QueryType(L) =>
          query' \in QueryType(L + 1)
    <3>1. 0 .. L \subseteq 0 .. L + 1
      BY <1>3
    <3> QED BY <3>1 DEF QueryType
  <2>4. ToSet(chain') = ToSet(chain) \cup {e} /\ e \notin ToSet(chain)
    <3>1. ToSet(chain') = ToSet(chain) \cup {e}
      BY <1>4, <1>5 DEF ToSet
    <3>2. ASSUME NEW n \in DOMAIN chain, chain[n] = e PROVE FALSE
      <4>1. chain'[n] = e /\ chain'[L + 1] = e /\ n < L + 1 /\ n \in DOMAIN chain' /\ L + 1 \in DOMAIN chain'
        BY <1>3, <1>4, <1>5, <3>2
      <4>2. e.kind = "open" /\ e.kind \in Settled
        BY <1>7, <4>1 DEF ChainInv
      <4> QED BY <1>6, <4>2
    <3>3. \A n \in DOMAIN chain : chain[n] # e
      BY <3>2
    <3> QED BY <3>1, <3>3 DEF ToSet
  <2>5. \A tag \in Tag : TaggedIn(tag)' = IF tag = e.tag THEN TaggedIn(tag) \cup {e} ELSE TaggedIn(tag)
    BY <2>4 DEF TaggedIn
  <2>6. \A i \in 1 .. query.start : chain'[i] = chain[i] /\ i \in DOMAIN chain
    BY <1>3, <1>4, <2>2
  <2>7. query'.start = query.start => \A tag \in Tag : Early(tag)' = Early(tag)
    BY <2>6 DEF Early
  <2>8. \A tag \in Tag : e \notin Early(tag)
    BY <2>4, <2>6 DEF Early, ToSet
  <2>9. \A w \in Swap, n \in query.start .. query.end : StateAt(w, n)' = StateAt(w, n)
    <3>1. \A n \in query.start .. query.end : n \in 0 .. L
      BY <1>3, <2>2
    <3> QED BY <1>1, <1>2, <3>1, StatesStay
  <2>10. "set" \in Tag /\ e.tag \in Tag
    BY EventTypes DEF Tag
  <2>11. CASE query.step # e.tag
    <3>1. query' = query
      BY <1>2, <2>11 DEF JoinResults
    <3>2. query.step \in Tag => PagesRead(query.step, (query.page - 1) * PerPage)'
      BY <2>1, <2>5, <2>7, <2>11, <3>1 DEF PagesRead
    <3>3. query.step = "del" => FoundIs("set", query.setTxs)'
      BY <2>1, <2>5, <2>7, <2>10, <3>1 DEF FoundIs
    <3>4. GetSwapsIsConsistent'
      BY <2>1, <2>9, <3>1 DEF GetSwapsIsConsistent
    <3> QED BY <1>4, <2>1, <2>3, <3>1, <3>2, <3>3, <3>4 DEF QueryInv
  <2>12. CASE query.step = e.tag
    <3> DEFINE r == (query.page - 1) * PerPage
    <3>1. PICK k \in 0 .. Len(query.found) :
            query' = [query EXCEPT !.found = InsertAt(query.found, k + 1, e), !.moved = query.moved \/ k < r]
      BY <1>2, <2>12 DEF JoinResults
    <3> DEFINE mv == query.moved \/ k < r
    <3>a. PICK f : f = query.found
      OBVIOUS
    <3>b. PICK g : g = InsertAt(f, k + 1, e)
      OBVIOUS
    <3>2. /\ g \in Seq(Event) /\ Len(g) = Len(f) + 1 /\ ToSet(g) = ToSet(f) \cup {e}
          /\ Distinct(f) /\ e \notin ToSet(f) => Distinct(g)
          /\ g[k + 1] = e /\ \A i \in 1 .. k : g[i] = f[i]
          /\ \A i \in k + 2 .. Len(f) + 1 : g[i] = f[i - 1]
      <4>1. f \in Seq(Event) /\ k \in 0 .. Len(f)
        BY <2>2, <3>a
      <4>2. g \in Seq(Event)
        BY <3>b, <4>1, InsertIs
      <4>3. Len(g) = Len(f) + 1
        BY <3>b, <4>1, InsertIs
      <4>4. ToSet(g) = ToSet(f) \cup {e}
        BY <3>b, <4>1, InsertIs
      <4>5. Distinct(f) /\ e \notin ToSet(f) => Distinct(g)
        BY <3>b, <4>1, InsertIs
      <4>6. g[k + 1] = e
        BY <3>b, <4>1, InsertIs
      <4>7. ASSUME NEW i \in 1 .. k PROVE g[i] = f[i]
        BY <3>b, <4>1, InsertIs
      <4>8. ASSUME NEW i \in k + 2 .. Len(f) + 1 PROVE g[i] = f[i - 1]
        BY <3>b, <4>1, InsertIs
      <4> QED BY <4>2, <4>3, <4>4, <4>5, <4>6, <4>7, <4>8
    <3>3. /\ query'.step = query.step /\ query'.found = g /\ query'.page = query.page /\ query'.txs = query.txs
          /\ query'.setTxs = query.setTxs /\ query'.start = query.start /\ query'.end = query.end
          /\ query'.moved = mv /\ query'.result = query.result /\ query' \in QueryType(L)
      <4>1. mv \in BOOLEAN
        BY <2>2
      <4> HIDE DEF mv
      <4>2. query' = [query EXCEPT !.found = g, !.moved = mv]
        BY <3>1, <3>a, <3>b DEF mv
      <4> QED BY <2>1, <3>2, <4>1, <4>2 DEF QueryType
    <3>4. r \in Nat /\ Len(f) \in Nat
      <4>1. query.page - 1 \in Nat
        BY <2>2
      <4> QED BY <2>2, <3>a, <4>1, PageAssumption, Times, LenProperties
    <3>5. /\ Distinct(f) /\ ToSet(f) = TaggedIn(e.tag) /\ r <= Len(f) /\ Len(query.txs) = r
          /\ ToSet(query.txs) \subseteq TaggedIn(e.tag)
          /\ \A j \in 1 .. r : f[j] \in Early(e.tag) => f[j] \in ToSet(query.txs)
          /\ ~query.moved => \A j \in 1 .. r : query.txs[j] = f[j]
      BY <2>1, <2>10, <2>12, <3>a DEF PagesRead
    <3> HIDE DEF r
    <3>6. e \notin ToSet(f)
      BY <2>4, <3>5 DEF TaggedIn
    <3>7. Distinct(g) /\ ToSet(g) = TaggedIn(e.tag)' /\ r <= Len(g)
      BY <2>5, <2>10, <3>2, <3>4, <3>5, <3>6
    <3>8. ASSUME NEW j \in 1 .. r, g[j] \in Early(e.tag) PROVE g[j] \in ToSet(query.txs)
      <4>1. CASE j \in 1 .. k
        BY <3>2, <3>5, <3>8, <4>1
      <4>2. CASE j = k + 1
        <5>1. g[j] = e
          BY <3>2, <4>2
        <5> QED BY <2>8, <2>10, <3>8, <5>1
      <4>3. CASE j > k + 1
        <5>1. k \in Nat
          BY <3>4, <3>a
        <5>2. j \in k + 2 .. Len(f) + 1 /\ j - 1 \in 1 .. r
          BY <3>4, <3>5, <4>3, <5>1
        <5>3. g[j] = f[j - 1]
          BY <3>2, <5>2
        <5> QED BY <3>5, <3>8, <5>2, <5>3
      <4>4. k \in Nat /\ j \in Nat /\ j >= 1
        BY <3>4, <3>a
      <4>5. j \in 1 .. k \/ j = k + 1 \/ j > k + 1
        BY ONLY <4>4
      <4> QED BY <4>1, <4>2, <4>3, <4>5
    <3>9. ASSUME ~mv, NEW j \in 1 .. r PROVE query.txs[j] = g[j]
      <4>1. ~query.moved /\ ~(k < r)
        BY <3>9 DEF r
      <4>2. k \in Nat
        BY <3>4, <3>a
      <4>3. j \in 1 .. k
        BY <3>4, <4>1, <4>2
      <4> QED BY <3>2, <3>5, <4>1, <4>3
    <3> HIDE DEF mv
    <3>10. PagesRead(query.step, (query.page - 1) * PerPage)'
      <4>1. ((query.page - 1) * PerPage)' = r
        BY <3>3 DEF r
      <4>2. Early(e.tag)' = Early(e.tag)
        BY <2>7, <2>10, <3>3
      <4>3. ToSet(query.txs) \subseteq TaggedIn(e.tag)'
        BY <2>5, <2>10, <3>5
      <4> QED BY <2>12, <3>3, <3>5, <3>7, <3>8, <3>9, <4>1, <4>2, <4>3 DEF PagesRead
    <3>11. query.step = "del" => FoundIs("set", query.setTxs)'
      <4>1. mv => TRUE /\ (~mv => ~query.moved)
        BY DEF mv
      <4>2. ~mv => ~query.moved
        BY DEF mv
      <4> QED BY <2>1, <2>5, <2>7, <2>10, <3>3, <4>2 DEF FoundIs
    <3>12. GetSwapsIsConsistent'
      <4>1. query.step # "done" /\ query.step # "rejected"
        BY <2>10, <2>12 DEF Tag
      <4> QED BY <3>3, <4>1 DEF GetSwapsIsConsistent
    <3> QED BY <1>4, <2>3, <3>3, <3>10, <3>11, <3>12 DEF QueryInv
  <2> QED BY <2>11, <2>12
<1> QED
  BY <1>4, <1>7, <1>8, <1>9 DEF SwapInv

LEMMA AppendToOne ==
  ASSUME NEW x, NEW y
  PROVE  Append(<<x>>, y) = <<x, y>>
<1> DEFINE T == {x, y}
           s == <<x>>
           u == <<x, y>>
           v == Append(s, y)
<1>1. s \in Seq(T) /\ Len(s) = 1 /\ s[1] = x
  OBVIOUS
<1>2. u \in Seq(T) /\ Len(u) = 2 /\ u[1] = x /\ u[2] = y
  OBVIOUS
<1>3. y \in T
  OBVIOUS
<1> HIDE DEF s, u, T
<1>4. /\ v \in Seq(T) /\ Len(v) = Len(s) + 1 /\ v[Len(s) + 1] = y
      /\ \A i \in 1 .. Len(s) : v[i] = s[i]
  <2>1. s \in Seq(T)
    BY <1>1
  <2> QED BY <1>3, <2>1, AppendProperties
<1> HIDE DEF v
<1>5. Len(v) = 2 /\ v[1] = x /\ v[2] = y
  <2>1. 1 \in 1 .. 1 /\ 1 + 1 = 2
    OBVIOUS
  <2> QED BY <1>1, <1>4, <2>1
<1>6. \A i \in 1 .. Len(v) : v[i] = u[i]
  BY <1>2, <1>5
<1>7. v = u
  BY <1>2, <1>4, <1>5, <1>6, SeqEqual
<1> QED
  BY <1>7 DEF s, u, v

(* What is emitted follows process(). *)
LEMMA EmitKeeps ==
  ASSUME NEW D \in SUBSET Event, NEW e \in Event, e \notin D, Legal(D \cup {e}),
         NEW r, ResultIs(D, e, r), NEW w \in Swap, NEW u, OutIs(D, w, u)
  PROVE  OutIs(D \cup {e}, w, IF w = e.swap /\ r # "undefined" THEN Append(u, r) ELSE u)
<1> DEFINE E == D \cup {e}
           v == IF w = e.swap /\ r # "undefined" THEN Append(u, r) ELSE u
<1>1. e.swap \in Swap /\ (e.kind = "open" \/ e.kind \in Settled) /\ "open" \notin Settled /\ "undefined" \notin Settled
  BY EventTypes
<1>2. OpenIn(E, w) <=> OpenIn(D, w) \/ (w = e.swap /\ e.kind = "open")
  BY DEF OpenIn
<1>3. \A k \in Settled : SettledIn(E, w, k) <=> SettledIn(D, w, k) \/ (w = e.swap /\ e.kind = k)
  BY DEF SettledIn
<1>4. e.kind = "open" => ~OpenIn(D, e.swap)
  BY DEF Legal, OpenIn
<1>5. e.kind \in Settled => \A k \in Settled : ~SettledIn(D, e.swap, k)
  BY <1>1 DEF Legal, SettledIn
<1>6. \A k, j \in Settled : SettledIn(D, e.swap, k) /\ SettledIn(D, e.swap, j) => k = j
  BY <1>1 DEF Legal, SettledIn
<1> HIDE DEF E
<1>7. CASE w # e.swap
  <2>1. v = u
    BY <1>7
  <2> HIDE DEF v
  <2>2. OutIs(E, w, v)
    BY <1>2, <1>3, <1>7, <2>1 DEF OutIs
  <2> QED BY <2>2 DEF E, v
<1>8. CASE w = e.swap /\ e.kind = "open"
  <2>1. \/ r = "open" /\ \A k \in Settled : ~SettledIn(D, w, k)
        \/ r \in Settled /\ SettledIn(D, w, r)
    BY <1>8 DEF ResultIs
  <2>2. u = <<>>
    BY <1>4, <1>8 DEF OutIs
  <2>3. v = <<r>>
    BY <1>1, <1>8, <2>1, <2>2
  <2>4. OpenIn(E, w) /\ \A k \in Settled : SettledIn(E, w, k) <=> SettledIn(D, w, k)
    BY <1>1, <1>2, <1>3, <1>8
  <2>5. \A k \in Settled : SettledIn(D, w, k) => r = k
    BY <1>6, <1>8, <2>1
  <2> HIDE DEF v
  <2>6. OutIs(E, w, v)
    BY <2>1, <2>3, <2>4, <2>5 DEF OutIs
  <2> QED BY <2>6 DEF E, v
<1>9. CASE w = e.swap /\ e.kind \in Settled
  <2>1. \/ r = e.kind /\ OpenIn(D, w)
        \/ r = "undefined" /\ ~OpenIn(D, w)
    BY <1>1, <1>9 DEF ResultIs
  <2>2. /\ OpenIn(E, w) <=> OpenIn(D, w)
        /\ \A k \in Settled : SettledIn(E, w, k) <=> e.kind = k
    BY <1>1, <1>2, <1>3, <1>5, <1>9
  <2>3. CASE OpenIn(D, w)
    <3>1. u = <<"open">>
      BY <1>5, <1>9, <2>3 DEF OutIs
    <3>2. v = <<"open", e.kind>>
      <4>1. v = Append(u, e.kind)
        BY <1>1, <1>9, <2>1, <2>3
      <4>2. Append(<<"open">>, e.kind) = <<"open", e.kind>>
        BY AppendToOne
      <4> QED BY <3>1, <4>1, <4>2
    <3> HIDE DEF v
    <3>3. OutIs(E, w, v)
      BY <1>9, <2>2, <2>3, <3>2 DEF OutIs
    <3> QED BY <3>3 DEF E, v
  <2>4. CASE ~OpenIn(D, w)
    <3>1. v = u /\ u = <<>>
      BY <2>1, <2>4, <1>1, <1>9 DEF OutIs
    <3> HIDE DEF v
    <3>2. OutIs(E, w, v)
      BY <2>2, <2>4, <3>1 DEF OutIs
    <3> QED BY <3>2 DEF E, v
  <2> QED BY <2>3, <2>4
<1> QED
  BY <1>1, <1>7, <1>8, <1>9

LEMMA WatchEventKeeps ==
  ASSUME SwapInv, NEW tag \in Tag, WatchEvent(tag)
  PROVE  SwapInv'
<1> DEFINE L == Len(chain)
<1>1. chain \in Seq(Event) /\ ChainInv /\ WatchSwapsInv /\ QueryInv
  BY DEF SwapInv
<1>2. PICK n \in NextTagged(tag) :
        LET p == process(merger, chain[n])
        IN /\ merger' = p.merger
           /\ failed' = (p.result = "throw")
           /\ out' = IF p.result \in {"throw", "undefined"} THEN out
                     ELSE [out EXCEPT ![chain[n].swap] = Append(@, p.result)]
           /\ taken' = [taken EXCEPT ![tag] = n]
  BY DEF WatchEvent
<1> DEFINE e == chain[n]
           p == process(merger, e)
           D == Delivered
<1>3. UNCHANGED <<chain, query>>
  BY DEF WatchEvent
<1>4. /\ DOMAIN chain = 1 .. L /\ L \in Nat /\ \A i \in DOMAIN chain : chain[i] \in Event
      /\ Distinct(chain) /\ Legal(ToSet(chain)) /\ ToSet(chain) \subseteq Event
  BY <1>1, ChainFacts
<1>5. taken \in [Tag -> 0 .. L] /\ taken[tag] \in 0 .. L
  BY <1>1 DEF WatchSwapsInv
<1>6. /\ n \in DOMAIN chain /\ n \in 0 .. L /\ ~(n <= taken[tag]) /\ e.tag = tag
      /\ \A m \in taken[tag] + 1 .. n - 1 : chain[m].tag # tag
  BY <1>4, <1>5 DEF NextTagged
<1>7. e \in Event /\ D \subseteq ToSet(chain) /\ e \in ToSet(chain)
  BY <1>4, <1>6 DEF Delivered, ToSet
<1>8. e \notin D
  <2> SUFFICES ASSUME NEW i \in DOMAIN chain, i <= taken[chain[i].tag], chain[i] = e PROVE FALSE
    BY DEF Delivered
  <2>1. i = n
    BY <1>4, <1>6 DEF Distinct
  <2> QED BY <1>6, <2>1
<1>9. D \in SUBSET Event /\ Legal(D \cup {e})
  BY <1>4, <1>7 DEF Legal
<1>10. taken' \in [Tag -> 0 .. L] /\ \A t \in Tag : taken'[t] = IF t = tag THEN n ELSE taken[t]
  BY <1>2, <1>5, <1>6
<1>11. Delivered' = D \cup {e}
  <2> DEFINE Here == {i \in DOMAIN chain : i <= taken[chain[i].tag]}
  <2>1. \A i \in DOMAIN chain : i <= taken'[chain[i].tag] <=> i <= taken[chain[i].tag] \/ i = n
    <3> SUFFICES ASSUME NEW i \in DOMAIN chain
                 PROVE  i <= taken'[chain[i].tag] <=> i <= taken[chain[i].tag] \/ i = n
      OBVIOUS
    <3>1. chain[i].tag \in Tag
      BY <1>4, EventTypes
    <3>2. CASE chain[i].tag # tag
      <4>1. i # n
        BY <1>6, <3>2
      <4> QED BY <1>10, <3>1, <3>2, <4>1
    <3>3. CASE chain[i].tag = tag
      <4>1. taken'[chain[i].tag] = n
        BY <1>10, <3>1, <3>3
      <4>2. i \notin taken[tag] + 1 .. n - 1
        BY <1>6, <3>3
      <4> HIDE DEF L
      <4>3. i \in Nat /\ n \in Nat /\ taken[tag] \in Nat
        BY <1>4, <1>5, <1>6
      <4>4. i <= n <=> i <= taken[tag] \/ i = n
        BY <1>6, <4>2, <4>3
      <4> QED BY <3>3, <4>1, <4>4
    <3> QED BY <3>2, <3>3
  <2>2. {i \in DOMAIN chain' : i <= taken'[chain'[i].tag]} = Here \cup {n}
    BY <1>3, <1>6, <2>1
  <2>3. Delivered' = {chain[i] : i \in Here \cup {n}}
    BY <1>3, <2>2 DEF Delivered
  <2>4. D = {chain[i] : i \in Here}
    BY DEF Delivered
  <2> HIDE DEF Here, D
  <2> QED BY <2>3, <2>4
<1>12. MergedIs(D, merger) /\ out \in [Swap -> Seq(EmittedStates)] /\ \A w \in Swap : OutIs(D, w, out[w])
  BY <1>1 DEF WatchSwapsInv
<1> HIDE DEF D
<1>13. MergedIs(D \cup {e}, p.merger) /\ ResultIs(D, e, p.result) /\ p.result \in Result
  <2> HIDE DEF e
  <2> QED BY <1>7, <1>8, <1>9, <1>12, ProcessMerges
<1>14. e.swap \in Swap /\ p.result # "throw"
  <2> HIDE DEF p
  <2>1. /\ e.swap \in Swap /\ e.kind # "throw" /\ (e.kind = "open" \/ e.kind \in Settled)
    BY <1>7, EventTypes
  <2> QED BY <1>13, <2>1 DEF ResultIs, Settled
<1>15. failed' = FALSE /\ merger' = p.merger
  BY <1>2, <1>14
<1>16. /\ out' \in [Swap -> Seq(EmittedStates)]
       /\ \A w \in Swap : out'[w] = IF w = e.swap /\ p.result # "undefined" THEN Append(out[w], p.result) ELSE out[w]
  <2>1. out' = IF p.result = "undefined" THEN out ELSE [out EXCEPT ![e.swap] = Append(out[e.swap], p.result)]
    BY <1>2, <1>14
  <2> HIDE DEF p, e
  <2>2. CASE p.result = "undefined"
    BY <1>12, <2>1, <2>2
  <2>3. CASE p.result # "undefined"
    <3>1. p.result \in EmittedStates
      BY <1>13, <1>14, <2>3 DEF EmittedStates
    <3>2. Append(out[e.swap], p.result) \in Seq(EmittedStates)
      BY <1>12, <1>14, <3>1, AppendProperties
    <3> QED BY <1>12, <1>14, <2>1, <2>3, <3>2
  <2> QED BY <2>2, <2>3
<1>17. ASSUME NEW w \in Swap PROVE OutIs(D \cup {e}, w, out'[w])
  <2>1. OutIs(D, w, out[w])
    BY <1>12
  <2> HIDE DEF p, e
  <2>2. OutIs(D \cup {e}, w, IF w = e.swap /\ p.result # "undefined" THEN Append(out[w], p.result) ELSE out[w])
    BY <1>7, <1>8, <1>9, <1>13, <2>1, EmitKeeps
  <2> QED BY <1>16, <2>2
<1>18. WatchSwapsInv'
  <2> HIDE DEF p, e
  <2> QED BY <1>3, <1>10, <1>11, <1>13, <1>15, <1>16, <1>17 DEF WatchSwapsInv
<1>19. ChainInv' /\ QueryInv'
  BY <1>1, <1>3, QueryUnchanged DEF ChainInv
<1> QED
  BY <1>1, <1>3, <1>18, <1>19 DEF SwapInv

(* getSwaps() leaves the chain and watchSwaps() alone. *)
LEMMA QueryStepKeeps ==
  ASSUME SwapInv, UNCHANGED <<chain, merger, taken, out, failed>>, QueryInv'
  PROVE  SwapInv'
<1>1. chain \in Seq(Event) /\ ChainInv /\ WatchSwapsInv
  BY DEF SwapInv
<1>2. ChainInv' /\ WatchSwapsInv'
  BY <1>1 DEF ChainInv, WatchSwapsInv, Delivered
<1> QED
  BY <1>1, <1>2 DEF SwapInv

(* The node has a transaction of a tag once among its results. *)
LEMMA OrdersIs ==
  ASSUME chain \in Seq(Event), ChainInv, NEW tag, NEW s \in Orders(Tagged(chain, tag))
  PROVE  s \in Seq(Event) /\ Len(s) \in Nat /\ Distinct(s) /\ ToSet(s) = TaggedIn(tag)
<1> DEFINE u == Tagged(chain, tag)
           OfTag == {e \in Event : e.tag = tag}
<1>1. ToSet(chain) \subseteq Event
  BY ChainFacts
<1>2. u \in Seq(Event) /\ ToSet(u) = ToSet(chain) \cap OfTag
  <2> HIDE DEF OfTag
  <2>1. Those(chain, OfTag) \in Seq(Event) /\ ToSet(Those(chain, OfTag)) = ToSet(chain) \cap OfTag
    BY ThoseElements
  <2> QED BY <2>1 DEF Tagged, OfTag
<1>3. ToSet(u) = TaggedIn(tag) /\ ToSet(u) \subseteq Event
  BY <1>1, <1>2 DEF TaggedIn
<1>4. DOMAIN u = 1 .. Len(u) /\ Len(u) \in Nat
  BY <1>2, LenProperties
<1>5. s \in [DOMAIN u -> ToSet(u)] /\ IsInjective(s) /\ ToSet(s) = ToSet(u)
  BY DEF Orders
<1> HIDE DEF u
<1>6. s \in [1 .. Len(u) -> Event]
  BY <1>3, <1>4, <1>5
<1>7. s \in Seq(Event)
  BY <1>4, <1>6, FunctionIsSeq
<1> QED
  BY <1>3, <1>5, <1>7, LenProperties DEF IsInjective, Distinct

(* The sort by height keeps what was found. *)
LEMMA ByBlockIs ==
  ASSUME chain \in Seq(Event), ChainInv, NEW txs \in Seq(Event), ToSet(txs) \subseteq ToSet(chain)
  PROVE  /\ ByBlock(txs) \in Seq(Event) /\ ToSet(ByBlock(txs)) = ToSet(txs)
         /\ Distinct(txs) => Distinct(ByBlock(txs))
<1> DEFINE L == Len(chain)
           At(n) == Those(txs, {chain[n]})
           s == [n \in DOMAIN chain |-> At(n)]
<1>1. DOMAIN chain = 1 .. L /\ L \in Nat /\ Distinct(chain)
  BY ChainFacts
<1>2. \A n : /\ At(n) \in Seq(Event) /\ ToSet(At(n)) = ToSet(txs) \cap {chain[n]}
             /\ Distinct(txs) => Distinct(At(n))
  BY ThoseElements
<1>3. ByBlock(txs) = FlattenSeq(s)
  BY DEF ByBlock
<1> HIDE DEF At
<1>4. s \in [1 .. L -> Seq(Event)] /\ \A n \in 1 .. L : s[n] = At(n)
  BY <1>1, <1>2
<1> HIDE DEF s
<1>5. s \in Seq(Seq(Event)) /\ Len(s) = L
  BY <1>1, <1>4, FunctionIsSeq
<1>6. Flat(s, L) = FlattenSeq(s)
  BY <1>5, FlatWhole
<1> HIDE DEF L
<1> DEFINE Good(n) == /\ Flat(s, n) \in Seq(Event) /\ ToSet(Flat(s, n)) = ToSet(txs) \cap First(n)
                      /\ Distinct(txs) => Distinct(Flat(s, n))
           P == {n \in 0 .. L : Good(n)}
<1>7. Good(0)
  <2>1. 0 \in 0 .. Len(s)
    BY <1>1, <1>5
  <2>2. Flat(s, 0) = <<>>
    BY <1>5, <2>1, FlatStep
  <2>3. First(0) = {}
    BY DEF First
  <2>4. <<>> \in Seq(Event) /\ DOMAIN <<>> = {}
    BY EmptySeq
  <2> QED BY <2>2, <2>3, <2>4 DEF ToSet, Distinct
<1>8. ASSUME NEW k \in 0 .. L - 1, Good(k) PROVE Good(k + 1)
  <2>1. k + 1 \in 0 .. L /\ k + 1 # 0 /\ (k + 1) - 1 = k /\ k + 1 \in 1 .. L /\ k \in Nat
    BY <1>1
  <2> DEFINE u == Flat(s, k)
             v == At(k + 1)
  <2>2. Flat(s, k + 1) = u \o v
    <3>1. k + 1 \in 0 .. Len(s)
      BY <1>5, <2>1
    <3>2. Flat(s, k + 1) = Flat(s, (k + 1) - 1) \o s[k + 1]
      BY <1>5, <2>1, <3>1, FlatStep
    <3> QED BY <1>4, <2>1, <3>2
  <2>3. u \in Seq(Event) /\ ToSet(u) = ToSet(txs) \cap First(k) /\ (Distinct(txs) => Distinct(u))
    BY <1>8
  <2>4. v \in Seq(Event) /\ ToSet(v) = ToSet(txs) \cap {chain[k + 1]} /\ (Distinct(txs) => Distinct(v))
    BY <1>2
  <2>5. chain[k + 1] \notin First(k)
    <3>1. \A i \in 1 .. k : i \in DOMAIN chain /\ k + 1 \in DOMAIN chain /\ i # k + 1
      BY <1>1, <2>1
    <3> QED BY <1>1, <3>1 DEF First, Distinct
  <2>6. First(k + 1) = First(k) \cup {chain[k + 1]}
    <3>1. 1 .. k + 1 = (1 .. k) \cup {k + 1}
      BY <2>1
    <3> QED BY <3>1 DEF First
  <2> HIDE DEF u, v
  <2>7. ToSet(u) \cap ToSet(v) = {}
    BY <2>3, <2>4, <2>5
  <2>8. /\ u \o v \in Seq(Event) /\ ToSet(u \o v) = ToSet(u) \cup ToSet(v)
        /\ Distinct(txs) => Distinct(u \o v)
    BY <2>3, <2>4, <2>7, ConcatDistinct
  <2> QED BY <2>2, <2>3, <2>4, <2>6, <2>8
<1>9. L \in P
  <2>1. 0 \in P
    BY <1>1, <1>7
  <2>2. \A k \in 0 .. L - 1 : k \in P => k + 1 \in P
    <3>1. \A k \in 0 .. L - 1 : k + 1 \in 0 .. L
      BY <1>1
    <3> QED BY <1>8, <3>1
  <2> HIDE DEF P
  <2>3. \A k \in 0 .. L : k \in P
    BY <1>1, <2>1, <2>2, UpToTheEnd
  <2> QED BY <1>1, <2>3
<1>10. First(L) = ToSet(chain)
  BY <1>1 DEF First, ToSet
<1> QED
  BY <1>3, <1>6, <1>9, <1>10

(* The list that getSwaps() merges has what was found, the offers first. *)
LEMMA MergedList ==
  ASSUME chain \in Seq(Event), ChainInv, NEW setTxs \in Seq(Event), NEW delTxs \in Seq(Event),
         ToSet(setTxs) \subseteq TaggedIn("set"), ToSet(delTxs) \subseteq TaggedIn("del")
  PROVE  LET events == Those(setTxs, {e \in Event : e.kind = "open"}) \o Releases(setTxs, delTxs)
         IN /\ events \in Seq(Event) /\ ToSet(events) = ToSet(setTxs) \cup ToSet(delTxs) /\ OffersFirst(events)
            /\ Distinct(setTxs) /\ Distinct(delTxs) => Distinct(events)
<1> DEFINE Offer == {e \in Event : e.kind = "open"}
           Release == {e \in Event : e.kind # "open"}
           offers == Those(setTxs, Offer)
           settled == Those(setTxs, Release)
           releases == settled \o delTxs
           events == offers \o releases
<1>1. Offer \cap Release = {} /\ Offer \cup Release = Event
  OBVIOUS
<1>2. ToSet(setTxs) \subseteq Event /\ ToSet(delTxs) \subseteq Release /\ ToSet(setTxs) \cap ToSet(delTxs) = {}
  <2>1. ToSet(chain) \subseteq Event
    BY ChainFacts
  <2>2. \A e \in ToSet(delTxs) : e \in Event /\ e.tag = "del"
    BY <2>1 DEF TaggedIn
  <2>3. \A e \in ToSet(setTxs) : e \in Event /\ e.tag = "set"
    BY <2>1 DEF TaggedIn
  <2>4. \A e \in ToSet(delTxs) : e.kind # "open"
    BY <2>2, EventTypes
  <2> QED BY <2>2, <2>3, <2>4
<1>3. \A e : e \in Offer => e.kind = "open"
  OBVIOUS
<1>4. \A e : e \in Release => e.kind # "open"
  OBVIOUS
<1> HIDE DEF Offer, Release
<1>5. /\ offers \in Seq(Event) /\ ToSet(offers) = ToSet(setTxs) \cap Offer
      /\ Distinct(setTxs) => Distinct(offers)
  BY ThoseElements
<1>6. /\ settled \in Seq(Event) /\ ToSet(settled) = ToSet(setTxs) \cap Release
      /\ Distinct(setTxs) => Distinct(settled)
  BY ThoseElements
<1> HIDE DEF offers, settled
<1>7. /\ releases \in Seq(Event) /\ ToSet(releases) = ToSet(settled) \cup ToSet(delTxs)
      /\ Distinct(settled) /\ Distinct(delTxs) => Distinct(releases)
  <2>1. ToSet(settled) \cap ToSet(delTxs) = {}
    BY <1>2, <1>6
  <2> QED BY <1>6, <2>1, ConcatDistinct
<1>8. ToSet(releases) \subseteq Release /\ ToSet(offers) \subseteq Offer
  BY <1>2, <1>5, <1>6, <1>7
<1> HIDE DEF releases
<1>9. /\ events \in Seq(Event) /\ ToSet(events) = ToSet(offers) \cup ToSet(releases)
      /\ Distinct(offers) /\ Distinct(releases) => Distinct(events)
  <2>1. ToSet(offers) \cap ToSet(releases) = {}
    BY <1>1, <1>8
  <2> QED BY <1>5, <1>7, <2>1, ConcatDistinct
<1>10. OffersFirst(events)
  <2>1. /\ DOMAIN events = 1 .. Len(offers) + Len(releases)
        /\ \A i \in 1 .. Len(offers) : events[i] = offers[i]
        /\ \A i \in Len(offers) + 1 .. Len(offers) + Len(releases) : events[i] = releases[i - Len(offers)]
    BY <1>5, <1>7, ConcatEntries
  <2>2. /\ Len(offers) \in Nat /\ DOMAIN offers = 1 .. Len(offers)
        /\ Len(releases) \in Nat /\ DOMAIN releases = 1 .. Len(releases)
    BY <1>5, <1>7, LenProperties
  <2>3. \A i \in 1 .. Len(offers) : events[i].kind = "open"
    <3>1. \A i \in 1 .. Len(offers) : offers[i] \in Offer
      BY <1>8, <2>2 DEF ToSet
    <3> QED BY <1>3, <2>1, <3>1
  <2>4. \A i \in Len(offers) + 1 .. Len(offers) + Len(releases) : events[i].kind # "open"
    <3>1. \A i \in 1 .. Len(releases) : releases[i] \in Release
      BY <1>8, <2>2 DEF ToSet
    <3>2. \A i \in Len(offers) + 1 .. Len(offers) + Len(releases) : i - Len(offers) \in 1 .. Len(releases)
      BY <2>2
    <3> QED BY <1>4, <2>1, <3>1, <3>2
  <2> HIDE DEF events
  <2> SUFFICES ASSUME NEW i \in DOMAIN events, NEW j \in DOMAIN events, i < j, events[j].kind = "open"
               PROVE  events[i].kind = "open"
    BY DEF OffersFirst
  <2>5. j \in 1 .. Len(offers)
    <3>1. j \in 1 .. Len(offers) \/ j \in Len(offers) + 1 .. Len(offers) + Len(releases)
      BY <2>1, <2>2
    <3> QED BY <2>4, <3>1
  <2>6. i \in 1 .. Len(offers)
    BY <2>1, <2>2, <2>5
  <2> QED BY <2>3, <2>6
<1>11. ToSet(events) = ToSet(setTxs) \cup ToSet(delTxs)
  BY <1>1, <1>2, <1>5, <1>6, <1>7, <1>9
<1> HIDE DEF events
<1>12. Distinct(setTxs) /\ Distinct(delTxs) => Distinct(events)
  BY <1>5, <1>6, <1>7, <1>9
<1> QED
  BY <1>9, <1>10, <1>11, <1>12 DEF events, releases, offers, settled, Offer, Release, Releases

(* The states of what was found, the first n transactions among it, are      *)
(* states of the chain since then.                                           *)
LEMMA FoundStates ==
  ASSUME chain \in Seq(Event), ChainInv, NEW n \in 0 .. Len(chain), NEW w \in Swap,
         NEW D, First(n) \subseteq D, D \subseteq ToSet(chain), NEW st, StatesAre(D, st)
  PROVE  \E i \in n .. Len(chain) : st[w] = StateAt(w, i)
<1> DEFINE L == Len(chain)
<1>1. /\ DOMAIN chain = 1 .. L /\ L \in Nat /\ \A i \in DOMAIN chain : chain[i] \in Event
      /\ Distinct(chain) /\ Legal(ToSet(chain)) /\ ToSet(chain) \subseteq Event
  BY ChainFacts
<1>2. L \in 0 .. L /\ n \in Nat /\ n \in n .. L /\ L \in n .. L /\ \A i \in 1 .. n : i \in DOMAIN chain
  BY <1>1
<1>3. \A i \in DOMAIN chain : chain[i].kind = "open" \/ chain[i].kind \in Settled
  BY <1>1, EventTypes
<1>4. "open" \notin Settled
  BY DEF Settled
<1>5. (\A i \in 1 .. n : chain[i] \in D) /\ \A e \in D : \E i \in DOMAIN chain : e = chain[i]
  BY DEF First, ToSet
<1>6. /\ ~OpenIn(D, w) => st[w] = "undefined"
      /\ OpenIn(D, w) /\ (\A k \in Settled : ~SettledIn(D, w, k)) => st[w] = "open"
      /\ \A k \in Settled : OpenIn(D, w) /\ SettledIn(D, w, k) => st[w] = k
  BY DEF StatesAre
<1>7. CASE ~OpenIn(D, w)
  <2>1. \A i \in 1 .. n : chain[i].swap # w
    <3> SUFFICES ASSUME NEW i \in 1 .. n, chain[i].swap = w PROVE FALSE
      OBVIOUS
    <3>1. i \in DOMAIN chain /\ chain[i].kind \in Settled
      BY <1>2, <1>3, <1>5, <1>7 DEF OpenIn
    <3>2. PICK m \in 1 .. i - 1 : m \in DOMAIN chain /\ chain[m].swap = chain[i].swap /\ chain[m].kind = "open"
      BY <3>1, OpenBefore
    <3>3. m \in 1 .. n
      BY <1>1, <1>2
    <3> QED BY <1>5, <1>7, <3>2, <3>3 DEF OpenIn
  <2>2. StateAt(w, n) = "undefined"
    BY <2>1, StateAtIs
  <2> HIDE DEF StateAt
  <2> QED BY <1>2, <1>6, <1>7, <2>2
<1>8. CASE OpenIn(D, w) /\ \A k \in Settled : ~SettledIn(D, w, k)
  <2>1. PICK o \in DOMAIN chain : chain[o].swap = w /\ chain[o].kind = "open"
    BY <1>5, <1>8 DEF OpenIn
  <2>2. \A j \in 1 .. n : chain[j].swap = w => chain[j].kind = "open"
    <3> SUFFICES ASSUME NEW j \in 1 .. n, chain[j].swap = w, chain[j].kind \in Settled PROVE FALSE
      BY <1>2, <1>3
    <3> QED BY <1>5, <1>8 DEF SettledIn
  <2>3. \A j \in DOMAIN chain : j < o => chain[j].swap # w
    BY <1>4, <2>1 DEF ChainInv
  <2> DEFINE i == IF o <= n THEN n ELSE o
  <2>4. i \in n .. L /\ i \in 0 .. L /\ o \in 1 .. i
    BY <1>1, <1>2
  <2>5. \A j \in 1 .. i : chain[j].swap = w => chain[j].kind = "open"
    <3>1. \A j \in 1 .. i : j \in 1 .. n \/ j = o \/ (j \in DOMAIN chain /\ j < o)
      BY <1>1, <1>2
    <3> QED BY <2>1, <2>2, <2>3, <3>1
  <2> HIDE DEF i
  <2>6. StateAt(w, i) = "open"
    BY <2>1, <2>4, <2>5, StateAtIs
  <2> HIDE DEF StateAt
  <2> QED BY <1>6, <1>8, <2>4, <2>6
<1>9. ASSUME NEW k \in Settled, OpenIn(D, w), SettledIn(D, w, k) PROVE st[w] = StateAt(w, L)
  <2>1. PICK i \in 1 .. L : chain[i].swap = w /\ chain[i].kind = k
    BY <1>1, <1>5, <1>9 DEF SettledIn
  <2>2. StateAt(w, L) = k
    BY <1>2, <2>1, StateAtIs
  <2> HIDE DEF StateAt
  <2> QED BY <1>6, <1>9, <2>2
<1> HIDE DEF StateAt
<1> QED
  BY <1>2, <1>7, <1>8, <1>9

LEMMA GetSwapsKeeps == SwapInv /\ GetSwaps => SwapInv'
<1> SUFFICES ASSUME SwapInv, GetSwaps PROVE SwapInv'
  OBVIOUS
<1>1. chain \in Seq(Event) /\ ChainInv /\ Len(chain) \in Nat /\ query \in QueryType(Len(chain))
  BY LenProperties DEF SwapInv, QueryInv
<1>2. UNCHANGED <<chain, merger, taken, out, failed>>
  BY DEF GetSwaps
<1>3. PICK order \in Orders(Tagged(chain, "set")) :
        query' = [NoQuery EXCEPT !.step = "set", !.found = order, !.start = Len(chain)]
  BY DEF GetSwaps
<1>4. order \in Seq(Event) /\ Len(order) \in Nat /\ Distinct(order) /\ ToSet(order) = TaggedIn("set")
  BY <1>1, OrdersIs
<1>5. [w \in Swap |-> "undefined"] \in [Swap -> Result] /\ <<>> \in Seq(Event)
  BY EmptySeq DEF Result
<1>6. query' \in QueryType(Len(chain)) /\ query'.step = "set" /\ query'.found = order /\ query'.page = 1 /\ query'.txs = <<>>
  <2> DEFINE undefined == [w \in Swap |-> "undefined"]
             empty == <<>>
  <2>1. undefined \in [Swap -> Result] /\ empty \in Seq(Event) /\ "set" \in Tag
    BY <1>5 DEF Tag
  <2>2. query' = [step |-> "set", found |-> order, page |-> 1, txs |-> empty, setTxs |-> empty,
                  start |-> Len(chain), end |-> 0, moved |-> FALSE, result |-> undefined]
    BY <1>3 DEF NoQuery
  <2>3. query'.txs = <<>>
    BY <2>2
  <2> HIDE DEF undefined, empty
  <2>4. query' \in QueryType(Len(chain))
    BY <1>1, <1>4, <2>1, <2>2 DEF QueryType
  <2> QED BY <2>2, <2>3, <2>4
<1>7. PagesRead("set", 0)'
  <2>1. Len(<<>>) = 0 /\ ToSet(<<>>) = {}
    BY EmptySeq DEF ToSet
  <2>2. TaggedIn("set")' = TaggedIn("set")
    BY <1>2 DEF TaggedIn
  <2> QED BY <1>4, <1>6, <2>1, <2>2 DEF PagesRead
<1>8. (query'.page - 1) * PerPage = 0
  BY <1>6, PageAssumption
<1>9. QueryInv'
  BY <1>2, <1>6, <1>7, <1>8 DEF QueryInv, GetSwapsIsConsistent
<1> QED
  BY <1>2, <1>9, QueryStepKeeps

(* The transactions of a search after one page more. *)
ReadNow == query.txs \o PageOf(query.found, query.page)

LEMMA PageIsRead ==
  ASSUME SwapInv, query.step \in Tag
  PROVE  LET f == query.found
             e == PageEnd(query.page, Len(f))
         IN /\ ReadNow \in Seq(Event) /\ Len(ReadNow) = e /\ e \in Nat /\ e <= Len(f) /\ Len(f) \in Nat
            /\ e < Len(f) => e = query.page * PerPage
            /\ Distinct(f) /\ ToSet(f) = TaggedIn(query.step) /\ ToSet(ReadNow) \subseteq TaggedIn(query.step)
            /\ \A j \in 1 .. e : f[j] \in Early(query.step) => f[j] \in ToSet(ReadNow)
            /\ ~query.moved => \A j \in 1 .. e : ReadNow[j] = f[j]
<1> DEFINE f == query.found
           r == (query.page - 1) * PerPage
           e == PageEnd(query.page, Len(f))
           x == PageOf(f, query.page)
           tag == query.step
           t == query.txs
<1>1. f \in Seq(Event) /\ t \in Seq(Event) /\ query.page \in Nat /\ query.page # 0
  BY DEF SwapInv, QueryInv, QueryType
<1>2. /\ Distinct(f) /\ ToSet(f) = TaggedIn(tag) /\ r <= Len(f) /\ Len(t) = r
      /\ ToSet(t) \subseteq TaggedIn(tag)
      /\ \A j \in 1 .. r : f[j] \in Early(tag) => f[j] \in ToSet(t)
      /\ ~query.moved => \A j \in 1 .. r : t[j] = f[j]
  BY DEF SwapInv, QueryInv, PagesRead
<1>3. /\ r \in Nat /\ e \in Nat /\ r <= e /\ e <= Len(f)
      /\ x \in Seq(Event) /\ Len(x) = e - r /\ \A i \in 1 .. e - r : x[i] = f[r + i]
      /\ e < Len(f) => e = query.page * PerPage
  BY <1>1, <1>2, PageIsPart
<1>4. Len(f) \in Nat /\ DOMAIN f = 1 .. Len(f) /\ DOMAIN x = 1 .. Len(x)
  BY <1>1, <1>3, LenProperties
<1>5. ReadNow = t \o x
  BY DEF ReadNow
<1> HIDE DEF f, r, e, x, tag, t
<1>6. /\ ReadNow \in Seq(Event) /\ Len(ReadNow) = e
      /\ \A j \in 1 .. r : ReadNow[j] = t[j]
      /\ \A j \in r + 1 .. e : ReadNow[j] = x[j - r]
      /\ ToSet(ReadNow) = ToSet(t) \cup ToSet(x)
  <2>1. r + (e - r) = e
    BY <1>3
  <2>2. ToSet(t \o x) = ToSet(t) \cup ToSet(x)
    BY <1>1, <1>3, ConcatDistinct DEF t
  <2>3. /\ t \o x \in Seq(Event) /\ Len(t \o x) = Len(t) + Len(x)
        /\ \A j \in 1 .. Len(t) : (t \o x)[j] = t[j]
        /\ \A j \in Len(t) + 1 .. Len(t) + Len(x) : (t \o x)[j] = x[j - Len(t)]
    BY <1>1, <1>3, ConcatEntries, ZenonT(30)
  <2> QED BY <1>2, <1>3, <1>5, <2>1, <2>2, <2>3
<1>7. ToSet(x) \subseteq TaggedIn(tag)
  <2>1. \A i \in 1 .. e - r : r + i \in 1 .. Len(f)
    BY <1>3, <1>4
  <2>2. \A i \in DOMAIN x : x[i] \in ToSet(f)
    BY <1>3, <1>4, <2>1 DEF ToSet
  <2> QED BY <1>2, <2>2 DEF ToSet
<1>8. \A j \in 1 .. e : j \in 1 .. r \/ (j \in r + 1 .. e /\ j - r \in 1 .. e - r /\ r + (j - r) = j)
  BY <1>3
<1>9. \A j \in r + 1 .. e : x[j - r] = f[j] /\ x[j - r] \in ToSet(x)
  <2> SUFFICES ASSUME NEW j \in r + 1 .. e PROVE x[j - r] = f[j] /\ x[j - r] \in ToSet(x)
    OBVIOUS
  <2>1. j - r \in 1 .. e - r /\ r + (j - r) = j
    BY <1>3
  <2> QED BY <1>3, <1>4, <2>1 DEF ToSet
<1>10. \A j \in 1 .. e : f[j] \in Early(tag) => f[j] \in ToSet(ReadNow)
  BY <1>2, <1>6, <1>8, <1>9
<1>11. ~query.moved => \A j \in 1 .. e : ReadNow[j] = f[j]
  BY <1>2, <1>6, <1>8, <1>9
<1> QED
  BY <1>2, <1>3, <1>4, <1>6, <1>7, <1>10, <1>11 DEF f, e, tag

(* A search that has read all pages. *)
LEMMA SearchIsRead ==
  ASSUME SwapInv, query.step \in Tag, ~(Len(ReadNow) < Len(query.found))
  PROVE  ByBlock(ReadNow) \in Seq(Event) /\ FoundIs(query.step, ByBlock(ReadNow))
<1> DEFINE f == query.found
           e == PageEnd(query.page, Len(f))
           tag == query.step
<1>1. /\ ReadNow \in Seq(Event) /\ Len(ReadNow) = e /\ e \in Nat /\ e <= Len(f) /\ Len(f) \in Nat
      /\ Distinct(f) /\ ToSet(f) = TaggedIn(tag) /\ ToSet(ReadNow) \subseteq TaggedIn(tag)
      /\ \A j \in 1 .. e : f[j] \in Early(tag) => f[j] \in ToSet(ReadNow)
      /\ ~query.moved => \A j \in 1 .. e : ReadNow[j] = f[j]
  BY PageIsRead
<1>2. f \in Seq(Event) /\ chain \in Seq(Event) /\ ChainInv /\ query.start \in 0 .. Len(chain)
  BY DEF SwapInv, QueryInv, QueryType
<1> HIDE DEF e, f, tag
<1>3. e = Len(f)
  BY <1>1 DEF f
<1>4. DOMAIN f = 1 .. e /\ DOMAIN ReadNow = 1 .. e
  BY <1>1, <1>2, <1>3, LenProperties
<1>5. TaggedIn(tag) \subseteq ToSet(chain)
  BY DEF TaggedIn
<1>6. /\ ByBlock(ReadNow) \in Seq(Event) /\ ToSet(ByBlock(ReadNow)) = ToSet(ReadNow)
      /\ Distinct(ReadNow) => Distinct(ByBlock(ReadNow))
  <2>1. ToSet(ReadNow) \subseteq ToSet(chain)
    BY <1>1, <1>5
  <2> QED BY <1>1, <1>2, <2>1, ByBlockIs
<1>7. Early(tag) \subseteq TaggedIn(tag)
  <2>1. \A i \in 1 .. query.start : i \in DOMAIN chain
    BY <1>2, LenProperties
  <2> QED BY <2>1 DEF Early, TaggedIn, ToSet
<1>8. Early(tag) \subseteq ToSet(ReadNow)
  <2> SUFFICES ASSUME NEW v \in Early(tag) PROVE v \in ToSet(ReadNow)
    OBVIOUS
  <2>1. v \in ToSet(f)
    BY <1>1, <1>7
  <2>2. PICK j \in 1 .. e : v = f[j]
    BY <1>4, <2>1 DEF ToSet
  <2> QED BY <1>1, <2>2
<1>9. ~query.moved => Distinct(ReadNow)
  BY <1>1, <1>4 DEF Distinct
<1> QED
  BY <1>1, <1>6, <1>8, <1>9 DEF FoundIs, tag

(* The next page is to be read. *)
LEMMA NextPageKeeps ==
  ASSUME SwapInv, query.step \in Tag, Len(ReadNow) < Len(query.found),
         query' = [query EXCEPT !.txs = ReadNow, !.page = query.page + 1],
         UNCHANGED <<chain, merger, taken, out, failed>>
  PROVE  SwapInv'
<1> DEFINE f == query.found
           e == PageEnd(query.page, Len(f))
           tag == query.step
<1>1. /\ ReadNow \in Seq(Event) /\ Len(ReadNow) = e /\ e \in Nat /\ e <= Len(f)
      /\ e < Len(f) => e = query.page * PerPage
      /\ Distinct(f) /\ ToSet(f) = TaggedIn(tag) /\ ToSet(ReadNow) \subseteq TaggedIn(tag)
      /\ \A j \in 1 .. e : f[j] \in Early(tag) => f[j] \in ToSet(ReadNow)
      /\ ~query.moved => \A j \in 1 .. e : ReadNow[j] = f[j]
  BY PageIsRead
<1>2. query \in QueryType(Len(chain)) /\ (tag = "del" => FoundIs("set", query.setTxs))
  BY DEF SwapInv, QueryInv
<1>3. query.page \in Nat /\ query.page + 1 \in Nat \ {0} /\ (query.page + 1) - 1 = query.page
  BY <1>2 DEF QueryType
<1> HIDE DEF e, ReadNow
<1>4. /\ query' \in QueryType(Len(chain)) /\ query'.step = tag /\ query'.found = f /\ query'.page = query.page + 1
      /\ query'.txs = ReadNow /\ query'.setTxs = query.setTxs /\ query'.start = query.start
      /\ query'.moved = query.moved
  BY <1>1, <1>2, <1>3 DEF QueryType
<1>5. ((query.page - 1) * PerPage)' = e
  BY <1>1, <1>3, <1>4 DEF e
<1>6. TaggedIn(tag)' = TaggedIn(tag) /\ Early(tag)' = Early(tag)
  BY <1>4 DEF TaggedIn, Early
<1>7. PagesRead(query.step, (query.page - 1) * PerPage)'
  BY <1>1, <1>4, <1>5, <1>6 DEF PagesRead
<1>8. tag = "del" => FoundIs("set", query.setTxs)'
  BY <1>2, <1>4 DEF FoundIs, TaggedIn, Early
<1>9. QueryInv'
  BY <1>4, <1>7, <1>8 DEF QueryInv, GetSwapsIsConsistent, Tag
<1> QED
  BY <1>9, QueryStepKeeps

(* The search for keys set has read all pages, and the next one begins. *)
LEMMA SetSearched ==
  ASSUME SwapInv, query.step = "set", ~(Len(ReadNow) < Len(query.found)),
         NEW order \in Orders(Tagged(chain, "del")),
         query' = [query EXCEPT !.step = "del", !.setTxs = ByBlock(ReadNow), !.found = order,
                                !.page = 1, !.txs = <<>>],
         UNCHANGED <<chain, merger, taken, out, failed>>
  PROVE  SwapInv'
<1> DEFINE s == ByBlock(ReadNow)
<1>1. query.step \in Tag
  BY DEF Tag
<1>2. s \in Seq(Event) /\ FoundIs("set", s)
  BY <1>1, SearchIsRead
<1>3. chain \in Seq(Event) /\ ChainInv /\ query \in QueryType(Len(chain))
  BY DEF SwapInv, QueryInv
<1>4. order \in Seq(Event) /\ Len(order) \in Nat /\ Distinct(order) /\ ToSet(order) = TaggedIn("del")
  BY <1>3, OrdersIs
<1>5. <<>> \in Seq(Event) /\ Len(<<>>) = 0 /\ ToSet(<<>>) = {}
  BY EmptySeq DEF ToSet
<1> HIDE DEF s
<1>6. query' = [query EXCEPT !.step = "del", !.setTxs = s, !.found = order, !.page = 1, !.txs = <<>>]
  BY DEF s
<1>7. /\ query' \in QueryType(Len(chain)) /\ query'.step = "del" /\ query'.found = order /\ query'.page = 1
      /\ query'.txs = <<>> /\ query'.setTxs = s /\ query'.start = query.start /\ query'.moved = query.moved
  <2> DEFINE empty == <<>>
  <2>1. query' = [query EXCEPT !.step = "del", !.setTxs = s, !.found = order, !.page = 1, !.txs = empty]
    BY <1>6
  <2>2. empty \in Seq(Event) /\ "del" \in Tag
    BY <1>5 DEF Tag
  <2>3. query'.txs = <<>>
    BY <1>3, <2>1 DEF QueryType
  <2> HIDE DEF empty
  <2>4. query' \in QueryType(Len(chain))
    <3>1. /\ query.start \in 0 .. Len(chain) /\ query.end \in 0 .. Len(chain)
          /\ query.moved \in BOOLEAN /\ query.result \in [Swap -> Result]
      BY ONLY <1>3 DEF QueryType
    <3>2. query' = [step |-> "del", found |-> order, page |-> 1, txs |-> empty, setTxs |-> s, start |-> query.start,
                    end |-> query.end, moved |-> query.moved, result |-> query.result]
      BY ONLY <1>3, <2>1 DEF QueryType
    <3>3. s \in Seq(Event) /\ order \in Seq(Event)
      BY <1>2, <1>4
    <3> QED BY ONLY <2>2, <3>1, <3>2, <3>3 DEF QueryType
  <2>5. /\ query'.step = "del" /\ query'.found = order /\ query'.page = 1 /\ query'.setTxs = s
        /\ query'.start = query.start /\ query'.moved = query.moved
    BY <1>3, <2>1 DEF QueryType
  <2> QED BY <2>3, <2>4, <2>5
<1>8. (query'.page - 1) * PerPage = 0
  BY <1>7, PageAssumption
<1>9. PagesRead("del", 0)'
  <2>1. TaggedIn("del")' = TaggedIn("del")
    BY DEF TaggedIn
  <2> QED BY <1>4, <1>5, <1>7, <2>1 DEF PagesRead
<1>10. FoundIs("set", query.setTxs)'
  BY <1>2, <1>7 DEF FoundIs, TaggedIn, Early
<1>11. QueryInv'
  BY <1>7, <1>8, <1>9, <1>10 DEF QueryInv, GetSwapsIsConsistent
<1> QED
  BY <1>11, QueryStepKeeps

(* Both searches have read all pages, and what they found is merged. *)
LEMMA DelSearched ==
  ASSUME SwapInv, query.step = "del", ~(Len(ReadNow) < Len(query.found)), NEW events, NEW merged,
         events = Those(query.setTxs, {e \in Event : e.kind = "open"}) \o Releases(query.setTxs, ByBlock(ReadNow)),
         merged = MergeAll(events),
         query' = [NoQuery EXCEPT !.step = IF merged.threw THEN "rejected" ELSE "done",
                     !.start = query.start, !.end = Len(chain), !.moved = query.moved, !.result = merged.states],
         UNCHANGED <<chain, merger, taken, out, failed>>
  PROVE  SwapInv'
<1> DEFINE L == Len(chain)
           s == query.setTxs
           d == ByBlock(ReadNow)
           n == query.start
<1>1. query.step \in Tag
  BY DEF Tag
<1>2. d \in Seq(Event) /\ FoundIs("del", d)
  BY <1>1, SearchIsRead
<1>3. chain \in Seq(Event) /\ ChainInv /\ query \in QueryType(L) /\ FoundIs("set", s)
  BY DEF SwapInv, QueryInv
<1>4. s \in Seq(Event) /\ n \in 0 .. L /\ query.moved \in BOOLEAN
  BY <1>3 DEF QueryType
<1>5. /\ DOMAIN chain = 1 .. L /\ L \in Nat /\ \A i \in DOMAIN chain : chain[i] \in Event
      /\ Legal(ToSet(chain)) /\ ToSet(chain) \subseteq Event
  BY <1>3, ChainFacts
<1> HIDE DEF s, d, n, L
<1>6. /\ ToSet(s) \subseteq TaggedIn("set") /\ Early("set") \subseteq ToSet(s)
      /\ ToSet(d) \subseteq TaggedIn("del") /\ Early("del") \subseteq ToSet(d)
      /\ ~query.moved => Distinct(s) /\ Distinct(d)
  BY <1>2, <1>3 DEF FoundIs
<1>7. /\ events \in Seq(Event) /\ ToSet(events) = ToSet(s) \cup ToSet(d) /\ OffersFirst(events)
      /\ Distinct(s) /\ Distinct(d) => Distinct(events)
  <2>1. events = Those(s, {e \in Event : e.kind = "open"}) \o Releases(s, d)
    BY DEF s, d
  <2> QED BY <1>2, <1>3, <1>4, <1>6, <2>1, MergedList
<1>8. ToSet(events) \subseteq ToSet(chain)
  BY <1>6, <1>7 DEF TaggedIn
<1>9. First(n) \subseteq ToSet(events)
  <2> SUFFICES ASSUME NEW i \in 1 .. n PROVE chain[i] \in ToSet(events)
    BY DEF First
  <2>1. chain[i].tag = "set" \/ chain[i].tag = "del"
    <3>1. i \in DOMAIN chain
      BY <1>4, <1>5
    <3> QED BY <1>5, <3>1, EventTypes DEF Tag
  <2>2. chain[i] \in Early(chain[i].tag)
    BY DEF Early, n
  <2> QED BY <1>6, <1>7, <2>1, <2>2
<1>10. Legal(ToSet(events))
  BY <1>5, <1>8 DEF Legal
<1>11. /\ merged \in AccType /\ AccIs(ToSet(events), merged)
       /\ Distinct(events) => ~merged.threw
  BY <1>7, <1>10, MergeAllIs
<1>12. merged.states \in [Swap -> Result] /\ merged.threw \in BOOLEAN
  BY <1>11 DEF AccType
<1>13. /\ query' \in QueryType(L) /\ query'.step = (IF merged.threw THEN "rejected" ELSE "done")
       /\ query'.start = n /\ query'.end = L /\ query'.moved = query.moved /\ query'.result = merged.states
  <2> DEFINE empty == <<>>
  <2>1. empty \in Seq(Event) /\ L \in 0 .. L
    BY <1>5, EmptySeq
  <2> DEFINE st == IF merged.threw THEN "rejected" ELSE "done"
  <2>2. st \in {"none", "done", "rejected", "failed"} \cup Tag
    OBVIOUS
  <2> HIDE DEF st
  <2>3. query' = [step |-> st, found |-> empty, page |-> 1, txs |-> empty, setTxs |-> empty, start |-> n,
                  end |-> L, moved |-> query.moved, result |-> merged.states]
    BY DEF NoQuery, st, n, L
  <2> HIDE DEF empty
  <2>4. query' \in QueryType(L)
    BY ONLY <1>4, <1>12, <2>1, <2>2, <2>3 DEF QueryType
  <2> QED BY ONLY <2>3, <2>4 DEF st
<1>14. GetSwapsIsConsistent'
  <2>1. ASSUME ~merged.threw, NEW w \in Swap
        PROVE  \E i \in query'.start .. query'.end : query'.result[w] = StateAt(w, i)'
    <3>1. StatesAre(ToSet(events), merged.states)
      BY <1>11, <2>1 DEF AccIs
    <3> DEFINE found == ToSet(events)
               states == merged.states
    <3>2. \E i \in n .. L : states[w] = StateAt(w, i)
      <4>1. First(n) \subseteq found /\ found \subseteq ToSet(chain) /\ StatesAre(found, states)
        BY <1>8, <1>9, <3>1
      <4>2. n \in 0 .. Len(chain)
        BY <1>4 DEF L
      <4> HIDE DEF found, states, StateAt
      <4> QED BY <1>3, <4>1, <4>2, FoundStates DEF L
    <3>3. \A i \in n .. L : StateAt(w, i)' = StateAt(w, i)
      BY DEF StateAt
    <3> HIDE DEF StateAt
    <3> QED BY <1>13, <3>2, <3>3
  <2>2. merged.threw => query.moved
    BY <1>6, <1>7, <1>11
  <2> HIDE DEF StateAt
  <2> QED BY <1>12, <1>13, <2>1, <2>2 DEF GetSwapsIsConsistent
<1>15. query'.step \notin Tag
  BY <1>13 DEF Tag
<1>16. QueryInv'
  <2>1. "del" \in Tag
    BY DEF Tag
  <2> QED BY <1>13, <1>14, <1>15, <2>1 DEF QueryInv, L
<1> QED
  BY <1>16, QueryStepKeeps

LEMMA ReadPageKeeps == SwapInv /\ ReadPage => SwapInv'
<1> SUFFICES ASSUME SwapInv, ReadPage PROVE SwapInv'
  OBVIOUS
<1>1. query.step \in Tag /\ UNCHANGED <<chain, merger, taken, out, failed>>
  BY DEF ReadPage
<1>2. IF Len(ReadNow) < Len(query.found) THEN query' = [query EXCEPT !.txs = ReadNow, !.page = query.page + 1]
                                         ELSE Searched(ByBlock(ReadNow))
  BY DEF ReadPage, ReadNow
<1>3. CASE Len(ReadNow) < Len(query.found)
  BY <1>1, <1>2, <1>3, NextPageKeeps
<1>4. CASE ~(Len(ReadNow) < Len(query.found))
  <2> HIDE DEF ReadNow
  <2>1. Searched(ByBlock(ReadNow))
    BY <1>2, <1>4
  <2>2. CASE query.step = "set"
    <3>1. PICK order \in Orders(Tagged(chain, "del")) :
            query' = [query EXCEPT !.step = "del", !.setTxs = ByBlock(ReadNow), !.found = order,
                                   !.page = 1, !.txs = <<>>]
      BY <2>1, <2>2 DEF Searched
    <3> QED BY <1>1, <1>4, <2>2, <3>1, SetSearched
  <2>3. CASE query.step = "del"
    <3> DEFINE events == Those(query.setTxs, {e \in Event : e.kind = "open"}) \o Releases(query.setTxs, ByBlock(ReadNow))
               merged == MergeAll(events)
    <3>1. query' = [NoQuery EXCEPT !.step = IF merged.threw THEN "rejected" ELSE "done",
                      !.start = query.start, !.end = Len(chain), !.moved = query.moved, !.result = merged.states]
      BY <2>1, <2>3 DEF Searched
    <3> HIDE DEF merged
    <3>2. merged = MergeAll(events)
      BY DEF merged
    <3> HIDE DEF events
    <3>3. events = Those(query.setTxs, {e \in Event : e.kind = "open"}) \o Releases(query.setTxs, ByBlock(ReadNow))
      BY DEF events
    <3> QED BY <1>1, <1>4, <2>3, <3>1, <3>2, <3>3, DelSearched
  <2> QED BY <1>1, <2>2, <2>3 DEF Tag
<1> QED
  BY <1>3, <1>4

LEMMA SearchRejectsKeeps == SwapInv /\ SearchRejects => SwapInv'
<1> SUFFICES ASSUME SwapInv, SearchRejects PROVE SwapInv'
  OBVIOUS
<1>1. query' = [NoQuery EXCEPT !.step = "failed"] /\ UNCHANGED <<chain, merger, taken, out, failed>>
  BY DEF SearchRejects
<1>2. Len(chain) \in Nat /\ <<>> \in Seq(Event) /\ [w \in Swap |-> "undefined"] \in [Swap -> Result]
  BY LenProperties, EmptySeq DEF SwapInv, Result
<1>3. query' \in QueryType(Len(chain)) /\ query'.step = "failed"
  <2> DEFINE undefined == [w \in Swap |-> "undefined"]
             empty == <<>>
  <2>1. undefined \in [Swap -> Result] /\ empty \in Seq(Event)
    BY <1>2
  <2>2. query' = [step |-> "failed", found |-> empty, page |-> 1, txs |-> empty, setTxs |-> empty,
                  start |-> 0, end |-> 0, moved |-> FALSE, result |-> undefined]
    BY <1>1 DEF NoQuery
  <2> HIDE DEF undefined, empty
  <2> QED BY <1>2, <2>1, <2>2 DEF QueryType
<1>4. QueryInv'
  BY <1>1, <1>3 DEF QueryInv, GetSwapsIsConsistent, Tag
<1> QED
  BY <1>1, <1>4, QueryStepKeeps

LEMMA SwapStep == SwapInv /\ [SwapNext]_swapVars => SwapInv'
<1> SUFFICES ASSUME SwapInv, [SwapNext]_swapVars PROVE SwapInv'
  OBVIOUS
<1>1. ASSUME NEW e \in Event, Confirm(e) PROVE SwapInv'
  BY <1>1, ConfirmKeeps
<1>2. ASSUME NEW tag \in Tag, WatchEvent(tag) PROVE SwapInv'
  BY <1>2, WatchEventKeeps
<1>3. CASE UNCHANGED swapVars
  <2>1. UNCHANGED <<chain, merger, taken, out, failed>> /\ UNCHANGED query
    BY <1>3 DEF swapVars
  <2> QED BY <2>1, QueryUnchanged, QueryStepKeeps DEF SwapInv
<1> QED
  BY <1>1, <1>2, <1>3, GetSwapsKeeps, ReadPageKeeps, SearchRejectsKeeps DEF SwapNext

(* Nothing is next in a stream that has delivered all its transactions. *)
LEMMA AllDelivered ==
  ASSUME SwapInv, \A tag \in Tag : NextTagged(tag) = {}
  PROVE  Delivered = ToSet(chain)
<1> DEFINE L == Len(chain)
<1>1. DOMAIN chain = 1 .. L /\ L \in Nat /\ \A n \in DOMAIN chain : chain[n] \in Event
  BY ChainFacts DEF SwapInv
<1>2. ASSUME NEW tag \in Tag PROVE \A n \in DOMAIN chain : chain[n].tag = tag => n <= taken[tag]
  <2> DEFINE S == {k \in 0 .. L : \A n \in 1 .. k : chain[n].tag = tag => n <= taken[tag]}
  <2>1. taken[tag] \in Nat
    BY DEF SwapInv, WatchSwapsInv
  <2>2. 0 \in S
    BY <1>1
  <2>3. ASSUME NEW k \in 0 .. L - 1, k \in S PROVE k + 1 \in S
    <3>1. k + 1 \in 0 .. L /\ k \in Nat /\ \A n \in 1 .. k + 1 : n \in 1 .. k \/ n = k + 1
      BY <1>1
    <3>2. chain[k + 1].tag = tag => k + 1 <= taken[tag]
      <4> SUFFICES ASSUME chain[k + 1].tag = tag, ~(k + 1 <= taken[tag]) PROVE FALSE
        OBVIOUS
      <4>1. k + 1 \in taken[tag] + 1 .. L
        BY <1>1, <2>1, <3>1
      <4>2. \A m \in taken[tag] + 1 .. (k + 1) - 1 : chain[m].tag # tag
        <5> SUFFICES ASSUME NEW m \in taken[tag] + 1 .. (k + 1) - 1, chain[m].tag = tag PROVE FALSE
          OBVIOUS
        <5>1. m \in 1 .. k /\ ~(m <= taken[tag])
          BY <2>1, <3>1
        <5> QED BY <2>3, <5>1
      <4>3. k + 1 \in NextTagged(tag)
        BY <4>1, <4>2 DEF NextTagged
      <4> QED BY <4>3
    <3> QED BY <2>3, <3>1, <3>2
  <2> HIDE DEF S
  <2>4. L \in S
    <3>1. \A k \in 0 .. L : k \in S
      BY <1>1, <2>2, <2>3, UpToTheEnd
    <3> QED BY <1>1, <3>1
  <2> QED BY <1>1, <2>4 DEF S
<1>3. \A n \in DOMAIN chain : n <= taken[chain[n].tag]
  BY <1>1, <1>2, EventTypes
<1> QED
  BY <1>3 DEF Delivered, ToSet

LEMMA SwapInvWatch == SwapInv => WatchFollowsChain
<1> SUFFICES ASSUME SwapInv PROVE WatchFollowsChain
  OBVIOUS
<1> DEFINE L == Len(chain)
<1>1. chain \in Seq(Event) /\ ChainInv /\ WatchSwapsInv
  BY DEF SwapInv
<1>2. /\ DOMAIN chain = 1 .. L /\ L \in Nat /\ L \in 0 .. L /\ \A n \in DOMAIN chain : chain[n] \in Event
  BY <1>1, ChainFacts
<1>3. failed = FALSE
  BY <1>1 DEF WatchSwapsInv
<1>4. ASSUME NEW w \in Swap
      PROVE  LET state == StateAt(w, Len(chain))
             IN /\ out[w] \in {<<>>, <<"open">>} \cup (IF state \in Settled THEN {<<state>>, <<"open", state>>}
                                                                            ELSE {})
                /\ (\A tag \in Tag : NextTagged(tag) = {}) =>
                     (IF state = "undefined" THEN out[w] = <<>> ELSE out[w] # <<>> /\ Last(out[w]) = state)
  <2> DEFINE state == StateAt(w, L)
  <2>1. /\ ~OpenIn(Delivered, w) => out[w] = <<>>
        /\ OpenIn(Delivered, w) /\ (\A k \in Settled : ~SettledIn(Delivered, w, k)) => out[w] = <<"open">>
        /\ \A k \in Settled : OpenIn(Delivered, w) /\ SettledIn(Delivered, w, k) => out[w] \in {<<k>>, <<"open", k>>}
    BY <1>1 DEF WatchSwapsInv, OutIs
  <2>2. \A k \in Settled : SettledIn(Delivered, w, k) => state = k
    <3> SUFFICES ASSUME NEW k \in Settled, SettledIn(Delivered, w, k) PROVE state = k
      OBVIOUS
    <3>1. PICK n \in DOMAIN chain : chain[n].swap = w /\ chain[n].kind = k
      BY DEF SettledIn, Delivered
    <3> QED BY <1>1, <1>2, <3>1, StateAtIs
  <2>3. /\ state = "undefined" \/ state = "open" \/ state \in Settled
        /\ state = "undefined" => \A i \in 1 .. L : chain[i].swap # w
        /\ state = "open" => /\ \E i \in 1 .. L : chain[i].swap = w
                             /\ \A i \in 1 .. L : chain[i].swap = w => chain[i].kind = "open"
        /\ state \in Settled => \E i \in 1 .. L : chain[i].swap = w /\ chain[i].kind = state
    BY <1>1, <1>2, StateAtTells
  <2> HIDE DEF state, L
  <2>4. out[w] \in {<<>>, <<"open">>} \cup (IF state \in Settled THEN {<<state>>, <<"open", state>>} ELSE {})
    BY <2>1, <2>2
  <2>5. ASSUME \A tag \in Tag : NextTagged(tag) = {}
        PROVE  IF state = "undefined" THEN out[w] = <<>> ELSE out[w] # <<>> /\ Last(out[w]) = state
    <3>1. Delivered = ToSet(chain)
      BY <2>5, AllDelivered
    <3>2. CASE state = "undefined"
      <4>1. ~OpenIn(Delivered, w)
        BY <1>2, <2>3, <3>1, <3>2 DEF OpenIn, ToSet
      <4> QED BY <2>1, <3>2, <4>1
    <3>3. CASE state = "open"
      <4>1. OpenIn(Delivered, w)
        BY <1>2, <2>3, <3>1, <3>3 DEF OpenIn, ToSet
      <4>2. \A k \in Settled : ~SettledIn(Delivered, w, k)
        BY <2>2, <3>3 DEF Settled
      <4>3. out[w] = <<"open">>
        BY <2>1, <4>1, <4>2
      <4> QED BY <3>3, <4>3 DEF Last
    <3>4. CASE state \in Settled
      <4>1. PICK i \in DOMAIN chain : chain[i].swap = w /\ chain[i].kind = state
        BY <1>2, <2>3, <3>4
      <4>2. PICK m \in DOMAIN chain : chain[m].swap = w /\ chain[m].kind = "open"
        BY <1>1, <3>4, <4>1, OpenBefore
      <4>3. OpenIn(Delivered, w) /\ SettledIn(Delivered, w, state)
        BY <3>1, <4>1, <4>2 DEF OpenIn, SettledIn, ToSet
      <4>4. out[w] = <<state>> \/ out[w] = <<"open", state>>
        BY <2>1, <3>4, <4>3
      <4>5. out[w] # <<>> /\ Last(out[w]) = state
        <5>1. <<state>> # <<>> /\ Last(<<state>>) = state
          BY DEF Last
        <5>2. <<"open", state>> # <<>> /\ Last(<<"open", state>>) = state
          BY DEF Last
        <5> QED BY <4>4, <5>1, <5>2
      <4> QED BY <3>4, <4>5 DEF Settled
    <3> QED BY <2>3, <3>2, <3>3, <3>4
  <2> QED BY <2>4, <2>5 DEF state, L
<1> QED
  BY <1>3, <1>4 DEF WatchFollowsChain

LEMMA SwapInvTypes == SwapInv => SwapTypeOK
<1> SUFFICES ASSUME SwapInv PROVE SwapTypeOK
  OBVIOUS
<1> DEFINE D == Delivered
<1>1. chain \in Seq(Event) /\ ChainInv /\ WatchSwapsInv /\ QueryInv
  BY DEF SwapInv
<1>2. Legal(ToSet(chain)) /\ "open" \notin Settled
  BY <1>1, ChainFacts DEF Settled
<1>3. D \subseteq ToSet(chain)
  BY DEF Delivered, ToSet
<1> HIDE DEF D
<1>4. /\ merger \in MergerType
      /\ \A w \in Swap : w \in merger.open <=> OpenIn(D, w) /\ \A k \in Settled : ~SettledIn(D, w, k)
      /\ \A s \in SettlingType : s \in merger.settling <=> ~OpenIn(D, s.swap) /\ SettledIn(D, s.swap, s.kind)
  BY <1>1 DEF WatchSwapsInv, MergedIs, D
<1>5. \A s \in merger.settling : s \in SettlingType /\ s.swap \in Swap /\ s.kind \in Settled
                                   /\ s = [swap |-> s.swap, kind |-> s.kind]
  BY <1>4 DEF MergerType, SettlingType
<1>6. \A w \in Swap, k, j \in Settled : SettledIn(D, w, k) /\ SettledIn(D, w, j) => k = j
  BY <1>2, <1>3 DEF Legal, SettledIn
<1>7. \A s, t \in merger.settling : s.swap = t.swap => s = t
  BY <1>4, <1>5, <1>6
<1>8. \A s \in merger.settling : s.swap \notin merger.open
  BY <1>4, <1>5
<1>9. query \in QueryType(Len(chain)) /\ taken \in [Tag -> 0 .. Len(chain)] /\ out \in [Swap -> Seq(EmittedStates)]
      /\ failed \in BOOLEAN
  BY <1>1 DEF QueryInv, WatchSwapsInv
<1> QED
  BY <1>1, <1>4, <1>7, <1>8, <1>9 DEF SwapTypeOK, MergerType, SettlingType, QueryType, EmittedStates

(* The pools of the AtomicSwapMerger hold a swap at most once, and not in   *)
(* both of them (process()).                                                *)
THEOREM SwapTypeCorrect == SwapSpec => []SwapTypeOK
<1>1. SwapInit => SwapInv
  BY SwapInitially
<1>2. SwapInv /\ [SwapNext]_swapVars => SwapInv'
  BY SwapStep
<1> QED
  BY <1>1, <1>2, SwapInvTypes, PTL DEF SwapSpec

(* For any swaps and any chain: process() never throws in watchSwaps(), what *)
(* is emitted of a swap follows the chain in whatever order the two streams  *)
(* deliver, and once both have delivered everything the last emission is the *)
(* state of the swap.                                                        *)
THEOREM WatchSwapsFollowsChain == SwapSpec => []WatchFollowsChain
<1>1. SwapInit => SwapInv
  BY SwapInitially
<1>2. SwapInv /\ [SwapNext]_swapVars => SwapInv'
  BY SwapStep
<1> QED
  BY <1>1, <1>2, SwapInvWatch, PTL DEF SwapSpec

(* For any swaps, any chain, any page size and any order of the node's       *)
(* results: getSwaps(), with two searches that read page by page while       *)
(* transactions come, reports each swap in a state it had during the call,   *)
(* and is rejected by process() only if results have moved behind a page     *)
(* that was read.                                                            *)
THEOREM GetSwapsConsistent == SwapSpec => []GetSwapsIsConsistent
<1>1. SwapInit => SwapInv
  BY SwapInitially
<1>2. SwapInv /\ [SwapNext]_swapVars => SwapInv'
  BY SwapStep
<1>3. SwapInv => GetSwapsIsConsistent
  BY DEF SwapInv, QueryInv
<1> QED
  BY <1>1, <1>2, <1>3, PTL DEF SwapSpec

-----------------------------------------------------------------------------
(* getSwaps() of Ethereum (SwapLogs). *)

Preimage(o) == <<"preimage of", o.hash>>

(* What getSwaps() tells of a swap of contract p. *)
Told(p, id, o, k, x) ==
  EthSwap(k, p, id, o.sender, o.recipient, o.hash, o.amount, o.timeout, IF p = "ether" THEN "ETH" ELSE o.token, x)

(* The same swap in another state. *)
Retell(s, k, x) == [s EXCEPT !.kind = k, !.preimage = x]

SwapKind == {"open", "claimed", "aborted"}
SomeIds == SwapIds["ether"] \cup SwapIds["erc20"]
SomePreimage == {<<>>} \cup {Preimage(o) : o \in Offers}
ToldSwap ==
  {Told(p, id, o, k, x) : p \in Prefix, id \in SomeIds, o \in Offers, k \in SwapKind, x \in SomePreimage}

(* The events of contract p. *)
OpenedLog(p, id, o) == [topic |-> "opened", data |-> OpenedData(p, id, o), offer |-> o]
ClaimedLog(id, o) == [topic |-> "claimed", data |-> ClaimedData(id, o), offer |-> o]
AbortedLog(id, o) == [topic |-> "aborted", data |-> <<id>>, offer |-> o]
LogType(p) ==
  {OpenedLog(p, e[1], e[2]) : e \in SwapIds[p] \X Offers} \cup {ClaimedLog(e[1], e[2]) : e \in SwapIds[p] \X Offers}
    \cup {AbortedLog(e[1], e[2]) : e \in SwapIds[p] \X Offers}

(* A part of the logs of contract p: a swap is opened once and settled once, *)
(* later and with the terms of its offer.                                    *)
HistoryOf(p, h) ==
  /\ h \in Seq(LogType(p))
  /\ \A m, n \in DOMAIN h : m < n /\ h[m].data[1] = h[n].data[1] =>
       h[m].topic = "opened" /\ h[n].topic # "opened" /\ h[n].offer = h[m].offer

LEMMA ToldAnew ==
  ASSUME NEW p, NEW id, NEW o, NEW k, NEW x, NEW j, NEW y
  PROVE  Retell(Told(p, id, o, k, x), j, y) = Told(p, id, o, j, y)
<1> DEFINE token == IF p = "ether" THEN "ETH" ELSE o.token
           s == [kind |-> k, prefix |-> p, id |-> id, sender |-> o.sender, recipient |-> o.recipient, hash |-> o.hash,
                 amount |-> o.amount, timeout |-> o.timeout, token |-> token, preimage |-> x]
           u == [s EXCEPT !.kind = j]
<1>1. Told(p, id, o, k, x) = s
  BY DEF Told, EthSwap
<1> HIDE DEF token
<1>3. u = [kind |-> j, prefix |-> p, id |-> id, sender |-> o.sender, recipient |-> o.recipient, hash |-> o.hash,
           amount |-> o.amount, timeout |-> o.timeout, token |-> token, preimage |-> x]
  OBVIOUS
<1>4. [s EXCEPT !.kind = j, !.preimage = y] = [u EXCEPT !.preimage = y]
  OBVIOUS
<1> HIDE DEF s, u
<1>5. [u EXCEPT !.preimage = y]
        = [kind |-> j, prefix |-> p, id |-> id, sender |-> o.sender, recipient |-> o.recipient, hash |-> o.hash,
           amount |-> o.amount, timeout |-> o.timeout, token |-> token, preimage |-> y]
  BY <1>3
<1>6. [u EXCEPT !.preimage = y] = Told(p, id, o, j, y)
  BY <1>5 DEF Told, EthSwap, token
<1> QED
  BY <1>1, <1>4, <1>6 DEF Retell

LEMMA ToldFields ==
  ASSUME NEW p, NEW id, NEW o, NEW k, NEW x
  PROVE  /\ Told(p, id, o, k, x).prefix = p /\ Told(p, id, o, k, x).id = id
         /\ Told(p, id, o, k, x).recipient = o.recipient
BY DEF Told, EthSwap

LEMMA ToldType ==
  ASSUME NEW p \in Prefix, NEW id \in SwapIds[p], NEW o \in Offers, NEW k \in SwapKind, NEW x \in SomePreimage
  PROVE  Told(p, id, o, k, x) \in ToldSwap
<1>1. id \in SomeIds
  BY DEF SomeIds, Prefix
<1> QED
  BY <1>1 DEF ToldSwap

(* A swap that is told is told again with another state. *)
LEMMA ToldAgain ==
  ASSUME NEW s \in ToldSwap, NEW k \in SwapKind, NEW x \in SomePreimage
  PROVE  Retell(s, k, x) \in ToldSwap
<1>1. PICK p \in Prefix, id \in SomeIds, o \in Offers, j \in SwapKind, y \in SomePreimage : s = Told(p, id, o, j, y)
  BY DEF ToldSwap
<1>2. Retell(Told(p, id, o, j, y), k, x) = Told(p, id, o, k, x)
  BY ToldAnew
<1> QED
  BY <1>1, <1>2 DEF ToldSwap

(* The words of an Opened event. *)
LEMMA OpenedWords ==
  ASSUME NEW p \in Prefix, NEW id, NEW o
  PROVE  LET d == OpenedData(p, id, o)
         IN /\ d[1] = id /\ d[2] = o.sender /\ d[3] = o.recipient /\ d[4] = o.hash /\ d[5] = o.amount /\ d[6] = o.timeout
            /\ p = "erc20" => Len(d) = 7 /\ d[7] = o.token
<1> DEFINE x2 == o.sender
           x3 == o.recipient
           x4 == o.hash
           x5 == o.amount
           x6 == o.timeout
           x7 == o.token
           S == {id, x2, x3, x4, x5, x6, x7}
           six == <<id, x2, x3, x4, x5, x6>>
           more == IF p = "erc20" THEN <<x7>> ELSE <<>>
           d == six \o more
<1> HIDE DEF x2, x3, x4, x5, x6, x7
<1>1. /\ six \in Seq(S) /\ Len(six) = 6
      /\ six[1] = id /\ six[2] = x2 /\ six[3] = x3 /\ six[4] = x4 /\ six[5] = x5 /\ six[6] = x6
  OBVIOUS
<1>2. more \in Seq(S) /\ (p = "erc20" => Len(more) = 1 /\ more[1] = x7)
  <2>1. CASE p = "erc20"
    <3>1. more = <<x7>>
      BY <2>1
    <3> HIDE DEF more
    <3> QED BY <3>1
  <2>2. CASE p # "erc20"
    <3>1. more = <<>>
      BY <2>2
    <3> HIDE DEF more, S
    <3> QED BY <2>2, <3>1, EmptySeq
  <2> QED BY <2>1, <2>2
<1>3. Len(more) \in Nat
  BY <1>2, LenProperties
<1> HIDE DEF six, more, S
<1>4. /\ Len(d) = Len(six) + Len(more) /\ \A n \in 1 .. Len(six) : d[n] = six[n]
      /\ \A n \in Len(six) + 1 .. Len(six) + Len(more) : d[n] = more[n - Len(six)]
  <2>1. six \in Seq(S) /\ more \in Seq(S)
    BY <1>1, <1>2
  <2> QED BY <2>1, ConcatEntries
<1> HIDE DEF d
<1>5. d[1] = id /\ d[2] = x2 /\ d[3] = x3 /\ d[4] = x4 /\ d[5] = x5 /\ d[6] = x6
  BY <1>1, <1>4
<1>6. p = "erc20" => Len(d) = 7 /\ d[7] = x7
  <2> SUFFICES ASSUME p = "erc20" PROVE Len(d) = 7 /\ d[7] = x7
    OBVIOUS
  <2> DEFINE lm == Len(more)
             ls == Len(six)
             ld == Len(d)
  <2>1. lm = 1 /\ ls = 6 /\ ld = ls + lm
    BY <1>1, <1>2, <1>4
  <2>2. \A n \in ls + 1 .. ls + lm : d[n] = more[n - ls]
    BY <1>4
  <2> HIDE DEF lm, ls, ld
  <2>3. ld = 7 /\ 7 \in ls + 1 .. ls + lm /\ 7 - ls = 1
    BY <2>1
  <2>4. d[7] = more[7 - ls]
    BY <2>2, <2>3
  <2> QED BY <1>2, <2>3, <2>4 DEF ld
<1>7. OpenedData(p, id, o) = d
  BY DEF OpenedData, d, six, more, x2, x3, x4, x5, x6, x7
<1> QED
  BY <1>5, <1>6, <1>7 DEF x2, x3, x4, x5, x6, x7

(* What the reduction reads from an event. *)
LEMMA LogIs ==
  ASSUME NEW p \in Prefix, NEW l \in LogType(p)
  PROVE  /\ l.data[1] \in SwapIds[p] /\ l.offer \in Offers /\ l.topic \in {"opened", "claimed", "aborted"}
         /\ l.topic = "opened" => /\ parseOpenedEventBytes(l.data, p) = Told(p, l.data[1], l.offer, "open", <<>>)
                                  /\ Tracked(p, l.data[Len(l.data)]) = Tracked(p, l.offer.token)
         /\ l.topic = "claimed" => l.data[2] = Preimage(l.offer)
<1>1. PICK e \in SwapIds[p] \X Offers :
        l = OpenedLog(p, e[1], e[2]) \/ l = ClaimedLog(e[1], e[2]) \/ l = AbortedLog(e[1], e[2])
  BY DEF LogType
<1> DEFINE id == e[1]
           o == e[2]
<1>2. id \in SwapIds[p] /\ o \in Offers
  BY <1>1
<1> HIDE DEF id, o
<1>3. CASE l = OpenedLog(p, e[1], e[2])
  <2> DEFINE d == OpenedData(p, id, o)
  <2>1. l.topic = "opened" /\ l.offer = o /\ l.data = d
    BY <1>3 DEF OpenedLog, id, o
  <2>2. /\ d[1] = id /\ d[2] = o.sender /\ d[3] = o.recipient /\ d[4] = o.hash /\ d[5] = o.amount /\ d[6] = o.timeout
        /\ p = "erc20" => Len(d) = 7 /\ d[7] = o.token
    BY OpenedWords
  <2> HIDE DEF d
  <2>3. p = "ether" \/ p = "erc20"
    BY DEF Prefix
  <2>4. parseOpenedEventBytes(d, p) = Told(p, id, o, "open", <<>>)
    BY <2>2, <2>3 DEF parseOpenedEventBytes, Told, EthSwap
  <2>5. Tracked(p, d[Len(d)]) = Tracked(p, o.token)
    BY <2>2, <2>3 DEF Tracked
  <2> QED BY <1>2, <2>1, <2>2, <2>4, <2>5
<1>4. CASE l = ClaimedLog(e[1], e[2])
  <2>1. l.topic = "claimed" /\ l.offer = o /\ l.data = <<id, Preimage(o)>>
    BY <1>4 DEF ClaimedLog, ClaimedData, id, o, Preimage
  <2> HIDE DEF Preimage
  <2> QED BY <1>2, <2>1
<1>5. CASE l = AbortedLog(e[1], e[2])
  <2>1. l.topic = "aborted" /\ l.offer = o /\ l.data = <<id>>
    BY <1>5 DEF AbortedLog, id, o
  <2> QED BY <1>2, <2>1
<1> QED
  BY <1>1, <1>3, <1>4, <1>5

LEMMA LeastNumber ==
  ASSUME NEW S, S \subseteq Nat, S # {}
  PROVE  \E m \in S : \A y \in S : m <= y
<1>0. PICK hi \in S : TRUE
  OBVIOUS
<1>1. hi \in Nat
  OBVIOUS
<1> DEFINE B == {k \in 0 .. hi : hi - k \in S}
           d == Max(B)
<1>2. B \subseteq Nat /\ 0 \in B /\ \A k \in B : k <= hi
  <2>1. 0 \in 0 .. hi /\ hi - 0 = hi
    BY <1>1
  <2>2. \A k \in 0 .. hi : k \in Nat /\ k <= hi
    BY <1>1
  <2> QED BY <2>1, <2>2
<1>3. d \in B /\ \A k \in B : k <= d
  <2>1. B # {} /\ hi \in Nat
    BY <1>1, <1>2
  <2> QED BY <1>2, <2>1, MaxOfBounded
<1> HIDE DEF d
<1>4. ASSUME NEW y \in S PROVE hi - d <= y
  <2>0. y \in Nat /\ d \in Nat /\ hi \in Nat
    BY <1>1, <1>2, <1>3
  <2>1. CASE y <= hi
    <3>1. hi - y \in 0 .. hi /\ hi - (hi - y) = y
      BY <2>0, <2>1
    <3>2. hi - y \in B
      BY <3>1
    <3>3. hi - y <= d
      BY <1>3, <3>2
    <3> QED BY <2>0, <3>3
  <2>2. CASE hi < y
    BY <2>0, <2>2
  <2> QED BY <2>0, <2>1, <2>2
<1> QED
  BY <1>3, <1>4

LEMMA MinIs ==
  ASSUME NEW S, S \subseteq Nat, NEW m \in S, \A y \in S : m <= y
  PROVE  Min(S) = m
<1> DEFINE Least(x) == \A y \in S : x <= y
<1>1. Least(m) /\ \A x \in S : Least(x) => x = m
  OBVIOUS
<1> HIDE DEF Least
<1>2. (CHOOSE x \in S : Least(x)) = m
  BY <1>1
<1> QED
  BY <1>2 DEF Min, Least

LEMMA MaxIs ==
  ASSUME NEW S, S \subseteq Nat, NEW m \in S, \A y \in S : y <= m
  PROVE  Max(S) = m
<1> DEFINE Largest(x) == \A y \in S : x >= y
<1>1. Largest(m) /\ \A x \in S : Largest(x) => x = m
  OBVIOUS
<1> HIDE DEF Largest
<1>2. (CHOOSE x \in S : Largest(x)) = m
  BY <1>1
<1> QED
  BY <1>2 DEF Max, Largest

(* A list without one of its elements. *)
LEMMA RemoveAtIs ==
  ASSUME NEW T, NEW s \in Seq(T), NEW i \in 1 .. Len(s), Distinct(s)
  PROVE  RemoveAt(s, i) \in Seq(T) /\ Distinct(RemoveAt(s, i)) /\ ToSet(RemoveAt(s, i)) = ToSet(s) \ {s[i]}
<1> DEFINE u == SubSeq(s, 1, i - 1)
           w == SubSeq(s, i + 1, Len(s))
<1>1. Len(s) \in Nat /\ DOMAIN s = 1 .. Len(s) /\ \A n \in 1 .. Len(s) : s[n] \in T
  BY LenProperties, ElementOfSeq
<1>2. u \in Seq(T) /\ Len(u) = i - 1 /\ \A n \in 1 .. i - 1 : u[n] = s[n]
  <2>1. i - 1 \in 0 .. Len(s)
    BY <1>1
  <2> QED BY <2>1, FirstOfSeq
<1>3. w \in Seq(T) /\ Len(w) = Len(s) - i /\ \A n \in 1 .. Len(s) - i : w[n] = s[i + n]
  <2>1. i + 1 \in Int /\ Len(s) \in Int /\ \A n \in i + 1 .. Len(s) : s[n] \in T
    BY <1>1
  <2>2. /\ w \in Seq(T) /\ Len(w) = (IF i + 1 <= Len(s) THEN Len(s) - (i + 1) + 1 ELSE 0)
        /\ \A n \in 1 .. Len(s) - (i + 1) + 1 : w[n] = s[i + 1 + n - 1]
    BY <2>1, SubSeqProperties
  <2> HIDE DEF w
  <2>3. Len(s) - (i + 1) + 1 = Len(s) - i /\ \A n \in 1 .. Len(s) - i : i + 1 + n - 1 = i + n
    BY <1>1
  <2>4. (IF i + 1 <= Len(s) THEN Len(s) - (i + 1) + 1 ELSE 0) = Len(s) - i
    <3> DEFINE l == Len(s)
    <3>1. l \in Nat /\ i \in Nat /\ i <= l
      BY <1>1
    <3> HIDE DEF l
    <3>2. (IF i + 1 <= l THEN l - (i + 1) + 1 ELSE 0) = l - i
      <4>1. CASE i + 1 <= l
        BY <3>1, <4>1
      <4>2. CASE ~ (i + 1 <= l)
        BY <3>1, <4>2
      <4> QED BY <4>1, <4>2
    <3> QED BY <3>2 DEF l
  <2> QED BY <2>2, <2>3, <2>4
<1> HIDE DEF u, w
<1>4. DOMAIN u = 1 .. i - 1 /\ DOMAIN w = 1 .. Len(s) - i
  BY <1>2, <1>3, LenProperties
<1>5. /\ Distinct(u) /\ Distinct(w) /\ ToSet(u) \cap ToSet(w) = {}
      /\ ToSet(u) \cup ToSet(w) \subseteq ToSet(s) \ {s[i]}
  <2>1. Distinct(u)
    BY <1>1, <1>2, <1>4 DEF Distinct
  <2>2. ASSUME NEW m \in DOMAIN w, NEW n \in DOMAIN w, w[m] = w[n] PROVE m = n
    <3>0. m \in 1 .. Len(s) - i /\ n \in 1 .. Len(s) - i
      BY <1>4
    <3>1. i + m \in DOMAIN s /\ i + n \in DOMAIN s /\ s[i + m] = s[i + n]
      <4>1. w[m] = s[i + m] /\ w[n] = s[i + n]
        BY <1>3, <3>0
      <4>2. i + m \in 1 .. Len(s) /\ i + n \in 1 .. Len(s)
        BY <1>1, <3>0
      <4> QED BY <1>1, <2>2, <4>1, <4>2
    <3>2. i + m = i + n
      BY <3>1 DEF Distinct
    <3> QED BY <1>4, <3>2
  <2>3. \A m \in DOMAIN u, n \in DOMAIN w : u[m] # w[n]
    <3> SUFFICES ASSUME NEW m \in DOMAIN u, NEW n \in DOMAIN w, u[m] = w[n] PROVE FALSE
      OBVIOUS
    <3>1. m \in DOMAIN s /\ i + n \in DOMAIN s /\ s[m] = s[i + n] /\ m < i + n
      BY <1>1, <1>2, <1>3, <1>4
    <3>2. m = i + n
      BY <3>1 DEF Distinct
    <3> QED BY <1>1, <3>1, <3>2
  <2>4. \A m \in DOMAIN u : u[m] \in ToSet(s) \ {s[i]}
    <3> SUFFICES ASSUME NEW m \in DOMAIN u PROVE u[m] \in ToSet(s) \ {s[i]}
      OBVIOUS
    <3>1. m \in DOMAIN s /\ i \in DOMAIN s /\ u[m] = s[m] /\ m # i
      BY <1>1, <1>2, <1>4
    <3> QED BY <3>1 DEF Distinct, ToSet
  <2>5. \A n \in DOMAIN w : w[n] \in ToSet(s) \ {s[i]}
    <3> SUFFICES ASSUME NEW n \in DOMAIN w PROVE w[n] \in ToSet(s) \ {s[i]}
      OBVIOUS
    <3>1. i + n \in DOMAIN s /\ i \in DOMAIN s /\ w[n] = s[i + n] /\ i + n # i
      BY <1>1, <1>3, <1>4
    <3> QED BY <3>1 DEF Distinct, ToSet
  <2>6. Distinct(w)
    BY <2>2 DEF Distinct
  <2> QED BY <2>1, <2>3, <2>4, <2>5, <2>6 DEF ToSet
<1>6. ASSUME NEW x \in ToSet(s), x # s[i] PROVE x \in ToSet(u) \cup ToSet(w)
  <2>1. PICK n \in DOMAIN s : x = s[n]
    BY <1>6 DEF ToSet
  <2>2. CASE n < i
    <3>1. n \in DOMAIN u /\ u[n] = x
      BY <1>1, <1>2, <1>4, <2>1, <2>2
    <3> QED BY <3>1 DEF ToSet
  <2>3. CASE i < n
    <3>1. n - i \in DOMAIN w /\ i + (n - i) = n
      BY <1>1, <1>4, <2>3
    <3>2. w[n - i] = s[i + (n - i)]
      BY <1>3, <1>4, <3>1
    <3> QED BY <2>1, <3>1, <3>2 DEF ToSet
  <2> QED BY <1>1, <1>6, <2>1, <2>2, <2>3
<1>7. RemoveAt(s, i) = u \o w
  BY DEF RemoveAt, u, w
<1>8. ToSet(u) \cup ToSet(w) = ToSet(s) \ {s[i]}
  BY <1>5, <1>6
<1> QED
  BY <1>2, <1>3, <1>5, <1>7, <1>8, ConcatDistinct

LEMMA RemoveAtType ==
  ASSUME NEW T, NEW s \in Seq(T), NEW i \in 1 .. Len(s)
  PROVE  RemoveAt(s, i) \in Seq(T)
<1>1. Len(s) \in Nat /\ \A n \in 1 .. Len(s) : s[n] \in T
  BY LenProperties, ElementOfSeq
<1>2. SubSeq(s, 1, i - 1) \in Seq(T)
  <2>1. i - 1 \in 0 .. Len(s)
    BY <1>1
  <2> QED BY <2>1, FirstOfSeq
<1>3. SubSeq(s, i + 1, Len(s)) \in Seq(T)
  <2>1. i + 1 \in Int /\ Len(s) \in Int /\ \A n \in i + 1 .. Len(s) : s[n] \in T
    BY <1>1
  <2> QED BY <2>1, SubSeqProperties
<1> QED
  BY <1>2, <1>3, ConcatEntries DEF RemoveAt

LEMMA AppendDistinct ==
  ASSUME NEW T, NEW s \in Seq(T), NEW x \in T
  PROVE  /\ Append(s, x) \in Seq(T) /\ ToSet(Append(s, x)) = ToSet(s) \cup {x}
         /\ Distinct(s) /\ x \notin ToSet(s) => Distinct(Append(s, x))
<1>1. /\ Append(s, x) \in Seq(T) /\ DOMAIN Append(s, x) = DOMAIN s \cup {Len(s) + 1}
      /\ Append(s, x)[Len(s) + 1] = x
      /\ \A n \in DOMAIN s : Append(s, x)[n] = s[n] /\ n # Len(s) + 1
  BY AppendIs
<1> DEFINE v == Append(s, x)
           last == Len(s) + 1
<1> HIDE DEF v, last
<1>2. v \in Seq(T) /\ DOMAIN v = DOMAIN s \cup {last} /\ v[last] = x /\ \A n \in DOMAIN s : v[n] = s[n] /\ n # last
  BY <1>1 DEF v, last
<1>3. ToSet(v) = ToSet(s) \cup {x}
  BY <1>2 DEF ToSet
<1>4. Distinct(s) /\ x \notin ToSet(s) => Distinct(v)
  BY <1>2 DEF ToSet, Distinct
<1> QED
  BY <1>2, <1>3, <1>4 DEF v

(* updateSwapInList(): the list as it was, or one of its swaps moved to the end. *)
LEMMA UpdateInListIs ==
  ASSUME NEW s \in Seq(ToldSwap), NEW k, NEW p, NEW id, NEW x
  PROVE  \/ /\ updateSwapInList(s, k, p, id, x) = s
            /\ \A i \in 1 .. Len(s) : ~ (s[i].id = id /\ s[i].prefix = p)
         \/ \E i \in 1 .. Len(s) :
              /\ s[i].id = id /\ s[i].prefix = p
              /\ updateSwapInList(s, k, p, id, x) = Append(RemoveAt(s, i), Retell(s[i], k, x))
<1> DEFINE I == {i \in 1 .. Len(s) : s[i].id = id /\ s[i].prefix = p}
           j == IF I # {} THEN Min(I) ELSE 0
           u == updateSwapInList(s, k, p, id, x)
<1>1. u = IF j = 0 THEN s ELSE Append(RemoveAt(s, j), Retell(s[j], k, x))
  BY DEF updateSwapInList, SelectInSeq, Retell
<1>2. CASE I = {}
  BY <1>1, <1>2
<1>3. CASE I # {}
  <2>1. I \subseteq Nat /\ I # {}
    BY <1>3
  <2>2. Min(I) \in I
    <3>1. PICK m \in I : \A y \in I : m <= y
      BY <2>1, LeastNumber
    <3> QED BY <2>1, <3>1, MinIs
  <2>3. j \in I /\ j # 0
    BY <1>3, <2>2
  <2> HIDE DEF j
  <2>4. u = Append(RemoveAt(s, j), Retell(s[j], k, x))
    BY <1>1, <2>3
  <2> QED BY <2>3, <2>4
<1> QED
  BY <1>2, <1>3

(* The swaps opened by the first n events of h, with their state after them. *)
Opens(p, h, n) == {m \in 1 .. n : h[m].topic = "opened" /\ Tracked(p, h[m].offer.token)}
SettledBy(h, m, n) == {k \in m + 1 .. n : h[k].data[1] = h[m].data[1]}
StateIn(h, m, n) == IF SettledBy(h, m, n) = {} THEN "open" ELSE h[CHOOSE k \in SettledBy(h, m, n) : TRUE].topic
PreimageIn(o, k) == IF k = "claimed" THEN Preimage(o) ELSE <<>>
Tale(p, h, m, n) == Told(p, h[m].data[1], h[m].offer, StateIn(h, m, n), PreimageIn(h[m].offer, StateIn(h, m, n)))

Reduced(p, h, n, base, s) ==
  /\ s \in Seq(ToldSwap) /\ Distinct(s)
  /\ ToSet(s) = ToSet(base) \cup {Tale(p, h, m, n) : m \in Opens(p, h, n)}

LEMMA HistoryFacts ==
  ASSUME NEW p \in Prefix, NEW h, HistoryOf(p, h)
  PROVE  /\ h \in Seq(LogType(p)) /\ Len(h) \in Nat /\ DOMAIN h = 1 .. Len(h)
         /\ \A n \in 1 .. Len(h) : h[n] \in LogType(p) /\ h[n].offer \in Offers /\ h[n].data[1] \in SwapIds[p]
                                   /\ h[n].topic \in {"opened", "claimed", "aborted"}
         /\ \A m, n \in 1 .. Len(h) : m < n /\ h[m].data[1] = h[n].data[1] =>
              h[m].topic = "opened" /\ h[n].topic # "opened" /\ h[n].offer = h[m].offer
<1>1. h \in Seq(LogType(p))
  BY DEF HistoryOf
<1>2. Len(h) \in Nat /\ DOMAIN h = 1 .. Len(h) /\ \A n \in 1 .. Len(h) : h[n] \in LogType(p)
  BY <1>1, LenProperties, ElementOfSeq
<1>3. \A n \in 1 .. Len(h) : h[n].offer \in Offers /\ h[n].data[1] \in SwapIds[p]
                             /\ h[n].topic \in {"opened", "claimed", "aborted"}
  BY <1>2, LogIs
<1> QED
  BY <1>1, <1>2, <1>3 DEF HistoryOf

LEMMA PreimageType ==
  ASSUME NEW o \in Offers, NEW k
  PROVE  PreimageIn(o, k) \in SomePreimage
BY DEF PreimageIn, SomePreimage

LEMMA TaleIs ==
  ASSUME NEW p \in Prefix, NEW h, HistoryOf(p, h), NEW n \in 0 .. Len(h), NEW m \in 1 .. n, h[m].topic = "opened"
  PROVE  /\ Tale(p, h, m, n) \in ToldSwap /\ Tale(p, h, m, n).prefix = p /\ Tale(p, h, m, n).id = h[m].data[1]
         /\ Tale(p, h, m, n).recipient = h[m].offer.recipient
<1> DEFINE k == StateIn(h, m, n)
           x == PreimageIn(h[m].offer, k)
           id == h[m].data[1]
           o == h[m].offer
<1>1. /\ Len(h) \in Nat /\ \A i \in 1 .. Len(h) : h[i].topic \in {"opened", "claimed", "aborted"}
      /\ \A i, j \in 1 .. Len(h) : i < j /\ h[i].data[1] = h[j].data[1] => h[j].topic # "opened"
      /\ \A i \in 1 .. Len(h) : h[i].offer \in Offers /\ h[i].data[1] \in SwapIds[p]
  BY HistoryFacts
<1>2. m \in 1 .. Len(h) /\ n \in Nat /\ m \in Nat
  BY <1>1
<1>3. k \in SwapKind
  <2>1. CASE SettledBy(h, m, n) = {}
    BY <2>1 DEF StateIn, SwapKind
  <2>2. CASE SettledBy(h, m, n) # {}
    <3> DEFINE j == CHOOSE i \in SettledBy(h, m, n) : TRUE
    <3>1. j \in SettledBy(h, m, n)
      BY <2>2
    <3>2. k = h[j].topic
      BY <2>2 DEF StateIn
    <3> HIDE DEF j
    <3>3. j \in m + 1 .. n /\ h[j].data[1] = h[m].data[1]
      BY <3>1 DEF SettledBy
    <3>4. j \in 1 .. Len(h) /\ m < j
      BY <1>1, <1>2, <3>3
    <3>5. h[j].topic # "opened" /\ h[j].topic \in {"opened", "claimed", "aborted"}
      BY <1>1, <1>2, <3>3, <3>4
    <3> HIDE DEF k
    <3> QED BY <3>2, <3>5 DEF SwapKind
  <2> QED BY <2>1, <2>2
<1>4. o \in Offers /\ id \in SwapIds[p]
  BY <1>1, <1>2
<1>5. x \in SomePreimage
  BY <1>4, PreimageType
<1>6. Tale(p, h, m, n) = Told(p, id, o, k, x)
  BY DEF Tale
<1> HIDE DEF k, x, id, o
<1>7. Told(p, id, o, k, x) \in ToldSwap
  BY <1>3, <1>4, <1>5, ToldType
<1>8. Told(p, id, o, k, x).prefix = p /\ Told(p, id, o, k, x).id = id /\ Told(p, id, o, k, x).recipient = o.recipient
  BY ToldFields
<1> QED
  BY <1>6, <1>7, <1>8 DEF id, o

(* An event of another swap. *)
LEMMA TaleStays ==
  ASSUME NEW h, NEW n \in Nat, NEW m \in 1 .. n, h[n + 1].data[1] # h[m].data[1], NEW p
  PROVE  Tale(p, h, m, n + 1) = Tale(p, h, m, n)
<1>1. \A k \in m + 1 .. n + 1 : k \in m + 1 .. n \/ k = n + 1
  OBVIOUS
<1>2. \A k \in m + 1 .. n : k \in m + 1 .. n + 1
  OBVIOUS
<1>3. SettledBy(h, m, n + 1) = SettledBy(h, m, n)
  BY <1>1, <1>2 DEF SettledBy
<1> QED
  BY <1>3 DEF Tale, StateIn

(* The event that settles a swap which was open. *)
LEMMA TaleSettles ==
  ASSUME NEW p \in Prefix, NEW h, HistoryOf(p, h), NEW n \in 0 .. Len(h) - 1, NEW m \in 1 .. n,
         h[m].topic = "opened", h[n + 1].data[1] = h[m].data[1]
  PROVE  /\ Tale(p, h, m, n) = Told(p, h[m].data[1], h[m].offer, "open", <<>>)
         /\ Tale(p, h, m, n + 1)
              = Told(p, h[m].data[1], h[m].offer, h[n + 1].topic, PreimageIn(h[m].offer, h[n + 1].topic))
         /\ h[n + 1].offer = h[m].offer
<1>1. /\ Len(h) \in Nat
      /\ \A i, j \in 1 .. Len(h) : i < j /\ h[i].data[1] = h[j].data[1] =>
           h[i].topic = "opened" /\ h[j].topic # "opened" /\ h[j].offer = h[i].offer
  BY HistoryFacts
<1>2. m \in 1 .. Len(h) /\ n + 1 \in 1 .. Len(h) /\ m < n + 1 /\ n \in Nat /\ m \in Nat
  BY <1>1
<1>3. SettledBy(h, m, n) = {}
  <2> SUFFICES ASSUME NEW k \in SettledBy(h, m, n) PROVE FALSE
    OBVIOUS
  <2>1. k \in m + 1 .. n /\ h[k].data[1] = h[m].data[1]
    BY DEF SettledBy
  <2>2. k \in 1 .. Len(h) /\ m < k /\ k < n + 1
    BY <1>1, <1>2, <2>1
  <2>3. h[k].topic # "opened"
    BY <1>1, <1>2, <2>1, <2>2
  <2>4. h[k].topic = "opened"
    BY <1>1, <1>2, <2>1, <2>2
  <2> QED BY <2>3, <2>4
<1>4. SettledBy(h, m, n + 1) = {n + 1}
  <2>1. \A k \in m + 1 .. n + 1 : k \in m + 1 .. n \/ k = n + 1
    BY <1>2
  <2>2. n + 1 \in m + 1 .. n + 1
    BY <1>2
  <2> QED BY <1>3, <2>1, <2>2 DEF SettledBy
<1>5. StateIn(h, m, n) = "open" /\ StateIn(h, m, n + 1) = h[n + 1].topic
  BY <1>3, <1>4 DEF StateIn
<1>6. PreimageIn(h[m].offer, "open") = <<>>
  BY DEF PreimageIn
<1> QED
  BY <1>1, <1>2, <1>5, <1>6 DEF Tale

(* Swaps of other contracts and of other IDs are told apart. *)
Foreign(p, base) == base \in Seq(ToldSwap) /\ Distinct(base) /\ \A s \in ToSet(base) : s.prefix # p

LEMMA ReduceOpened ==
  ASSUME NEW p \in Prefix, NEW h, HistoryOf(p, h), NEW base, Foreign(p, base), NEW n \in 0 .. Len(h) - 1,
         NEW s, Reduced(p, h, n, base, s), h[n + 1].topic = "opened"
  PROVE  Reduced(p, h, n + 1, base, ReduceLog(s, h[n + 1], p))
<1> DEFINE l == h[n + 1]
           new == Told(p, l.data[1], l.offer, "open", <<>>)
<1>1. /\ Len(h) \in Nat /\ \A i \in 1 .. Len(h) : h[i] \in LogType(p) /\ h[i].offer \in Offers /\ h[i].data[1] \in SwapIds[p]
      /\ \A i, j \in 1 .. Len(h) : i < j /\ h[i].data[1] = h[j].data[1] => h[j].topic # "opened"
  BY HistoryFacts
<1>2. n + 1 \in 1 .. Len(h) /\ n \in Nat /\ n \in 0 .. Len(h) /\ \A m \in 1 .. n : m \in 1 .. Len(h) /\ m < n + 1
  BY <1>1
<1>3. \A m \in 1 .. n : h[m].data[1] # l.data[1]
  BY <1>1, <1>2
<1>4. \A m \in 1 .. n : Tale(p, h, m, n + 1) = Tale(p, h, m, n)
  BY <1>2, <1>3, TaleStays
<1>5. /\ l \in LogType(p) /\ parseOpenedEventBytes(l.data, p) = new
      /\ Tracked(p, l.data[Len(l.data)]) = Tracked(p, l.offer.token)
  BY <1>1, <1>2, LogIs
<1>6. ReduceLog(s, l, p) = IF Tracked(p, l.offer.token) THEN Append(s, new) ELSE s
  BY <1>5 DEF ReduceLog
<1>7. /\ s \in Seq(ToldSwap) /\ Distinct(s)
      /\ ToSet(s) = ToSet(base) \cup {Tale(p, h, m, n) : m \in Opens(p, h, n)}
  BY DEF Reduced
<1>8. Opens(p, h, n + 1) = IF Tracked(p, l.offer.token) THEN Opens(p, h, n) \cup {n + 1} ELSE Opens(p, h, n)
  <2>1. 1 .. n + 1 = 1 .. n \cup {n + 1}
    BY <1>2
  <2> QED BY <2>1 DEF Opens
<1>9. {Tale(p, h, m, n + 1) : m \in Opens(p, h, n)} = {Tale(p, h, m, n) : m \in Opens(p, h, n)}
  BY <1>4 DEF Opens
<1> HIDE DEF new
<1>10. CASE ~Tracked(p, l.offer.token)
  BY <1>6, <1>7, <1>8, <1>9, <1>10 DEF Reduced
<1>11. CASE Tracked(p, l.offer.token)
  <2>1. new \in ToldSwap /\ new.prefix = p /\ new.id = l.data[1]
    <3> DEFINE none == <<>>
               k == "open"
               o == l.offer
               id == l.data[1]
    <3>1. o \in Offers /\ id \in SwapIds[p] /\ k \in SwapKind /\ none \in SomePreimage
      BY <1>1, <1>2 DEF SwapKind, SomePreimage
    <3>2. new = Told(p, id, o, k, none)
      BY DEF new
    <3> HIDE DEF none, k, o, id
    <3>3. Told(p, id, o, k, none) \in ToldSwap
      BY <3>1, ToldType
    <3>4. Told(p, id, o, k, none).prefix = p /\ Told(p, id, o, k, none).id = id
      BY ToldFields
    <3> QED BY <3>2, <3>3, <3>4 DEF id
  <2>2. new \notin ToSet(s)
    <3>1. new \notin ToSet(base)
      BY <2>1 DEF Foreign
    <3>2. ASSUME NEW m \in Opens(p, h, n) PROVE new # Tale(p, h, m, n)
      <4>1. m \in 1 .. n /\ h[m].topic = "opened"
        BY DEF Opens
      <4>2. Tale(p, h, m, n).id = h[m].data[1]
        BY <1>2, <4>1, TaleIs
      <4> QED BY <1>3, <2>1, <4>1, <4>2
    <3> QED BY <1>7, <3>1, <3>2
  <2>3. /\ Append(s, new) \in Seq(ToldSwap) /\ Distinct(Append(s, new))
        /\ ToSet(Append(s, new)) = ToSet(s) \cup {new}
    BY <1>7, <2>1, <2>2, AppendDistinct
  <2>4. Tale(p, h, n + 1, n + 1) = new
    <3>1. n + 1 + 1 .. n + 1 = {}
      BY <1>2
    <3>2. StateIn(h, n + 1, n + 1) = "open"
      BY <3>1 DEF StateIn, SettledBy
    <3> QED BY <3>2 DEF Tale, PreimageIn, new
  <2>5. {Tale(p, h, m, n + 1) : m \in Opens(p, h, n + 1)} = {Tale(p, h, m, n) : m \in Opens(p, h, n)} \cup {new}
    BY <1>8, <1>9, <1>11, <2>4
  <2>6. ReduceLog(s, l, p) = Append(s, new)
    BY <1>6, <1>11
  <2>7. ToSet(Append(s, new)) = ToSet(base) \cup {Tale(p, h, m, n + 1) : m \in Opens(p, h, n + 1)}
    BY <1>7, <2>3, <2>5
  <2> QED BY <2>3, <2>6, <2>7 DEF Reduced
<1> QED
  BY <1>10, <1>11

(* A claim or abort. *)
LEMMA ReduceSettled ==
  ASSUME NEW p \in Prefix, NEW h, HistoryOf(p, h), NEW base, Foreign(p, base), NEW n \in 0 .. Len(h) - 1,
         NEW s, Reduced(p, h, n, base, s), h[n + 1].topic # "opened"
  PROVE  Reduced(p, h, n + 1, base, ReduceLog(s, h[n + 1], p))
<1> DEFINE l == h[n + 1]
           id == l.data[1]
           k == l.topic
           x == PreimageIn(l.offer, k)
           u == updateSwapInList(s, k, p, id, x)
<1>1. /\ Len(h) \in Nat
      /\ \A i \in 1 .. Len(h) : h[i] \in LogType(p) /\ h[i].offer \in Offers /\ h[i].topic \in {"opened", "claimed", "aborted"}
      /\ \A i, j \in 1 .. Len(h) : i < j /\ h[i].data[1] = h[j].data[1] => h[i].topic = "opened" /\ h[j].topic # "opened"
  BY HistoryFacts
<1>2. n + 1 \in 1 .. Len(h) /\ n \in Nat /\ n \in 0 .. Len(h) /\ \A m \in 1 .. n : m \in 1 .. Len(h) /\ m < n + 1
  BY <1>1
<1>3. ReduceLog(s, l, p) = u
  <2>1. k = "claimed" => l.data[2] = Preimage(l.offer)
    BY <1>1, <1>2, LogIs
  <2>2. k = "claimed" \/ k = "aborted"
    BY <1>1, <1>2
  <2>3. CASE k = "claimed"
    <3>1. l.data[2] = x
      BY <2>1, <2>3 DEF PreimageIn
    <3> HIDE DEF x
    <3> QED BY <2>3, <3>1 DEF ReduceLog
  <2>4. CASE k = "aborted"
    <3>1. x = <<>>
      BY <2>4 DEF PreimageIn
    <3> HIDE DEF x
    <3> QED BY <2>4, <3>1 DEF ReduceLog
  <2> QED BY <2>2, <2>3, <2>4
<1>4. /\ s \in Seq(ToldSwap) /\ Distinct(s) /\ Len(s) \in Nat /\ DOMAIN s = 1 .. Len(s)
      /\ ToSet(s) = ToSet(base) \cup {Tale(p, h, m, n) : m \in Opens(p, h, n)}
  BY LenProperties DEF Reduced
<1>5. Opens(p, h, n + 1) = Opens(p, h, n)
  <2>1. 1 .. n + 1 = 1 .. n \cup {n + 1}
    BY <1>2
  <2> QED BY <2>1 DEF Opens
<1>6. \A m \in Opens(p, h, n) : m \in 1 .. n /\ h[m].topic = "opened"
  BY DEF Opens
<1>7. \A m \in Opens(p, h, n) :
        Tale(p, h, m, n).prefix = p /\ Tale(p, h, m, n).id = h[m].data[1]
  BY <1>2, <1>6, TaleIs
<1>8. \A m, j \in Opens(p, h, n) : h[m].data[1] = h[j].data[1] => m = j
  <2> SUFFICES ASSUME NEW m \in Opens(p, h, n), NEW j \in Opens(p, h, n), h[m].data[1] = h[j].data[1], m # j
               PROVE  FALSE
    OBVIOUS
  <2>1. m \in 1 .. Len(h) /\ j \in 1 .. Len(h) /\ h[m].topic = "opened" /\ h[j].topic = "opened"
    BY <1>2, <1>6
  <2>2. m < j \/ j < m
    BY <2>1
  <2> QED BY <1>1, <2>1, <2>2
<1>9. \A m \in Opens(p, h, n) : h[m].data[1] # id => Tale(p, h, m, n + 1) = Tale(p, h, m, n)
  BY <1>2, <1>6, TaleStays
<1>10. \/ u = s /\ \A i \in 1 .. Len(s) : ~ (s[i].id = id /\ s[i].prefix = p)
       \/ \E i \in 1 .. Len(s) : s[i].id = id /\ s[i].prefix = p /\ u = Append(RemoveAt(s, i), Retell(s[i], k, x))
  <2> HIDE DEF l, id, k, x
  <2>1. s \in Seq(ToldSwap)
    BY <1>4
  <2> QED BY <2>1, UpdateInListIs
<1> HIDE DEF u, x
<1>11. CASE u = s /\ \A i \in 1 .. Len(s) : ~ (s[i].id = id /\ s[i].prefix = p)
  <2>1. \A t \in ToSet(s) : ~ (t.id = id /\ t.prefix = p)
    BY <1>4, <1>11 DEF ToSet
  <2>2. \A m \in Opens(p, h, n) : h[m].data[1] # id
    BY <1>4, <1>7, <2>1
  <2>3. {Tale(p, h, m, n + 1) : m \in Opens(p, h, n + 1)} = {Tale(p, h, m, n) : m \in Opens(p, h, n)}
    BY <1>5, <1>9, <2>2
  <2> QED BY <1>3, <1>4, <1>11, <2>3 DEF Reduced
<1>12. ASSUME NEW i \in 1 .. Len(s), s[i].id = id, s[i].prefix = p, u = Append(RemoveAt(s, i), Retell(s[i], k, x))
       PROVE  Reduced(p, h, n + 1, base, u)
  <2>1. PICK m \in Opens(p, h, n) : s[i] = Tale(p, h, m, n)
    <3>1. s[i] \in ToSet(s)
      BY <1>4 DEF ToSet
    <3>2. s[i] \notin ToSet(base)
      BY <1>12 DEF Foreign
    <3> QED BY <1>4, <3>1, <3>2
  <2>2. h[m].data[1] = id /\ m \in 1 .. n /\ h[m].topic = "opened"
    BY <1>6, <1>7, <1>12, <2>1
  <2> DEFINE o == h[m].offer
             old == Told(p, id, o, "open", <<>>)
             new == Told(p, id, o, k, x)
  <2>3. Tale(p, h, m, n) = old /\ Tale(p, h, m, n + 1) = new
    <3>1. /\ Tale(p, h, m, n) = Told(p, h[m].data[1], h[m].offer, "open", <<>>)
          /\ Tale(p, h, m, n + 1)
               = Told(p, h[m].data[1], h[m].offer, h[n + 1].topic, PreimageIn(h[m].offer, h[n + 1].topic))
          /\ h[n + 1].offer = h[m].offer
      BY <2>2, TaleSettles
    <3>2. PreimageIn(h[m].offer, k) = x
      BY <3>1 DEF x
    <3> QED BY <2>2, <3>1, <3>2
  <2>4. Retell(s[i], k, x) = new
    <3>1. Retell(old, k, x) = new
      <4> DEFINE j == "open"
                 y == <<>>
      <4> HIDE DEF j, y, o
      <4>1. Retell(Told(p, id, o, j, y), k, x) = Told(p, id, o, k, x)
        BY ToldAnew
      <4> QED BY <4>1 DEF j, y
    <3> QED BY <2>1, <2>3, <3>1
  <2>5. new \in ToldSwap /\ new.prefix = p /\ new.id = id
    <3>1. n + 1 \in 0 .. Len(h) /\ m \in 1 .. n + 1
      BY <1>1, <1>2, <2>2
    <3>2. Tale(p, h, m, n + 1) \in ToldSwap /\ Tale(p, h, m, n + 1).prefix = p /\ Tale(p, h, m, n + 1).id = h[m].data[1]
      BY <2>2, <3>1, TaleIs
    <3> QED BY <2>2, <2>3, <3>2
  <2> HIDE DEF old, new, o
  <2>6. /\ RemoveAt(s, i) \in Seq(ToldSwap) /\ Distinct(RemoveAt(s, i))
        /\ ToSet(RemoveAt(s, i)) = ToSet(s) \ {old}
    BY <1>4, <2>1, <2>3, RemoveAtIs
  <2>7. ToSet(base) \cap {old} = {} /\ new \notin ToSet(base)
    <3>1. old.prefix = p
      BY <1>7, <2>3
    <3> QED BY <2>5, <3>1 DEF Foreign
  <2>8. \A j \in Opens(p, h, n) : j # m => Tale(p, h, j, n) # old /\ Tale(p, h, j, n) # new /\ h[j].data[1] # id
    <3>1. \A j \in Opens(p, h, n) : j # m => h[j].data[1] # id
      BY <1>8, <2>2
    <3>2. old.id = id
      BY <1>7, <2>2, <2>3
    <3> QED BY <1>7, <2>5, <3>1, <3>2
  <2>9. ToSet(RemoveAt(s, i)) = ToSet(base) \cup {Tale(p, h, j, n) : j \in Opens(p, h, n) \ {m}}
    BY <1>4, <2>3, <2>6, <2>7, <2>8
  <2>10. new \notin ToSet(RemoveAt(s, i))
    BY <2>7, <2>8, <2>9
  <2>11. u \in Seq(ToldSwap) /\ Distinct(u) /\ ToSet(u) = ToSet(RemoveAt(s, i)) \cup {new}
    BY <1>12, <2>4, <2>5, <2>6, <2>10, AppendDistinct
  <2>12. \A j \in Opens(p, h, n) \ {m} : Tale(p, h, j, n + 1) = Tale(p, h, j, n)
    BY <1>9, <2>8
  <2>13. {Tale(p, h, j, n + 1) : j \in Opens(p, h, n + 1)} = {Tale(p, h, j, n) : j \in Opens(p, h, n) \ {m}} \cup {new}
    BY <1>5, <2>3, <2>12
  <2> QED BY <2>9, <2>11, <2>13 DEF Reduced
<1> QED
  BY <1>3, <1>10, <1>11, <1>12

(* The reduction keeps its type whatever it starts from. *)
LEMMA ReduceLogType ==
  ASSUME NEW p \in Prefix, NEW l \in LogType(p), NEW s \in Seq(ToldSwap)
  PROVE  ReduceLog(s, l, p) \in Seq(ToldSwap)
<1>1. /\ l.data[1] \in SwapIds[p] /\ l.offer \in Offers /\ l.topic \in {"opened", "claimed", "aborted"}
      /\ l.topic = "opened" => parseOpenedEventBytes(l.data, p) = Told(p, l.data[1], l.offer, "open", <<>>)
      /\ l.topic = "claimed" => l.data[2] = Preimage(l.offer)
  BY LogIs
<1>2. <<>> \in SomePreimage /\ Preimage(l.offer) \in SomePreimage /\ "open" \in SwapKind
      /\ "claimed" \in SwapKind /\ "aborted" \in SwapKind
  BY <1>1 DEF SomePreimage, SwapKind
<1>3. ASSUME NEW k \in SwapKind, NEW x \in SomePreimage
      PROVE  updateSwapInList(s, k, p, l.data[1], x) \in Seq(ToldSwap)
  <2> DEFINE u == updateSwapInList(s, k, p, l.data[1], x)
  <2>1. u = s \/ \E i \in 1 .. Len(s) : u = Append(RemoveAt(s, i), Retell(s[i], k, x))
    BY UpdateInListIs
  <2> HIDE DEF u
  <2>2. ASSUME NEW i \in 1 .. Len(s), u = Append(RemoveAt(s, i), Retell(s[i], k, x))
        PROVE  u \in Seq(ToldSwap)
    <3>1. s[i] \in ToldSwap
      BY ElementOfSeq
    <3>2. Retell(s[i], k, x) \in ToldSwap
      BY <3>1, ToldAgain
    <3>3. RemoveAt(s, i) \in Seq(ToldSwap)
      BY RemoveAtType
    <3> QED BY <2>2, <3>2, <3>3, AppendDistinct
  <2> QED BY <2>1, <2>2 DEF u
<1>4. CASE l.topic = "opened"
  <2> DEFINE new == parseOpenedEventBytes(l.data, p)
  <2>1. new \in ToldSwap
    BY <1>1, <1>2, <1>4, ToldType
  <2> HIDE DEF new
  <2>2. ReduceLog(s, l, p) = Append(s, new) \/ ReduceLog(s, l, p) = s
    BY <1>4 DEF ReduceLog, new
  <2> QED BY <2>1, <2>2, AppendDistinct
<1>5. CASE l.topic = "claimed"
  <2>1. ReduceLog(s, l, p) = updateSwapInList(s, "claimed", p, l.data[1], Preimage(l.offer))
    BY <1>1, <1>5 DEF ReduceLog
  <2> QED BY <1>2, <1>3, <2>1
<1>6. CASE l.topic = "aborted"
  <2>1. ReduceLog(s, l, p) = updateSwapInList(s, "aborted", p, l.data[1], <<>>)
    BY <1>6 DEF ReduceLog
  <2> QED BY <1>2, <1>3, <2>1
<1> QED
  BY <1>1, <1>4, <1>5, <1>6

(* The reduction over the logs of one contract. *)
LEMMA ReduceLogsIs ==
  ASSUME NEW p \in Prefix, NEW h, HistoryOf(p, h), NEW base, Foreign(p, base)
  PROVE  Reduced(p, h, Len(h), base, ReduceLogs(base, h, p))
<1> DEFINE L == Len(h)
           T == Seq(ToldSwap)
           IsReduced(f) == f = [n \in 0 .. L |-> IF n = 0 THEN base ELSE ReduceLog(f[n - 1], h[n], p)]
           upTo == CHOOSE f : IsReduced(f)
<1>1. L \in Nat /\ \A n \in 1 .. L : h[n] \in LogType(p)
  BY HistoryFacts
<1>2. ReduceLogs(base, h, p) = upTo[L]
  BY DEF ReduceLogs
<1>3. base \in T /\ Distinct(base)
  BY DEF Foreign
<1>4. \E f \in [0 .. L -> T] : IsReduced(f)
  <2> DEFINE g == [x \in T \X (1 .. L) |-> ReduceLog(x[1], h[x[2]], p)]
  <2>1. g \in [T \X (1 .. L) -> T]
    <3> SUFFICES ASSUME NEW x \in T \X (1 .. L) PROVE ReduceLog(x[1], h[x[2]], p) \in T
      OBVIOUS
    <3>1. x[1] \in Seq(ToldSwap) /\ h[x[2]] \in LogType(p)
      BY <1>1
    <3> QED BY <3>1, ReduceLogType
  <2>2. \A x \in T, n \in 1 .. L : g[<<x, n>>] = ReduceLog(x, h[n], p)
    OBVIOUS
  <2> HIDE DEF g, L, T
  <2>3. PICK f \in [0 .. L -> T] : f[0] = base /\ \A n \in 1 .. L : f[n] = g[<<f[n - 1], n>>]
    <3>1. L \in Nat /\ g \in StepFunctions(T, L)
      BY <1>1, <2>1 DEF StepFunctions
    <3>2. \E f : Recurs(f, T, base, g, L)
      BY <1>3, <3>1, Recursion
    <3> QED BY <3>2 DEF Recurs
  <2>4. \A n \in 1 .. L : f[n - 1] \in T
    BY <1>1, <2>3
  <2>5. \A n \in 1 .. L : f[n] = ReduceLog(f[n - 1], h[n], p)
    BY <2>2, <2>3, <2>4
  <2>6. f = [n \in 0 .. L |-> IF n = 0 THEN base ELSE ReduceLog(f[n - 1], h[n], p)]
    <3>1. \A n \in 0 .. L : n # 0 => n \in 1 .. L
      BY <1>1
    <3> QED BY <2>3, <2>5, <3>1
  <2> QED BY <2>3, <2>6
<1>5. IsReduced(upTo)
  BY <1>4
<1> HIDE DEF upTo
<1>6. upTo[0] = base /\ \A n \in 1 .. L : upTo[n] = ReduceLog(upTo[n - 1], h[n], p)
  <2>1. upTo = [n \in 0 .. L |-> IF n = 0 THEN base ELSE ReduceLog(upTo[n - 1], h[n], p)]
    BY <1>5
  <2>2. 0 \in 0 .. L /\ \A n \in 1 .. L : n \in 0 .. L /\ n # 0
    BY <1>1
  <2> HIDE DEF L
  <2>3. \A n \in 0 .. L : upTo[n] = IF n = 0 THEN base ELSE ReduceLog(upTo[n - 1], h[n], p)
    BY <2>1
  <2> QED BY <2>2, <2>3
<1> DEFINE Good(n) == Reduced(p, h, n, base, upTo[n])
           P == {n \in 0 .. L : Good(n)}
<1>7. Good(0)
  <2>1. Opens(p, h, 0) = {}
    BY DEF Opens
  <2> QED BY <1>3, <1>6, <2>1 DEF Reduced
<1>8. ASSUME NEW k \in 0 .. L - 1, Good(k) PROVE Good(k + 1)
  <2>1. k + 1 \in 1 .. L /\ (k + 1) - 1 = k
    BY <1>1
  <2>2. upTo[k + 1] = ReduceLog(upTo[k], h[k + 1], p)
    BY <1>6, <2>1
  <2>3. Reduced(p, h, k + 1, base, ReduceLog(upTo[k], h[k + 1], p))
    <3> DEFINE s == upTo[k]
    <3>0. k \in 0 .. Len(h) - 1 /\ Reduced(p, h, k, base, s)
      BY <1>8
    <3> HIDE DEF s
    <3>1. CASE h[k + 1].topic = "opened"
      BY <3>0, <3>1, ReduceOpened DEF s
    <3>2. CASE h[k + 1].topic # "opened"
      BY <3>0, <3>2, ReduceSettled DEF s
    <3> QED BY <3>1, <3>2
  <2> QED BY <2>2, <2>3
<1> HIDE DEF Good
<1>9. \A k \in 0 .. L : k \in P
  <2>1. 0 \in P
    BY <1>1, <1>7
  <2>2. \A k \in 0 .. L - 1 : k \in P => k + 1 \in P
    <3> SUFFICES ASSUME NEW k \in 0 .. L - 1, k \in P PROVE k + 1 \in P
      OBVIOUS
    <3>1. k + 1 \in 0 .. L
      BY <1>1
    <3> QED BY <1>8, <3>1
  <2> HIDE DEF P, L
  <2> QED BY <1>1, <2>1, <2>2, UpToTheEnd
<1>10. Good(L)
  BY <1>1, <1>9
<1> QED
  BY <1>2, <1>10 DEF Good

(* Where the events of a swap are that was opened among them. *)
LEMMA EventsAre ==
  ASSUME NEW p \in Prefix, NEW h, HistoryOf(p, h), NEW m \in 1 .. Len(h), h[m].topic = "opened"
  PROVE  LET E == EventsOf(h[m].data[1], h)
             S == SettledBy(h, m, Len(h))
         IN /\ E # {} /\ Min(E) = m
            /\ S = {} => Max(E) = m
            /\ \A k \in S : Max(E) = k /\ h[k].topic \in {"claimed", "aborted"}
<1> DEFINE E == EventsOf(h[m].data[1], h)
           S == SettledBy(h, m, Len(h))
<1>1. /\ Len(h) \in Nat /\ DOMAIN h = 1 .. Len(h)
      /\ \A i \in 1 .. Len(h) : h[i].topic \in {"opened", "claimed", "aborted"}
      /\ \A i, j \in 1 .. Len(h) : i < j /\ h[i].data[1] = h[j].data[1] => h[i].topic = "opened" /\ h[j].topic # "opened"
  BY HistoryFacts
<1>2. E \subseteq 1 .. Len(h) /\ \A i \in E : h[i].data[1] = h[m].data[1]
  BY <1>1 DEF EventsOf
<1>3. S \subseteq 1 .. Len(h) /\ \A k \in S : m < k /\ h[k].data[1] = h[m].data[1]
  BY <1>1 DEF SettledBy
<1>4. m \in E /\ S \subseteq E
  BY <1>1, <1>3 DEF EventsOf
<1>5. \A i \in E : i = m \/ i \in S
  <2> SUFFICES ASSUME NEW i \in E, i # m PROVE i \in S
    OBVIOUS
  <2>1. i \in 1 .. Len(h) /\ h[i].data[1] = h[m].data[1]
    BY <1>2
  <2>2. ~ (i < m)
    BY <1>1, <2>1
  <2>3. i \in m + 1 .. Len(h)
    BY <1>1, <2>1, <2>2
  <2> QED BY <2>1, <2>3 DEF SettledBy
<1>6. \A j, k \in S : j = k
  <2> SUFFICES ASSUME NEW j \in S, NEW k \in S, j < k PROVE FALSE
    BY <1>1, <1>3
  <2>1. j \in 1 .. Len(h) /\ k \in 1 .. Len(h) /\ h[j].data[1] = h[k].data[1] /\ h[j].data[1] = h[m].data[1] /\ m < j
    BY <1>3
  <2>2. h[j].topic = "opened" /\ h[j].topic # "opened"
    BY <1>1, <2>1
  <2> QED BY <2>2
<1> HIDE DEF E, S
<1>7. E \subseteq Nat /\ \A i \in E : m <= i
  BY <1>1, <1>2, <1>3, <1>5
<1>8. Min(E) = m
  BY <1>4, <1>7, MinIs
<1>9. S = {} => Max(E) = m
  <2> SUFFICES ASSUME S = {} PROVE Max(E) = m
    OBVIOUS
  <2>1. \A i \in E : i <= m
    BY <1>5
  <2> QED BY <1>4, <1>7, <2>1, MaxIs
<1>10. ASSUME NEW k \in S PROVE Max(E) = k /\ h[k].topic \in {"claimed", "aborted"}
  <2>1. k \in E /\ \A i \in E : i <= k
    BY <1>1, <1>3, <1>4, <1>5, <1>6
  <2>2. Max(E) = k
    BY <1>7, <2>1, MaxIs
  <2>3. h[k].topic # "opened" /\ h[k].topic \in {"opened", "claimed", "aborted"}
    BY <1>1, <1>3
  <2> QED BY <2>2, <2>3
<1> QED
  BY <1>4, <1>8, <1>9, <1>10 DEF E, S

(* What is expected of a swap is what its events tell. *)
LEMMA ExpectedIsTale ==
  ASSUME NEW p \in Prefix, NEW h, HistoryOf(p, h), NEW m \in 1 .. Len(h), h[m].topic = "opened"
  PROVE  Expected(p, h[m].data[1], h) = Tale(p, h, m, Len(h))
<1> DEFINE id == h[m].data[1]
           E == EventsOf(id, h)
           S == SettledBy(h, m, Len(h))
           last == LastEvent(id, h)
           o == h[m].offer
           k == IF last = "opened" THEN "open" ELSE last
<1>1. /\ E # {} /\ Min(E) = m
      /\ S = {} => Max(E) = m
      /\ \A j \in S : Max(E) = j /\ h[j].topic \in {"claimed", "aborted"}
  BY EventsAre
<1>2. OfferIn(id, h) = o /\ last = h[Max(E)].topic
  BY <1>1 DEF OfferIn, LastEvent
<1>3. StateIn(h, m, Len(h)) = k /\ (last = "claimed" <=> k = "claimed")
  <2>1. CASE S = {}
    <3>1. last = "opened"
      BY <1>1, <1>2, <2>1
    <3> HIDE DEF last
    <3> QED BY <2>1, <3>1 DEF StateIn
  <2>2. CASE S # {}
    <3> DEFINE j == CHOOSE i \in S : TRUE
    <3>1. j \in S
      BY <2>2
    <3>2. StateIn(h, m, Len(h)) = h[j].topic
      BY <2>2 DEF StateIn
    <3> HIDE DEF j
    <3>3. last = h[j].topic /\ h[j].topic \in {"claimed", "aborted"}
      BY <1>1, <1>2, <3>1
    <3> HIDE DEF last
    <3> QED BY <3>2, <3>3
  <2> QED BY <2>1, <2>2
<1> HIDE DEF E, S, last
<1>4. Expected(p, id, h) = Told(p, id, o, k, IF last = "claimed" THEN Preimage(o) ELSE <<>>)
  BY <1>2 DEF Expected, Told, Preimage, last
<1> HIDE DEF k
<1>5. Tale(p, h, m, Len(h)) = Told(p, id, o, k, PreimageIn(o, k))
  BY <1>3 DEF Tale
<1>6. PreimageIn(o, k) = IF last = "claimed" THEN Preimage(o) ELSE <<>>
  BY <1>3 DEF PreimageIn
<1> QED
  BY <1>4, <1>5, <1>6

LEMMA ExpectedOfIs ==
  ASSUME NEW p \in Prefix, NEW h, HistoryOf(p, h), NEW r
  PROVE  ExpectedOf(p, h, r)
           = {s \in {Tale(p, h, m, Len(h)) : m \in Opens(p, h, Len(h))} : s.recipient = r}
<1> DEFINE n == Len(h)
           Tales == {Tale(p, h, m, n) : m \in Opens(p, h, n)}
           Mine == {l \in ToSet(h) : l.topic = "opened" /\ Tracked(p, l.offer.token) /\ l.offer.recipient = r}
<1>1. n \in Nat /\ DOMAIN h = 1 .. n /\ n \in 0 .. n
  BY HistoryFacts
<1>2. \A m \in Opens(p, h, n) : m \in 1 .. n /\ h[m].topic = "opened" /\ Tracked(p, h[m].offer.token)
  BY DEF Opens
<1>3. \A m \in Opens(p, h, n) : Tale(p, h, m, n) = Expected(p, h[m].data[1], h)
  BY <1>2, ExpectedIsTale
<1>4. \A m \in Opens(p, h, n) : Tale(p, h, m, n).recipient = h[m].offer.recipient
  BY <1>1, <1>2, TaleIs
<1>5. ExpectedOf(p, h, r) = {Expected(p, l.data[1], h) : l \in Mine}
  BY DEF ExpectedOf
<1>6. ASSUME NEW l \in Mine PROVE \E m \in Opens(p, h, n) : l = h[m] /\ h[m].offer.recipient = r
  <2>1. PICK m \in 1 .. n : l = h[m]
    BY <1>1 DEF ToSet
  <2> QED BY <2>1 DEF Opens
<1>7. ASSUME NEW m \in Opens(p, h, n), h[m].offer.recipient = r PROVE h[m] \in Mine
  BY <1>1, <1>2, <1>7 DEF ToSet
<1> HIDE DEF n, Mine
<1>8. ASSUME NEW l \in Mine PROVE Expected(p, l.data[1], h) \in {s \in Tales : s.recipient = r}
  BY <1>3, <1>4, <1>6
<1>9. ASSUME NEW s \in Tales, s.recipient = r PROVE s \in {Expected(p, l.data[1], h) : l \in Mine}
  BY <1>3, <1>4, <1>7, <1>9
<1>10. {Expected(p, l.data[1], h) : l \in Mine} = {s \in Tales : s.recipient = r}
  BY <1>8, <1>9
<1> QED
  BY <1>5, <1>10 DEF n

(* getSwapsWithFilter() gives every swap it should, once. *)
LEMMA MergeLogsIs ==
  ASSUME NEW answers, \A p \in Prefix : HistoryOf(p, answers[p]), NEW r
  PROVE  /\ Distinct(MergeLogs(answers, r))
         /\ ToSet(MergeLogs(answers, r)) = UNION {ExpectedOf(p, answers[p], r) : p \in Prefix}
<1> DEFINE h == answers["ether"]
           g == answers["erc20"]
           none == <<>>
           ether == ReduceLogs(none, h, "ether")
           all == ReduceLogs(ether, g, "erc20")
           EtherTales == {Tale("ether", h, m, Len(h)) : m \in Opens("ether", h, Len(h))}
           TokenTales == {Tale("erc20", g, m, Len(g)) : m \in Opens("erc20", g, Len(g))}
<1>1. HistoryOf("ether", h) /\ HistoryOf("erc20", g) /\ "ether" \in Prefix /\ "erc20" \in Prefix
  BY DEF Prefix
<1>2. none \in Seq(ToldSwap) /\ Distinct(none) /\ ToSet(none) = {}
  BY EmptySeq DEF Distinct, ToSet
<1> HIDE DEF none, h, g
<1>3. Foreign("ether", none)
  BY <1>2 DEF Foreign
<1>4. Reduced("ether", h, Len(h), none, ether)
  <2> DEFINE p == "ether"
  <2>1. p \in Prefix /\ HistoryOf(p, h) /\ Foreign(p, none)
    BY <1>1, <1>3
  <2> HIDE DEF p
  <2>2. Reduced(p, h, Len(h), none, ReduceLogs(none, h, p))
    BY <2>1, ReduceLogsIs
  <2> QED BY <2>2 DEF p
<1> HIDE DEF ether
<1>5. ether \in Seq(ToldSwap) /\ Distinct(ether) /\ ToSet(ether) = EtherTales
  BY <1>2, <1>4 DEF Reduced
<1>6. Foreign("erc20", ether)
  <2>1. ASSUME NEW m \in Opens("ether", h, Len(h)) PROVE Tale("ether", h, m, Len(h)).prefix # "erc20"
    <3> DEFINE p == "ether"
               n == Len(h)
    <3>1. p \in Prefix /\ HistoryOf(p, h) /\ n \in Nat
      BY <1>1, HistoryFacts
    <3>2. n \in 0 .. Len(h) /\ m \in 1 .. n /\ h[m].topic = "opened"
      BY <2>1, <3>1 DEF Opens
    <3> HIDE DEF p, n
    <3>3. Tale(p, h, m, n).prefix = p
      BY <3>1, <3>2, TaleIs
    <3> QED BY <3>3 DEF p, n
  <2> QED BY <1>5, <2>1 DEF Foreign
<1>7. Reduced("erc20", g, Len(g), ether, all)
  <2> DEFINE p == "erc20"
  <2>1. p \in Prefix /\ HistoryOf(p, g) /\ Foreign(p, ether)
    BY <1>1, <1>6
  <2> HIDE DEF p
  <2>2. Reduced(p, g, Len(g), ether, ReduceLogs(ether, g, p))
    BY <2>1, ReduceLogsIs
  <2> QED BY <2>2 DEF p
<1> HIDE DEF all
<1>8. all \in Seq(ToldSwap) /\ Distinct(all) /\ ToSet(all) = EtherTales \cup TokenTales
  BY <1>5, <1>7 DEF Reduced
<1>9. MergeLogs(answers, r) = Those(all, {s \in ToSet(all) : s.recipient = r})
  BY DEF MergeLogs, all, ether, none, h, g
<1> DEFINE S == {s \in ToSet(all) : s.recipient = r}
<1> HIDE DEF S, EtherTales, TokenTales
<1>10. ToSet(Those(all, S)) = ToSet(all) \cap S /\ Distinct(Those(all, S))
  BY <1>8, ThoseElements
<1>11. ToSet(all) \cap S = {s \in EtherTales : s.recipient = r} \cup {s \in TokenTales : s.recipient = r}
  BY <1>8 DEF S
<1>12. /\ ExpectedOf("ether", h, r) = {s \in EtherTales : s.recipient = r}
       /\ ExpectedOf("erc20", g, r) = {s \in TokenTales : s.recipient = r}
  BY <1>1, ExpectedOfIs DEF EtherTales, TokenTales
<1>13. UNION {ExpectedOf(p, answers[p], r) : p \in Prefix} = ExpectedOf("ether", h, r) \cup ExpectedOf("erc20", g, r)
  BY DEF Prefix, h, g
<1> QED
  BY <1>9, <1>10, <1>11, <1>12, <1>13 DEF S

(* By its ID a swap is told as its events tell it. *)
LEMMA WordsOfGet ==
  ASSUME NEW p \in Prefix, NEW x1, NEW x2, NEW x3, NEW x4, NEW x5, NEW x6, NEW x7, NEW x8
  PROVE  LET w == <<x1, x2, x3, x4, x5, x6, x7>> \o (IF p = "erc20" THEN <<x8>> ELSE <<>>)
         IN /\ w[1] = x1 /\ w[2] = x2 /\ w[3] = x3 /\ w[4] = x4 /\ w[5] = x5 /\ w[6] = x6 /\ w[7] = x7
            /\ p = "erc20" => w[8] = x8
<1> DEFINE S == {x1, x2, x3, x4, x5, x6, x7, x8}
           seven == <<x1, x2, x3, x4, x5, x6, x7>>
           more == IF p = "erc20" THEN <<x8>> ELSE <<>>
           w == seven \o more
<1>1. /\ seven \in Seq(S) /\ Len(seven) = 7 /\ seven[1] = x1 /\ seven[2] = x2 /\ seven[3] = x3 /\ seven[4] = x4
      /\ seven[5] = x5 /\ seven[6] = x6 /\ seven[7] = x7
  OBVIOUS
<1>2. more \in Seq(S) /\ (p = "erc20" => Len(more) = 1 /\ more[1] = x8)
  <2>1. CASE p = "erc20"
    <3>1. more = <<x8>>
      BY <2>1
    <3> HIDE DEF more
    <3> QED BY <3>1
  <2>2. CASE p # "erc20"
    <3>1. more = <<>>
      BY <2>2
    <3> HIDE DEF more, S
    <3> QED BY <2>2, <3>1, EmptySeq
  <2> QED BY <2>1, <2>2
<1>3. Len(more) \in Nat
  BY <1>2, LenProperties
<1> HIDE DEF seven, more, S
<1>4. /\ \A n \in 1 .. Len(seven) : w[n] = seven[n]
      /\ \A n \in Len(seven) + 1 .. Len(seven) + Len(more) : w[n] = more[n - Len(seven)]
  <2>1. seven \in Seq(S) /\ more \in Seq(S)
    BY <1>1, <1>2
  <2> QED BY <2>1, ConcatEntries
<1> HIDE DEF w
<1>5. w[1] = x1 /\ w[2] = x2 /\ w[3] = x3 /\ w[4] = x4 /\ w[5] = x5 /\ w[6] = x6 /\ w[7] = x7
  BY <1>1, <1>4
<1>6. p = "erc20" => w[8] = x8
  <2> SUFFICES ASSUME p = "erc20" PROVE w[8] = x8
    OBVIOUS
  <2> DEFINE lm == Len(more)
             ls == Len(seven)
  <2>1. lm = 1 /\ ls = 7
    BY <1>1, <1>2
  <2>2. \A n \in ls + 1 .. ls + lm : w[n] = more[n - ls]
    BY <1>4
  <2> HIDE DEF lm, ls
  <2>3. 8 \in ls + 1 .. ls + lm /\ 8 - ls = 1
    BY <2>1
  <2>4. w[8] = more[8 - ls]
    BY <2>2, <2>3
  <2> QED BY <1>2, <2>3, <2>4
<1> QED
  BY <1>5, <1>6 DEF w, seven, more

LEMMA ByIdIs ==
  ASSUME NEW p \in Prefix, NEW id, HistoryOf(p, logs[p]), LastEvent(id, logs[p]) # "none",
         Tracked(p, OfferOf(p, id).token)
  PROVE  LET byId == getSwapsById(p, id)
             byLogs == Expected(p, id, logs[p])
         IN /\ [byId EXCEPT !.token = byLogs.token] = byLogs
            /\ p = "ether" \/ OfferOf(p, id).token \in Checksummed => byId.token = byLogs.token
<1> DEFINE h == logs[p]
           E == EventsOf(id, h)
           state == LastEvent(id, h)
           o == OfferOf(p, id)
           x1 == o.sender
           x2 == o.recipient
           x3 == o.hash
           x4 == o.timeout
           x5 == o.amount
           x6 == IF state = "claimed" THEN ClaimedData(id, o)[2] ELSE <<>>
           x7 == CASE state = "opened" -> 1 [] state = "claimed" -> 2 [] state = "aborted" -> 3
           x8 == o.token
           w == <<x1, x2, x3, x4, x5, x6, x7>> \o (IF p = "erc20" THEN <<x8>> ELSE <<>>)
           told == IF state = "opened" THEN "open" ELSE state
<1>1. state \in {"opened", "claimed", "aborted"}
  <2>1. /\ Len(h) \in Nat /\ DOMAIN h = 1 .. Len(h)
        /\ \A n \in 1 .. Len(h) : h[n].topic \in {"opened", "claimed", "aborted"}
    BY HistoryFacts
  <2>2. E # {} /\ state = h[Max(E)].topic
    BY DEF LastEvent
  <2>3. E \subseteq Nat /\ E \subseteq 1 .. Len(h) /\ \A i \in E : i <= Len(h)
    BY <2>1 DEF EventsOf
  <2> HIDE DEF E, h
  <2>4. Max(E) \in E
    BY <2>1, <2>2, <2>3, MaxOfBounded
  <2> QED BY <2>1, <2>2, <2>3, <2>4
<1>2. GetWords(p, id) = w
  BY DEF GetWords
<1>3. OfferIn(id, h) = o
  BY DEF OfferOf
<1>4. ClaimedData(id, o)[2] = Preimage(o)
  <2> DEFINE y == Preimage(o)
  <2>1. ClaimedData(id, o) = <<id, y>>
    BY DEF ClaimedData, Preimage
  <2> HIDE DEF y, o
  <2> QED BY <2>1 DEF y
<1> HIDE DEF state, o
<1>5. x6 = (IF state = "claimed" THEN Preimage(o) ELSE <<>>)
  BY <1>4
<1>6. (x7 = 1 <=> state = "opened") /\ (x7 = 2 <=> state = "claimed") /\ (x7 = 3 <=> state = "aborted")
  BY <1>1
<1> HIDE DEF x1, x2, x3, x4, x5, x6, x7, x8
<1>7. /\ w[1] = x1 /\ w[2] = x2 /\ w[3] = x3 /\ w[4] = x4 /\ w[5] = x5 /\ w[6] = x6 /\ w[7] = x7
      /\ p = "erc20" => w[8] = x8
  BY WordsOfGet
<1> HIDE DEF w
<1> DEFINE kind == CASE w[7] = 1 -> "open" [] w[7] = 2 -> "claimed" [] w[7] = 3 -> "aborted"
<1>8. kind = told /\ (kind = "claimed" <=> state = "claimed")
  <2>1. CASE state = "opened"
    BY <1>6, <1>7, <2>1
  <2>2. CASE state = "claimed"
    BY <1>6, <1>7, <2>2
  <2>3. CASE state = "aborted"
    BY <1>6, <1>7, <2>3
  <2> QED BY <1>1, <2>1, <2>2, <2>3
<1>9. getSwapsById(p, id)
        = EthSwap(kind, p, id, w[1], w[2], w[3], w[5], w[4],
                  IF p = "erc20" /\ w[8] \in Checksummed THEN w[8] ELSE "ETH", IF kind = "claimed" THEN w[6] ELSE <<>>)
  BY <1>2 DEF getSwapsById
<1> HIDE DEF kind
<1> DEFINE token == IF p = "erc20" /\ w[8] \in Checksummed THEN w[8] ELSE "ETH"
<1>10. p = "ether" \/ o.token \in Checksummed => token = (IF p = "ether" THEN "ETH" ELSE o.token)
  <2>1. p = "ether" \/ p = "erc20"
    BY DEF Prefix
  <2> QED BY <1>7, <2>1 DEF x8
<1> HIDE DEF token
<1>11. (IF kind = "claimed" THEN w[6] ELSE <<>>) = (IF state = "claimed" THEN Preimage(o) ELSE <<>>)
  BY <1>5, <1>7, <1>8
<1>12. Expected(p, id, h)
         = EthSwap(told, p, id, o.sender, o.recipient, o.hash, o.amount, o.timeout,
                   IF p = "ether" THEN "ETH" ELSE o.token, IF state = "claimed" THEN Preimage(o) ELSE <<>>)
  BY <1>3 DEF Expected, Preimage, state
<1> HIDE DEF told
<1>13. getSwapsById(p, id)
         = EthSwap(told, p, id, x1, x2, x3, x5, x4, token, IF state = "claimed" THEN Preimage(o) ELSE <<>>)
  BY <1>7, <1>8, <1>9, <1>11 DEF token
<1>14. [getSwapsById(p, id) EXCEPT !.token = Expected(p, id, h).token] = Expected(p, id, h)
  BY <1>12, <1>13 DEF x1, x2, x3, x4, x5, EthSwap
<1>15. p = "ether" \/ o.token \in Checksummed => getSwapsById(p, id).token = Expected(p, id, h).token
  BY <1>10, <1>12, <1>13 DEF EthSwap
<1> QED
  BY <1>14, <1>15 DEF o

(* One more event of a contract. *)
LEMMA HistoryGrows ==
  ASSUME NEW p \in Prefix, NEW h, HistoryOf(p, h), NEW l \in LogType(p),
         \A m \in DOMAIN h : h[m].data[1] = l.data[1] =>
           h[m].topic = "opened" /\ l.topic # "opened" /\ l.offer = h[m].offer
  PROVE  HistoryOf(p, Append(h, l))
<1> DEFINE v == Append(h, l)
           last == Len(h) + 1
<1>1. h \in Seq(LogType(p))
  BY DEF HistoryOf
<1>2. /\ v \in Seq(LogType(p)) /\ DOMAIN v = DOMAIN h \cup {last} /\ v[last] = l /\ last \in Nat
      /\ \A n \in DOMAIN h : n \in Nat /\ n < last /\ v[n] = h[n]
  BY <1>1, AppendIs
<1> HIDE DEF v, last
<1>3. ASSUME NEW m \in DOMAIN v, NEW n \in DOMAIN v, m < n, v[m].data[1] = v[n].data[1]
      PROVE  v[m].topic = "opened" /\ v[n].topic # "opened" /\ v[n].offer = v[m].offer
  <2>1. m \in DOMAIN h
    <3> SUFFICES ASSUME m = last PROVE FALSE
      BY <1>2
    <3>1. n = last \/ n < last
      BY <1>2
    <3> QED BY <1>2, <1>3, <3>1
  <2>2. CASE n \in DOMAIN h
    <3>1. v[m] = h[m] /\ v[n] = h[n]
      BY <1>2, <2>1, <2>2
    <3> QED BY <1>3, <2>1, <2>2, <3>1 DEF HistoryOf
  <2>3. CASE n = last
    <3>1. v[m] = h[m] /\ v[n] = l
      BY <1>2, <2>1, <2>3
    <3> QED BY <1>3, <2>1, <3>1
  <2> QED BY <1>2, <2>2, <2>3
<1>4. HistoryOf(p, v)
  BY <1>2, <1>3 DEF HistoryOf
<1> QED
  BY <1>4 DEF v

(* eth_getLogs from a height on. *)
LEMMA LaterHistory ==
  ASSUME NEW p \in Prefix, NEW h, HistoryOf(p, h), NEW min \in Nat
  PROVE  HistoryOf(p, SubSeq(h, min + 1, Len(h)))
<1> DEFINE v == SubSeq(h, min + 1, Len(h))
           L == Len(h)
           d == L - (min + 1) + 1
<1>1. L \in Nat /\ DOMAIN h = 1 .. L /\ \A n \in 1 .. L : h[n] \in LogType(p)
  BY HistoryFacts
<1>2. min + 1 \in Int /\ L \in Int /\ \A n \in min + 1 .. L : h[n] \in LogType(p)
  BY <1>1
<1>3. /\ v \in Seq(LogType(p)) /\ Len(v) = (IF min + 1 <= L THEN d ELSE 0)
      /\ \A n \in 1 .. d : v[n] = h[min + 1 + n - 1]
  BY <1>2, SubSeqProperties
<1>4. DOMAIN v = 1 .. Len(v)
  BY <1>3, LenProperties
<1> HIDE DEF v, L
<1>5. \A n \in DOMAIN v : n \in Nat /\ min + n \in DOMAIN h /\ v[n] = h[min + n]
  <2> SUFFICES ASSUME NEW n \in DOMAIN v PROVE n \in Nat /\ min + n \in DOMAIN h /\ v[n] = h[min + n]
    OBVIOUS
  <2>1. CASE min + 1 <= L
    <3>0. Len(v) = d
      BY <1>3, <2>1
    <3>1. n \in 1 .. d
      BY <1>4, <3>0
    <3>2. n \in Nat /\ min + n \in 1 .. L /\ min + 1 + n - 1 = min + n
      BY <1>1, <3>1
    <3>3. v[n] = h[min + 1 + n - 1]
      BY <1>3, <3>1
    <3> QED BY <1>1, <3>2, <3>3
  <2>2. CASE ~ (min + 1 <= L)
    <3>1. Len(v) = 0
      BY <1>3, <2>2
    <3>2. n \in 1 .. 0
      BY <1>4, <3>1
    <3> QED BY <3>2
  <2> QED BY <2>1, <2>2
<1>6. ASSUME NEW m \in DOMAIN v, NEW n \in DOMAIN v, m < n, v[m].data[1] = v[n].data[1]
      PROVE  v[m].topic = "opened" /\ v[n].topic # "opened" /\ v[n].offer = v[m].offer
  <2>1. min + m \in DOMAIN h /\ min + n \in DOMAIN h /\ v[m] = h[min + m] /\ v[n] = h[min + n] /\ m \in Nat /\ n \in Nat
    BY <1>5
  <2>2. min + m < min + n
    BY <1>6, <2>1
  <2>3. h[min + m].data[1] = h[min + n].data[1]
    BY <1>6, <2>1
  <2> QED BY <2>1, <2>2, <2>3 DEF HistoryOf
<1>7. HistoryOf(p, v)
  BY <1>3, <1>6 DEF HistoryOf
<1> QED
  BY <1>7 DEF v, L

-----------------------------------------------------------------------------
(* Each contract opens a swap once and settles it once, the answers are      *)
(* parts of its logs, and a result comes from two answers.                   *)
SwapLogsInv ==
  /\ DOMAIN logs = Prefix /\ \A p \in Prefix : HistoryOf(p, logs[p])
  /\ filtered = [step |-> filtered.step, recipient |-> filtered.recipient, min |-> filtered.min,
                 answers |-> filtered.answers, result |-> filtered.result]
  /\ filtered.min \in Nat
  /\ DOMAIN filtered.answers = Prefix
  /\ \A p \in Prefix : filtered.answers[p] = NotAnswered \/ HistoryOf(p, filtered.answers[p])
  /\ FilteredSwaps

LEMMA SwapLogsInvInit == SwapLogInit => SwapLogsInv
<1> SUFFICES ASSUME SwapLogInit PROVE SwapLogsInv
  OBVIOUS
<1>1. /\ DOMAIN logs = Prefix /\ \A p \in Prefix : logs[p] = <<>>
  BY DEF SwapLogInit
<1>2. \A p \in Prefix : HistoryOf(p, <<>>)
  <2> SUFFICES ASSUME NEW p \in Prefix PROVE HistoryOf(p, <<>>)
    OBVIOUS
  <2> DEFINE none == <<>>
  <2>1. none \in Seq(LogType(p)) /\ DOMAIN none = {}
    BY EmptySeq
  <2> HIDE DEF none
  <2>2. HistoryOf(p, none)
    BY <2>1 DEF HistoryOf
  <2> QED BY <2>2 DEF none
<1>3. /\ filtered.step = "none" /\ filtered.min = 0 /\ DOMAIN filtered.answers = Prefix
      /\ \A p \in Prefix : filtered.answers[p] = NotAnswered
      /\ filtered = [step |-> filtered.step, recipient |-> filtered.recipient, min |-> filtered.min,
                     answers |-> filtered.answers, result |-> filtered.result]
  BY DEF SwapLogInit, NoFilterCall
<1> QED
  BY <1>1, <1>2, <1>3 DEF SwapLogsInv, FilteredSwaps

LEMMA ContractEmitKeeps ==
  ASSUME SwapLogsInv, NEW p \in Prefix, NEW l \in LogType(p), Emit(p, l),
         \A m \in DOMAIN logs[p] : logs[p][m].data[1] = l.data[1] =>
           logs[p][m].topic = "opened" /\ l.topic # "opened" /\ l.offer = logs[p][m].offer
  PROVE  SwapLogsInv'
<1> DEFINE h == logs[p]
<1>1. HistoryOf(p, h) /\ DOMAIN logs = Prefix
  BY DEF SwapLogsInv
<1>2. filtered' = filtered /\ logs' = [logs EXCEPT ![p] = Append(h, l)]
  BY DEF Emit
<1>3. HistoryOf(p, Append(h, l))
  BY <1>1, HistoryGrows
<1> DEFINE v == Append(h, l)
<1> HIDE DEF v
<1>4. DOMAIN logs' = Prefix /\ logs'[p] = v /\ \A q \in Prefix : q # p => logs'[q] = logs[q]
  BY <1>1, <1>2 DEF v
<1>5. \A q \in Prefix : HistoryOf(q, logs'[q])
  BY <1>3, <1>4 DEF SwapLogsInv, v
<1>6. FilteredSwaps'
  BY <1>2 DEF SwapLogsInv, FilteredSwaps
<1> QED
  BY <1>2, <1>4, <1>5, <1>6 DEF SwapLogsInv

LEMMA ContractOpensKeeps ==
  ASSUME SwapLogsInv, NEW p \in Prefix, NEW id \in SwapIds[p], NEW o \in Offers, ContractOpens(p, id, o)
  PROVE  SwapLogsInv'
<1> DEFINE l == OpenedLog(p, id, o)
<1>1. l \in LogType(p)
  <2> DEFINE e == <<id, o>>
  <2>1. e \in SwapIds[p] \X Offers /\ e[1] = id /\ e[2] = o
    OBVIOUS
  <2> HIDE DEF e
  <2> QED BY <2>1 DEF LogType
<1>2. Emit(p, l)
  BY DEF ContractOpens, OpenedLog
<1>3. l.data[1] = id
  <2>1. OpenedData(p, id, o)[1] = id
    BY OpenedWords
  <2> QED BY <2>1 DEF OpenedLog
<1>4. \A m \in DOMAIN logs[p] : logs[p][m].data[1] # id
  <2>1. HistoryOf(p, logs[p]) /\ LastEvent(id, logs[p]) = "none"
    BY DEF SwapLogsInv, ContractOpens
  <2>2. EventsOf(id, logs[p]) = {}
    <3> DEFINE h == logs[p]
               E == EventsOf(id, h)
    <3> SUFFICES ASSUME E # {} PROVE FALSE
      OBVIOUS
    <3>1. /\ Len(h) \in Nat /\ DOMAIN h = 1 .. Len(h)
          /\ \A n \in 1 .. Len(h) : h[n].topic \in {"opened", "claimed", "aborted"}
      BY <2>1, HistoryFacts
    <3>2. E \subseteq Nat /\ E \subseteq 1 .. Len(h) /\ \A i \in E : i <= Len(h)
      BY <3>1 DEF EventsOf
    <3>3. h[Max(E)].topic = "none"
      BY <2>1 DEF LastEvent
    <3> HIDE DEF E, h
    <3>4. Max(E) \in E
      BY <3>1, <3>2, MaxOfBounded
    <3> QED BY <3>1, <3>2, <3>3, <3>4
  <2> QED BY <2>2 DEF EventsOf
<1> HIDE DEF l
<1> QED
  BY <1>1, <1>2, <1>3, <1>4, ContractEmitKeeps

LEMMA ContractSettlesKeeps ==
  ASSUME SwapLogsInv, NEW p \in Prefix, NEW id \in SwapIds[p], ContractSettles(p, id)
  PROVE  SwapLogsInv'
<1> DEFINE h == logs[p]
           E == EventsOf(id, h)
           M == Max(E)
           o == OfferOf(p, id)
<1>1. HistoryOf(p, h) /\ LastEvent(id, h) = "opened"
  BY DEF SwapLogsInv, ContractSettles
<1>2. /\ Len(h) \in Nat /\ DOMAIN h = 1 .. Len(h) /\ \A n \in 1 .. Len(h) : h[n].offer \in Offers
      /\ \A i, j \in 1 .. Len(h) : i < j /\ h[i].data[1] = h[j].data[1] => h[i].topic = "opened" /\ h[j].topic # "opened"
  <2> HIDE DEF h
  <2> QED BY <1>1, HistoryFacts
<1>3. E # {} /\ h[M].topic = "opened"
  BY <1>1 DEF LastEvent
<1>4. E \subseteq Nat /\ E \subseteq 1 .. Len(h) /\ (\A i \in E : i <= Len(h) /\ h[i].data[1] = id)
      /\ \A i \in 1 .. Len(h) : h[i].data[1] = id => i \in E
  BY <1>2 DEF EventsOf
<1> HIDE DEF E, h
<1>5. M \in E /\ \A i \in E : i <= M
  BY <1>2, <1>3, <1>4, MaxOfBounded
<1> HIDE DEF M
<1>6. \A i \in E : i = M
  <2> SUFFICES ASSUME NEW i \in E, i < M PROVE FALSE
    BY <1>4, <1>5
  <2>1. i \in 1 .. Len(h) /\ M \in 1 .. Len(h) /\ h[i].data[1] = id /\ h[M].data[1] = id
    BY <1>4, <1>5
  <2>2. h[M].topic # "opened"
    BY <1>2, <2>1
  <2> QED BY <1>3, <2>2
<1>7. Min(E) = M
  BY <1>4, <1>5, <1>6, MinIs
<1>8. o = h[M].offer
  BY <1>7 DEF OfferOf, OfferIn, E, h
<1>9. o \in Offers
  BY <1>2, <1>4, <1>5, <1>8
<1> HIDE DEF o
<1>10. \A m \in DOMAIN h : h[m].data[1] = id => h[m].topic = "opened" /\ o = h[m].offer
  BY <1>2, <1>3, <1>4, <1>6, <1>8
<1> DEFINE e == <<id, o>>
<1>11. e \in SwapIds[p] \X Offers /\ e[1] = id /\ e[2] = o
  BY <1>9
<1> HIDE DEF e
<1>12. Emit(p, ClaimedLog(id, o)) \/ Emit(p, AbortedLog(id, o))
  BY DEF ContractSettles, ClaimedLog, AbortedLog, o
<1>13. CASE Emit(p, ClaimedLog(id, o))
  <2> DEFINE l == ClaimedLog(id, o)
  <2>1. l \in LogType(p)
    BY <1>11 DEF LogType
  <2>2. l.topic = "claimed" /\ l.offer = o /\ l.data[1] = id
    <3> DEFINE y == <<"preimage of", o.hash>>
    <3>1. l.topic = "claimed" /\ l.offer = o /\ l.data = <<id, y>>
      BY DEF ClaimedLog, ClaimedData
    <3> HIDE DEF y, l
    <3> QED BY <3>1
  <2> HIDE DEF l
  <2>3. Emit(p, l)
    BY <1>13 DEF l
  <2>4. \A m \in DOMAIN logs[p] : logs[p][m].data[1] = l.data[1] =>
          logs[p][m].topic = "opened" /\ l.topic # "opened" /\ l.offer = logs[p][m].offer
    BY <1>10, <2>2 DEF h
  <2> QED BY <2>1, <2>3, <2>4, ContractEmitKeeps
<1>14. CASE Emit(p, AbortedLog(id, o))
  <2> DEFINE l == AbortedLog(id, o)
  <2>1. l \in LogType(p)
    BY <1>11 DEF LogType
  <2>2. l.topic = "aborted" /\ l.offer = o /\ l.data[1] = id
    BY DEF AbortedLog
  <2> HIDE DEF l
  <2>3. Emit(p, l)
    BY <1>14 DEF l
  <2>4. \A m \in DOMAIN logs[p] : logs[p][m].data[1] = l.data[1] =>
          logs[p][m].topic = "opened" /\ l.topic # "opened" /\ l.offer = logs[p][m].offer
    BY <1>10, <2>2 DEF h
  <2> QED BY <2>1, <2>3, <2>4, ContractEmitKeeps
<1> QED
  BY <1>12, <1>13, <1>14

LEMMA CallFilteredKeeps ==
  ASSUME SwapLogsInv, NEW recipient \in Filters, NEW min \in MinHeights, CallFiltered(recipient, min)
  PROVE  SwapLogsInv'
<1>1. min \in Nat
  BY SwapLogsAssumption
<1>2. filtered' = [step |-> "called", recipient |-> recipient, min |-> min,
                   answers |-> [p \in Prefix |-> NotAnswered], result |-> <<>>]
  BY DEF CallFiltered, NoFilterCall
<1>3. /\ filtered'.step = "called" /\ filtered'.min = min /\ DOMAIN filtered'.answers = Prefix
      /\ \A p \in Prefix : filtered'.answers[p] = NotAnswered
      /\ filtered' = [step |-> filtered'.step, recipient |-> filtered'.recipient, min |-> filtered'.min,
                      answers |-> filtered'.answers, result |-> filtered'.result]
  BY <1>2
<1>4. logs' = logs
  BY DEF CallFiltered
<1> QED
  BY <1>1, <1>3, <1>4 DEF SwapLogsInv, FilteredSwaps

LEMMA LogsAnsweredKeeps ==
  ASSUME SwapLogsInv, NEW p \in Prefix, LogsAnswered(p)
  PROVE  SwapLogsInv'
<1> DEFINE new == getSwapLogs(p, filtered.min)
           answers == [filtered.answers EXCEPT ![p] = new]
           r == filtered.recipient
           result == MergeLogs(answers, r)
<1>1. HistoryOf(p, new)
  BY LaterHistory DEF SwapLogsInv, getSwapLogs
<1>2. DOMAIN answers = Prefix /\ \A q \in Prefix : answers[q] = NotAnswered \/ HistoryOf(q, answers[q])
  <2> HIDE DEF new
  <2> QED BY <1>1 DEF SwapLogsInv
<1>3. logs' = logs
  BY DEF LogsAnswered
<1>4. filtered = [step |-> filtered.step, recipient |-> r, min |-> filtered.min,
                  answers |-> filtered.answers, result |-> filtered.result] /\ filtered.min \in Nat
  BY DEF SwapLogsInv
<1>5. CASE \E q \in Prefix : answers[q] = NotAnswered
  <2>1. filtered' = [filtered EXCEPT !.answers = answers] /\ filtered.step = "called"
    BY <1>5 DEF LogsAnswered
  <2> HIDE DEF answers
  <2>2. filtered' = [step |-> "called", recipient |-> r, min |-> filtered.min, answers |-> answers, result |-> filtered.result]
    BY <1>4, <2>1
  <2>3. /\ filtered'.step = "called" /\ filtered'.min = filtered.min /\ filtered'.answers = answers
        /\ filtered' = [step |-> filtered'.step, recipient |-> filtered'.recipient, min |-> filtered'.min,
                        answers |-> filtered'.answers, result |-> filtered'.result]
    BY <2>2
  <2> QED BY <1>2, <1>3, <1>4, <2>3 DEF SwapLogsInv, FilteredSwaps
<1>6. CASE ~ \E q \in Prefix : answers[q] = NotAnswered
  <2>1. filtered' = [filtered EXCEPT !.answers = answers, !.step = "done", !.result = result]
    BY <1>6 DEF LogsAnswered
  <2>2. \A q \in Prefix : HistoryOf(q, answers[q])
    BY <1>2, <1>6
  <2> HIDE DEF answers
  <2>3. Distinct(result) /\ ToSet(result) = UNION {ExpectedOf(q, answers[q], r) : q \in Prefix}
    BY <2>2, MergeLogsIs
  <2> HIDE DEF result
  <2>4. filtered' = [step |-> "done", recipient |-> r, min |-> filtered.min, answers |-> answers, result |-> result]
    BY <1>4, <2>1
  <2>5. /\ filtered'.step = "done" /\ filtered'.min = filtered.min /\ filtered'.answers = answers
        /\ filtered'.recipient = r /\ filtered'.result = result
        /\ filtered' = [step |-> filtered'.step, recipient |-> filtered'.recipient, min |-> filtered'.min,
                        answers |-> filtered'.answers, result |-> filtered'.result]
    BY <2>4
  <2>6. FilteredSwaps'
    BY <2>3, <2>5 DEF FilteredSwaps, Distinct, IsInjective
  <2> QED BY <1>2, <1>3, <1>4, <2>5, <2>6 DEF SwapLogsInv
<1> QED
  BY <1>5, <1>6

LEMMA SwapLogsInvStep == SwapLogsInv /\ [SwapLogNext]_swapLogVars => SwapLogsInv'
<1> SUFFICES ASSUME SwapLogsInv, [SwapLogNext]_swapLogVars PROVE SwapLogsInv'
  OBVIOUS
<1>1. CASE UNCHANGED swapLogVars
  BY <1>1 DEF swapLogVars, SwapLogsInv, FilteredSwaps
<1>2. CASE SwapLogNext
  BY <1>2, ContractOpensKeeps, ContractSettlesKeeps, CallFilteredKeeps, LogsAnsweredKeeps DEF SwapLogNext
<1> QED
  BY <1>1, <1>2

(* Both forms of getSwaps() of Ethereum tell what the contracts have done,  *)
(* whatever swaps are opened and settled, in whatever order the two requests *)
(* for logs are answered, and from whatever height on.                       *)
THEOREM SwapsStayTrue == SwapLogSpec => []SwapsAreTrue
<1>1. SwapLogsInv => SwapsAreTrue
  <2> SUFFICES ASSUME SwapLogsInv PROVE SwapsAreTrue
    OBVIOUS
  <2>1. FilteredSwaps /\ \A p \in Prefix : HistoryOf(p, logs[p])
    BY DEF SwapLogsInv
  <2>2. IdAgreesWithLogs
    BY <2>1, ByIdIs DEF IdAgreesWithLogs
  <2> QED BY <2>1, <2>2 DEF SwapsAreTrue
<1> QED
  BY <1>1, SwapLogsInvInit, SwapLogsInvStep, PTL DEF SwapLogSpec
=============================================================================
