------------------------- MODULE AddressFeedProofs -------------------------
(***************************************************************************)
(* Proofs about the transactions of an address that liveTx() and           *)
(* listenTx() give, for any set of transactions, any heights and any       *)
(* number of searches under way.                                           *)
(***************************************************************************)
EXTENDS AddressFeed, Integers, SequenceTheorems, FiniteSetTheorems, TLAPS

(* The requests qs find transaction t. *)
Seen(qs, t) == "node" \in qs \/ qs \cap SourcesOf[t] # {}

Answered(r) == RequestsOf(r.of) \ r.waits

(* There is no hole below what search r has found, as far as its requests    *)
(* are answered, but for blocks that came between its two answers; ...       *)
NoHole(r, heights, query, gaps) ==
  \A t \in Tx, u \in r.found :
    /\ Seen(Answered(r), t) /\ 0 < heights[t] /\ heights[t] <= heights[u]
    /\ heights[t] \in r.min .. query.max
    => t \in r.found \/ (r.of = "logs" /\ heights[t] \in gaps)

(* ... after its first answer it has everything up to the height of then.    *)
ReadUpTo(r, heights, query) ==
  r.waits # {} =>
    \A t \in Tx : Seen(Answered(r), t) /\ 0 < heights[t] /\ heights[t] <= r.at
                    /\ heights[t] \in r.min .. query.max => t \in r.found

(* A search r began where its source was then, and what it has found are    *)
(* whole blocks of the query.                                               *)
SearchGood(r, heights, sources, query, gaps) ==
  /\ query.min <= r.min /\ r.min <= sources[r.of].min
  /\ r.waits \subseteq RequestsOf(r.of)
  /\ r.waits = RequestsOf(r.of) => r.at = 0 /\ r.found = {}
  /\ r.waits # RequestsOf(r.of) /\ r.waits # {} => r.at # 0
  /\ \A t \in r.found : heights[t] > 0 /\ heights[t] \in r.min .. query.max
  /\ NoHole(r, heights, query, gaps)
  /\ ReadUpTo(r, heights, query)

SearchesInv ==
  \A f \in DOMAIN searches :
    /\ searches[f].of \in Active /\ source[searches[f].of].state # "height"
    /\ searches[f].at <= top
    /\ SearchGood(searches[f], txHeight, source, feed.query, between)

(* minHeight is not below the query's and not above the next block, unless  *)
(* the query is.                                                            *)
SourceInv(s) ==
  /\ source[s].state # "none" => s \in Active /\ feed.stream # "none"
  /\ source[s].state = "height" =>
       feed.stream = "ethereum listen" /\ source[s].min = feed.query.min /\ owed = {}
  /\ s \in Active /\ feed.stream # "none" =>
       /\ feed.query.min <= source[s].min
       /\ source[s].min <= feed.query.min \/ source[s].min <= top + 1

(* Before the stream is asked for nothing is searched, given or owed. *)
StartInv ==
  feed.stream = "none" => searches = <<>> /\ given = {} /\ repeated = {} /\ owed = {} /\ ~listening

InChain ==
  /\ \A t \in given \cup owed : txHeight[t] > 0
  /\ FeedInRange

(* On Lisk there is one search while none overlaps, and it begins above     *)
(* everything that was given.                                               *)
OnceInv ==
  /\ FeedOnce
  /\ feed.stream = "lisk live" /\ ~feedOverlap =>
       /\ Len(searches) <= 1
       /\ \A f \in DOMAIN searches : source["node"].min <= searches[f].min
       /\ \A t \in given : txHeight[t] < source["node"].min

FeedInv ==
  /\ FeedTypeOK
  /\ StartInv
  /\ \A s \in Sources : SourceInv(s)
  /\ SearchesInv
  /\ InChain
  /\ OnceInv
  /\ FeedComplete

-----------------------------------------------------------------------------
(* A set of naturals with an upper bound has a greatest element, and Max    *)
(* gives it: among the finite sets of elements above some element there is  *)
(* a smallest one, and it is empty.                                         *)
LEMMA MaxOfBounded ==
  ASSUME NEW S, S \subseteq Nat, S # {}, NEW b \in Nat, \A x \in S : x <= b
  PROVE  Max(S) \in S /\ \A x \in S : x <= Max(S)
<1> DEFINE Above(y) == {x \in S : y < x}
           W == {Above(y) : y \in S}
<1>1. IsFiniteSet(S)
  BY FS_BoundedSetOfNaturals
<1>2. W \subseteq FiniteSubsetsOf(S) /\ W # {}
  <2>1. \A y \in S : IsFiniteSet(Above(y)) /\ Above(y) \in SUBSET S
    BY <1>1, FS_Subset
  <2> QED BY <2>1 DEF FiniteSubsetsOf
<1>3. PICK U \in W : \A V \in W : ~(<<V, U>> \in StrictSubsetOrdering(S))
  <2> HIDE DEF W
  <2> QED BY <1>2, WFMin, FS_StrictSubsetOrderingWellFounded
<1>4. PICK y \in S : U = Above(y)
  OBVIOUS
<1>5. ASSUME NEW z \in S, y < z PROVE FALSE
  <2>1. Above(z) \in W /\ Above(z) \in SUBSET S /\ U \in SUBSET S
    BY <1>4
  <2>2. Above(z) \subseteq U /\ z \in U /\ z \notin Above(z)
    <3>1. \A x \in S : z < x => y < x
      BY <1>5
    <3>2. ~(z < z)
      OBVIOUS
    <3> QED BY <1>4, <1>5, <3>1, <3>2, Zenon
  <2>3. <<Above(z), U>> \in StrictSubsetOrdering(S)
    BY <2>1, <2>2 DEF StrictSubsetOrdering
  <2> QED BY <1>3, <2>1, <2>3
<1>6. \A x \in S : y >= x
  BY <1>5
<1> QED BY <1>6 DEF Max


(* RemoveAt keeps all other elements and nothing else. *)
LEMMA RemoveAtElements ==
  ASSUME NEW S, NEW s \in Seq(S), NEW i \in 1 .. Len(s)
  PROVE  /\ RemoveAt(s, i) \in Seq(S) /\ Len(RemoveAt(s, i)) = Len(s) - 1
         /\ \A n \in DOMAIN RemoveAt(s, i) : \E m \in DOMAIN s : m # i /\ RemoveAt(s, i)[n] = s[m]
         /\ \A m \in DOMAIN s \ {i} : \E n \in DOMAIN RemoveAt(s, i) : RemoveAt(s, i)[n] = s[m]
<1> DEFINE a == SubSeq(s, 1, i - 1)
           b == SubSeq(s, i + 1, Len(s))
           r == RemoveAt(s, i)
<1>t. Len(s) \in Nat /\ DOMAIN s = 1 .. Len(s) /\ \A n \in 1 .. Len(s) : s[n] \in S
  BY LenProperties, ElementOfSeq
<1>1. /\ a \in Seq(S) /\ Len(a) = i - 1
      /\ \A n \in 1 .. i - 1 : a[n] = s[n]
  <2>1. \A n \in 1 .. i - 1 : s[n] \in S
    BY <1>t
  <2>2. /\ a \in Seq(S) /\ Len(a) = (IF 1 <= i - 1 THEN (i - 1) - 1 + 1 ELSE 0)
        /\ \A n \in 1 .. (i - 1) - 1 + 1 : a[n] = s[1 + n - 1]
    <3>1. 1 \in Int /\ i - 1 \in Int
      BY <1>t
    <3> QED BY <2>1, <3>1, SubSeqProperties
  <2> HIDE DEF a
  <2>3. Len(a) = i - 1
    <3>1. i \in Int /\ 1 <= i
      BY <1>t
    <3>2. Len(a) = (IF 1 <= i - 1 THEN (i - 1) - 1 + 1 ELSE 0)
      BY <2>2
    <3> QED BY <3>1, <3>2
  <2>4. ASSUME NEW n \in 1 .. i - 1 PROVE a[n] = s[n]
    <3>1. n \in 1 .. (i - 1) - 1 + 1 /\ 1 + n - 1 = n
      BY <1>t
    <3>2. a[n] = s[1 + n - 1]
      BY <2>2, <3>1
    <3> QED BY <3>1, <3>2
  <2> QED BY <2>2, <2>3, <2>4
<1>2. /\ b \in Seq(S) /\ Len(b) = Len(s) - i
      /\ \A n \in 1 .. Len(s) - i : b[n] = s[i + n]
  <2>1. \A n \in i + 1 .. Len(s) : s[n] \in S
    BY <1>t
  <2>2. /\ b \in Seq(S) /\ Len(b) = (IF i + 1 <= Len(s) THEN Len(s) - (i + 1) + 1 ELSE 0)
        /\ \A n \in 1 .. Len(s) - (i + 1) + 1 : b[n] = s[(i + 1) + n - 1]
    <3>1. i + 1 \in Int /\ Len(s) \in Int
      BY <1>t
    <3> QED BY <2>1, <3>1, SubSeqProperties
  <2> HIDE DEF b
  <2>3. Len(b) = Len(s) - i
    <3>1. Len(s) \in Nat /\ i \in Int /\ i <= Len(s)
      BY <1>t
    <3>2. Len(b) = (IF i + 1 <= Len(s) THEN Len(s) - (i + 1) + 1 ELSE 0)
      BY <2>2
    <3> QED BY <3>1, <3>2
  <2>4. ASSUME NEW n \in 1 .. Len(s) - i PROVE b[n] = s[i + n]
    <3>1. n \in 1 .. Len(s) - (i + 1) + 1 /\ (i + 1) + n - 1 = i + n
      BY <1>t
    <3>2. b[n] = s[(i + 1) + n - 1]
      BY <2>2, <3>1
    <3> QED BY <3>1, <3>2
  <2> QED BY <2>2, <2>3, <2>4
<1>3. r = a \o b
  BY DEF RemoveAt
<1> HIDE DEF a, b, r
<1>4. /\ r \in Seq(S) /\ Len(r) = Len(a) + Len(b)
      /\ \A n \in 1 .. Len(a) + Len(b) : r[n] = IF n <= Len(a) THEN a[n] ELSE b[n - Len(a)]
  BY <1>1, <1>2, <1>3, ConcatProperties
<1>5. /\ Len(r) = Len(s) - 1 /\ DOMAIN r = 1 .. Len(s) - 1
      /\ \A n \in 1 .. i - 1 : r[n] = s[n]
      /\ \A n \in i .. Len(s) - 1 : r[n] = s[n + 1]
  <2>1. Len(r) = Len(s) - 1
    BY <1>1, <1>2, <1>4, <1>t
  <2>2. DOMAIN r = 1 .. Len(s) - 1
    BY <1>4, <2>1, LenProperties
  <2>3. \A n \in 1 .. i - 1 : r[n] = s[n]
    BY <1>1, <1>2, <1>4, <1>t
  <2>4. \A n \in i .. Len(s) - 1 : r[n] = s[n + 1]
    <3> SUFFICES ASSUME NEW n \in i .. Len(s) - 1 PROVE r[n] = s[n + 1]
      OBVIOUS
    <3>1. n \in 1 .. Len(a) + Len(b) /\ ~(n <= Len(a)) /\ n - Len(a) \in 1 .. Len(s) - i
      BY <1>1, <1>2, <1>t
    <3>2. r[n] = b[n - Len(a)] /\ b[n - Len(a)] = s[i + (n - Len(a))]
      BY <3>1, <1>2, <1>4
    <3>3. i + (n - Len(a)) = n + 1
      BY <1>1, <1>t
    <3> QED BY <3>2, <3>3
  <2> QED BY <2>1, <2>2, <2>3, <2>4
<1>6. ASSUME NEW n \in DOMAIN r PROVE \E m \in DOMAIN s : m # i /\ r[n] = s[m]
  <2>1. CASE n < i
    <3>1. n \in 1 .. i - 1 /\ n \in DOMAIN s /\ n # i
      BY <2>1, <1>5, <1>t
    <3> QED BY <3>1, <1>5
  <2>2. CASE ~(n < i)
    <3>1. n \in i .. Len(s) - 1 /\ n + 1 \in DOMAIN s /\ n + 1 # i
      BY <2>2, <1>5, <1>t
    <3> QED BY <3>1, <1>5
  <2> QED BY <2>1, <2>2
<1>7. ASSUME NEW m \in DOMAIN s \ {i} PROVE \E n \in DOMAIN r : r[n] = s[m]
  <2>1. CASE m < i
    <3>1. m \in 1 .. i - 1 /\ m \in DOMAIN r
      BY <2>1, <1>5, <1>t
    <3> QED BY <3>1, <1>5
  <2>2. CASE ~(m < i)
    <3>1. m - 1 \in i .. Len(s) - 1 /\ m - 1 \in DOMAIN r /\ (m - 1) + 1 = m
      BY <2>2, <1>5, <1>t
    <3>2. r[m - 1] = s[(m - 1) + 1]
      BY <3>1, <1>5
    <3> QED BY <3>1, <3>2
  <2> QED BY <2>1, <2>2
<1> QED BY <1>4, <1>5, <1>6, <1>7 DEF r

(* The sources of a stream. *)
LEMMA ActiveSources ==
  ASSUME NEW stream
  PROVE  ToSet(SourceList(stream)) = IF stream = "lisk live" THEN {"node"} ELSE {"scraper", "logs"}
<1>1. CASE stream = "lisk live"
  <2>1. SourceList(stream) = <<"node">>
    BY <1>1 DEF SourceList
  <2>2. ToSet(<<"node">>) = {"node"}
    BY DEF ToSet
  <2> QED BY <1>1, <2>1, <2>2
<1>2. CASE stream # "lisk live"
  <2>1. SourceList(stream) = <<"scraper", "logs">>
    BY <1>2 DEF SourceList
  <2>2. ToSet(<<"scraper", "logs">>) = {"scraper", "logs"}
    <3>1. DOMAIN <<"scraper", "logs">> = {1, 2}
      OBVIOUS
    <3> QED BY <3>1 DEF ToSet
  <2> QED BY <1>2, <2>1, <2>2
<1> QED BY <1>1, <1>2

-----------------------------------------------------------------------------
SearchType == [of : Sources, min : Nat, waits : SUBSET Requests, at : Nat, found : SUBSET Tx]
SourceType == [state : {"none", "height", "first", "ticking", "stopped", "failed"}, min : Nat]

(* A search stays good when minHeight of its source grows and blocks come   *)
(* on top of the chain.                                                     *)
LEMMA GoodStays ==
  ASSUME NEW r \in SearchType, NEW h \in [Tx -> Nat], NEW k \in [Tx -> Nat],
         NEW src \in [Sources -> SourceType], NEW tgt \in [Sources -> SourceType],
         NEW query \in [min : Nat, max : Nat], NEW gaps, NEW wider, gaps \subseteq wider,
         SearchGood(r, h, src, query, gaps),
         src[r.of].min <= tgt[r.of].min,
         \A t \in Tx : h[t] > 0 => k[t] = h[t],
         \A t \in Tx : h[t] = 0 => k[t] = 0 \/ (r.at < k[t] /\ \A u \in Tx : h[u] < k[t])
  PROVE  SearchGood(r, k, tgt, query, wider)
<1>t. /\ r.of \in Sources /\ r.min \in Nat /\ r.at \in Nat /\ r.found \subseteq Tx
      /\ query.min \in Nat /\ query.max \in Nat
  BY DEF SearchType
<1>1. query.min <= r.min /\ r.min <= tgt[r.of].min
  BY <1>t DEF SearchGood, SourceType
<1>2. \A t \in r.found : h[t] > 0 /\ k[t] = h[t]
  BY <1>t DEF SearchGood
<1>3. NoHole(r, k, query, wider)
  <2> SUFFICES ASSUME NEW t \in Tx, NEW u \in r.found, Seen(Answered(r), t), 0 < k[t], k[t] <= k[u],
                      k[t] \in r.min .. query.max
               PROVE  t \in r.found \/ (r.of = "logs" /\ k[t] \in wider)
    BY DEF NoHole
  <2>1. u \in Tx /\ k[u] = h[u]
    BY <1>2, <1>t
  <2>2. h[t] > 0
    BY <2>1
  <2>3. k[t] = h[t]
    BY <2>2
  <2>4. NoHole(r, h, query, gaps)
    BY DEF SearchGood
  <2> QED BY <2>1, <2>2, <2>3, <2>4 DEF NoHole
<1>4. ReadUpTo(r, k, query)
  <2> SUFFICES ASSUME r.waits # {}, NEW t \in Tx, Seen(Answered(r), t), 0 < k[t], k[t] <= r.at,
                      k[t] \in r.min .. query.max
               PROVE  t \in r.found
    BY DEF ReadUpTo
  <2>1. h[t] > 0
    BY <1>t
  <2>2. k[t] = h[t]
    BY <2>1
  <2>3. ReadUpTo(r, h, query)
    BY DEF SearchGood
  <2> QED BY <2>1, <2>2, <2>3 DEF ReadUpTo
<1>5. /\ r.waits \subseteq RequestsOf(r.of)
      /\ r.waits = RequestsOf(r.of) => r.at = 0 /\ r.found = {}
      /\ r.waits # RequestsOf(r.of) /\ r.waits # {} => r.at # 0
      /\ \A t \in r.found : k[t] > 0 /\ k[t] \in r.min .. query.max
  BY <1>2 DEF SearchGood
<1> QED BY <1>1, <1>3, <1>4, <1>5 DEF SearchGood

(* A search that begins is good. *)
LEMMA NewSearch ==
  ASSUME NEW s \in Sources, NEW min \in Nat, NEW src, NEW query, NEW heights, NEW gaps,
         query.min <= min, min <= src[s].min
  PROVE  /\ Search(s, min) \in SearchType /\ Search(s, min).of = s /\ Search(s, min).min = min
         /\ Search(s, min).at = 0 /\ SearchGood(Search(s, min), heights, src, query, gaps)
<1> DEFINE r == Search(s, min)
<1>1. r.of = s /\ r.min = min /\ r.waits = RequestsOf(s) /\ r.at = 0 /\ r.found = {}
  BY DEF Search
<1>2. RequestsOf(s) \subseteq Requests
  BY DEF RequestsOf, Requests, Sources
<1>3. r \in SearchType
  BY <1>2 DEF Search, SearchType
<1> HIDE DEF r
<1>4. Answered(r) = {}
  BY <1>1 DEF Answered
<1>5. NoHole(r, heights, query, gaps) /\ ReadUpTo(r, heights, query)
  BY <1>1, <1>4 DEF NoHole, ReadUpTo, Seen
<1>6. SearchGood(r, heights, src, query, gaps)
  BY <1>1, <1>5 DEF SearchGood
<1> QED BY <1>1, <1>3, <1>6 DEF r

(* The types, by variable. *)
LEMMA FeedTypes ==
  ASSUME FeedTypeOK
  PROVE  /\ feed.stream \in Feeds \cup {"none"} /\ feed.query \in [min : Nat, max : Nat]
         /\ feed.query.min \in Nat /\ feed.query.max \in Nat
         /\ top \in Nat /\ top >= 1 /\ scraped \in 1 .. top
         /\ txHeight \in [Tx -> Nat] /\ \A t \in Tx : txHeight[t] \in 0 .. top
         /\ source \in [Sources -> SourceType] /\ \A s \in Sources : source[s].min \in Nat
         /\ searches \in Seq(SearchType) /\ Len(searches) \in Nat
         /\ DOMAIN searches = 1 .. Len(searches)
         /\ \A f \in DOMAIN searches :
              /\ searches[f] \in SearchType /\ searches[f].of \in Sources
              /\ searches[f].min \in Nat /\ searches[f].found \subseteq Tx
              /\ searches[f].at \in Nat /\ searches[f].waits \subseteq Requests
         /\ between \subseteq 1 .. top
<1>1. searches \in Seq(SearchType) /\ source \in [Sources -> SourceType]
  BY DEF FeedTypeOK, SearchType, SourceType
<1>2. Len(searches) \in Nat /\ DOMAIN searches = 1 .. Len(searches) /\ \A f \in DOMAIN searches : searches[f] \in SearchType
  BY <1>1, LenProperties, ElementOfSeq
<1>3. \A s \in Sources : source[s].min \in Nat
  BY <1>1 DEF SourceType
<1>4. \A f \in DOMAIN searches :
        /\ searches[f].of \in Sources /\ searches[f].min \in Nat /\ searches[f].found \subseteq Tx
        /\ searches[f].at \in Nat /\ searches[f].waits \subseteq Requests
  BY <1>2 DEF SearchType
<1>5. /\ feed.stream \in Feeds \cup {"none"} /\ feed.query \in [min : Nat, max : Nat]
      /\ feed.query.min \in Nat /\ feed.query.max \in Nat
  BY DEF FeedTypeOK
<1>6. top \in Nat /\ top >= 1 /\ scraped \in 1 .. top /\ between \subseteq 1 .. top
  BY DEF FeedTypeOK
<1>7. txHeight \in [Tx -> Nat] /\ \A t \in Tx : txHeight[t] \in 0 .. top
  BY <1>6 DEF FeedTypeOK
<1> QED BY <1>1, <1>2, <1>3, <1>4, <1>5, <1>6, <1>7

(* The searches stay good when each is one there was or a good one. *)
LEMMA SearchesStay ==
  ASSUME FeedInv, UNCHANGED <<feed, txHeight, top>>, between \subseteq between', source' \in [Sources -> SourceType],
         \A s \in Sources : source[s].min <= source'[s].min,
         \A s \in Sources : source'[s].state = "height" => source[s].state = "height",
         \A g \in DOMAIN searches' :
           \/ \E f \in DOMAIN searches : searches'[g] = searches[f]
           \/ /\ searches'[g].of \in Active /\ searches'[g] \in SearchType
              /\ source'[searches'[g].of].state # "height"
              /\ searches'[g].at <= top /\ SearchGood(searches'[g], txHeight, source', feed.query, between')
  PROVE  SearchesInv'
<1>t. FeedTypeOK /\ SearchesInv
  BY DEF FeedInv
<1>1. ASSUME NEW f \in DOMAIN searches
      PROVE  /\ searches[f].of \in Active /\ source'[searches[f].of].state # "height"
             /\ searches[f].at <= top /\ SearchGood(searches[f], txHeight, source', feed.query, between')
  <2>1. /\ SearchGood(searches[f], txHeight, source, feed.query, between) /\ searches[f].of \in Active
        /\ source[searches[f].of].state # "height" /\ searches[f].at <= top
    BY <1>t DEF SearchesInv
  <2>2. searches[f] \in SearchType /\ searches[f].of \in Sources
    BY <1>t, FeedTypes
  <2>3. txHeight \in [Tx -> Nat] /\ source \in [Sources -> SourceType] /\ feed.query \in [min : Nat, max : Nat]
    BY <1>t, FeedTypes
  <2>4. source[searches[f].of].min <= source'[searches[f].of].min
    BY <2>2
  <2>5. \A t \in Tx : txHeight[t] = 0 =>
          txHeight[t] = 0 \/ (searches[f].at < txHeight[t] /\ \A u \in Tx : txHeight[u] < txHeight[t])
    OBVIOUS
  <2> HIDE DEF FeedInv, SearchesInv
  <2> QED BY <2>1, <2>2, <2>3, <2>4, <2>5, GoodStays
<1>2. Active' = Active
  BY DEF Active
<1>3. ASSUME NEW g \in DOMAIN searches'
      PROVE  /\ searches'[g].of \in Active' /\ source'[searches'[g].of].state # "height"
             /\ searches'[g].at <= top'
             /\ SearchGood(searches'[g], txHeight', source', feed'.query, between')
  <2>1. txHeight' = txHeight /\ feed' = feed /\ top' = top
    OBVIOUS
  <2> QED BY <1>1, <1>2, <2>1
<1> QED BY <1>3 DEF SearchesInv

(* Nothing is left behind when no minHeight moves and nothing is owed anew. *)
LEMMA CompleteStays ==
  ASSUME FeedInv, UNCHANGED <<feed, txHeight, given, owed>>, listening' => listening,
         between \subseteq between',
         \A s \in Sources : /\ source'[s].min = source[s].min
                            /\ source[s].state = "failed" => source'[s].state = "failed"
  PROVE  FeedComplete'
<1>1. Active' = Active /\ Active \subseteq Sources
  <2>1. Active' = Active
    BY DEF Active
  <2>2. Active \subseteq Sources
    BY ActiveSources DEF Active, Sources
  <2> QED BY <2>1, <2>2
<1> SUFFICES ASSUME listening', NEW t \in owed' \ given', NEW s \in Active',
                    txHeight'[t] \in feed'.query.min .. feed'.query.max,
                    s = "node" \/ RequestsOf(s) \cap SourcesOf[t] # {}, source'[s].state # "failed",
                    s = "logs" => txHeight'[t] \notin between'
             PROVE  t \in Ahead(s)'
  BY DEF FeedComplete
<1>2. t \in Ahead(s)
  <2>1. s = "logs" => txHeight[t] \notin between
    OBVIOUS
  <2> QED BY <1>1, <2>1 DEF FeedInv, FeedComplete
<1> QED BY <1>1, <1>2 DEF Ahead

-----------------------------------------------------------------------------
(* What an action keeps that gives nothing to the listener and moves no     *)
(* minHeight: every search is one there was or a good one.                  *)
LEMMA QuietKeeps ==
  ASSUME FeedInv, UNCHANGED <<feed, top, txHeight, given, repeated, owed>>,
         scraped' \in 1 .. top, listening' \in BOOLEAN, listening' => listening,
         feedOverlap' \in BOOLEAN, feedOverlap => feedOverlap',
         between \subseteq between', between' \subseteq 1 .. top,
         source' \in [Sources -> SourceType], searches' \in Seq(SearchType),
         searches' # <<>> => feed.stream # "none",
         \A s \in Sources :
           /\ source'[s].min = source[s].min
           /\ source'[s].state # "none" => source[s].state # "none"
           /\ source'[s].state = "height" => source[s].state = "height"
           /\ source[s].state = "failed" => source'[s].state = "failed",
         \A g \in DOMAIN searches' :
           \/ \E f \in DOMAIN searches : searches'[g] = searches[f]
           \/ /\ searches'[g].of \in Active /\ searches'[g] \in SearchType
              /\ source'[searches'[g].of].state # "height"
              /\ searches'[g].at <= top /\ SearchGood(searches'[g], txHeight, source', feed.query, between'),
         feed.stream = "lisk live" /\ ~feedOverlap' =>
           /\ Len(searches') <= 1
           /\ \A g \in DOMAIN searches' : source["node"].min <= searches'[g].min
  PROVE  FeedInv'
<1>t. FeedTypeOK /\ StartInv /\ (\A s \in Sources : SourceInv(s)) /\ InChain /\ OnceInv
  BY DEF FeedInv
<1>a. Active' = Active
  BY DEF Active
<1>1. FeedTypeOK'
  <2>1. /\ source' \in [Sources -> [state : {"none", "height", "first", "ticking", "stopped", "failed"}, min : Nat]]
        /\ searches' \in Seq([of : Sources, min : Nat, waits : SUBSET Requests, at : Nat, found : SUBSET Tx])
    BY DEF SourceType, SearchType
  <2> QED BY <1>t, <2>1 DEF FeedTypeOK
<1>2. StartInv'
  BY <1>t DEF StartInv
<1>3. ASSUME NEW s \in Sources PROVE SourceInv(s)'
  <2>1. SourceInv(s)
    BY <1>t
  <2> QED BY <1>a, <2>1 DEF SourceInv
<1>4. SearchesInv'
  <2>1. \A s \in Sources : source[s].min <= source'[s].min
    <3>1. \A s \in Sources : source[s].min \in Nat /\ source'[s].min = source[s].min
      BY <1>t, FeedTypes
    <3> HIDE DEF FeedInv
    <3> QED BY ONLY <3>1
  <2> QED BY <2>1, SearchesStay
<1>5. InChain'
  BY <1>t DEF InChain, FeedInRange
<1>6. OnceInv'
  BY <1>t DEF OnceInv, FeedOnce, Sources
<1>7. FeedComplete'
  BY CompleteStays
<1> QED BY <1>1, <1>2, <1>3, <1>4, <1>5, <1>6, <1>7 DEF FeedInv

(* The scraper takes over a block. *)
LEMMA ScraperFollowsKeeps ==
  ASSUME FeedInv, ScraperFollows
  PROVE  FeedInv'
<1>t. FeedTypeOK /\ OnceInv /\ StartInv
  BY DEF FeedInv
<1>1. /\ UNCHANGED <<feed, top, txHeight, source, searches, given, repeated, owed, listening, feedOverlap, between>>
      /\ scraped < top /\ scraped' = scraped + 1
  BY DEF ScraperFollows, outVars
<1>2. scraped' \in 1 .. top /\ between' \subseteq 1 .. top
  BY <1>1, <1>t, FeedTypes
<1>3. listening \in BOOLEAN /\ feedOverlap \in BOOLEAN
  BY <1>t DEF FeedTypeOK
<1>4. source' \in [Sources -> SourceType] /\ searches' \in Seq(SearchType)
  BY <1>1, <1>t, FeedTypes
<1>5. searches' # <<>> => feed.stream # "none"
  BY <1>1, <1>t DEF StartInv
<1>6. \A g \in DOMAIN searches' : \E f \in DOMAIN searches : searches'[g] = searches[f]
  BY <1>1
<1>8. feed.stream = "lisk live" /\ ~feedOverlap' =>
        /\ Len(searches') <= 1
        /\ \A g \in DOMAIN searches' : source["node"].min <= searches'[g].min
  BY <1>1, <1>t DEF OnceInv
<1> QED BY <1>1, <1>2, <1>3, <1>4, <1>5, <1>6, <1>8, QuietKeeps

(* height() is rejected. *)
LEMMA StartFailsKeeps ==
  ASSUME FeedInv, NEW s \in Sources, StartFails(s)
  PROVE  FeedInv'
<1>t. FeedTypeOK /\ OnceInv /\ StartInv
  BY DEF FeedInv
<1>1. /\ UNCHANGED <<feed, top, txHeight, scraped, searches, given, repeated, owed, listening, feedOverlap, between>>
      /\ source[s].state = "height" /\ source' = [source EXCEPT ![s].state = "failed"]
  BY DEF StartFails, outVars, ledgerVars
<1>2. scraped' \in 1 .. top /\ between' \subseteq 1 .. top
  BY <1>1, <1>t, FeedTypes
<1>3. listening \in BOOLEAN /\ feedOverlap \in BOOLEAN
  BY <1>t DEF FeedTypeOK
<1>4. /\ source' \in [Sources -> SourceType] /\ searches' \in Seq(SearchType)
      /\ \A u \in Sources :
           /\ source'[u].min = source[u].min
           /\ source'[u].state # "none" => source[u].state # "none"
           /\ source'[u].state = "height" => source[u].state = "height"
           /\ source[u].state = "failed" => source'[u].state = "failed"
  <2>1. source \in [Sources -> SourceType] /\ searches \in Seq(SearchType)
    BY <1>t, FeedTypes
  <2> QED BY <2>1, <1>1 DEF SourceType
<1>5. searches' # <<>> => feed.stream # "none"
  BY <1>1, <1>t DEF StartInv
<1>6. \A g \in DOMAIN searches' : \E f \in DOMAIN searches : searches'[g] = searches[f]
  BY <1>1
<1>8. feed.stream = "lisk live" /\ ~feedOverlap' =>
        /\ Len(searches') <= 1
        /\ \A g \in DOMAIN searches' : source["node"].min <= searches'[g].min
  BY <1>1, <1>t DEF OnceInv
<1> QED BY <1>1, <1>2, <1>3, <1>4, <1>5, <1>6, <1>8, QuietKeeps

(* The listener leaves. *)
LEMMA StopFeedKeeps ==
  ASSUME FeedInv, StopFeed
  PROVE  FeedInv'
<1>t. FeedTypeOK /\ OnceInv /\ StartInv
  BY DEF FeedInv
<1>1. /\ UNCHANGED <<feed, top, txHeight, scraped, searches, given, repeated, owed, feedOverlap, between>>
      /\ listening' = FALSE
      /\ source' = [s \in Sources |-> [source[s] EXCEPT !.state = IF @ = "ticking" THEN "stopped" ELSE @]]
  BY DEF StopFeed, outVars, ledgerVars
<1>2. scraped' \in 1 .. top /\ between' \subseteq 1 .. top
  BY <1>1, <1>t, FeedTypes
<1>3. listening' \in BOOLEAN /\ feedOverlap \in BOOLEAN
  BY <1>1, <1>t DEF FeedTypeOK
<1>4. /\ source' \in [Sources -> SourceType] /\ searches' \in Seq(SearchType)
      /\ \A u \in Sources :
           /\ source'[u].min = source[u].min
           /\ source'[u].state # "none" => source[u].state # "none"
           /\ source'[u].state = "height" => source[u].state = "height"
           /\ source[u].state = "failed" => source'[u].state = "failed"
  <2>1. source \in [Sources -> SourceType] /\ searches \in Seq(SearchType)
    BY <1>t, FeedTypes
  <2> QED BY <2>1, <1>1 DEF SourceType
<1>5. searches' # <<>> => feed.stream # "none"
  BY <1>1, <1>t DEF StartInv
<1>6. \A g \in DOMAIN searches' : \E f \in DOMAIN searches : searches'[g] = searches[f]
  BY <1>1
<1>8. feed.stream = "lisk live" /\ ~feedOverlap' =>
        /\ Len(searches') <= 1
        /\ \A g \in DOMAIN searches' : source["node"].min <= searches'[g].min
  BY <1>1, <1>t DEF OnceInv
<1> QED BY <1>1, <1>2, <1>3, <1>4, <1>5, <1>6, <1>8, QuietKeeps


(* The next search begins where its source is now. *)
LEMMA SearchAgainKeeps ==
  ASSUME FeedInv, NEW s \in Sources, SearchAgain(s)
  PROVE  FeedInv'
<1>t. FeedTypeOK /\ OnceInv /\ StartInv /\ SourceInv(s)
  BY DEF FeedInv
<1> DEFINE r == Search(s, source[s].min)
<1>1. /\ UNCHANGED <<feed, top, txHeight, scraped, source, given, repeated, owed, listening, between>>
      /\ source[s].state = "ticking" /\ searches' = Append(searches, r)
      /\ feedOverlap' = (feedOverlap \/ (s = "node" /\ searches # <<>>))
  BY DEF SearchAgain, SendSearch, outVars, ledgerVars
<1>2. /\ source \in [Sources -> SourceType] /\ searches \in Seq(SearchType) /\ scraped \in 1 .. top
      /\ source[s].min \in Nat /\ DOMAIN searches = 1 .. Len(searches) /\ Len(searches) \in Nat
      /\ between \subseteq 1 .. top /\ top \in Nat
  BY <1>t, FeedTypes
<1>3. s \in Active /\ feed.stream # "none" /\ feed.query.min <= source[s].min
  BY <1>1, <1>t DEF SourceInv
<1>4. /\ r \in SearchType /\ r.of = s /\ r.min = source[s].min /\ r.at = 0
      /\ SearchGood(r, txHeight, source, feed.query, between)
  <2>1. source[s].min <= source[s].min
    BY <1>2
  <2> QED BY <1>2, <1>3, <2>1, NewSearch
<1> HIDE DEF r
<1>5. /\ searches' \in Seq(SearchType) /\ Len(searches') = Len(searches) + 1
      /\ DOMAIN searches' = 1 .. Len(searches) + 1
      /\ \A f \in 1 .. Len(searches) : searches'[f] = searches[f]
      /\ searches'[Len(searches) + 1] = r
  <2>1. /\ searches' \in Seq(SearchType) /\ Len(searches') = Len(searches) + 1
        /\ \A f \in 1 .. Len(searches) : searches'[f] = searches[f]
        /\ searches'[Len(searches) + 1] = r
    BY <1>1, <1>2, <1>4, AppendProperties
  <2> QED BY <2>1, LenProperties
<1>6. r.at <= top /\ SearchGood(r, txHeight, source', feed.query, between')
  BY <1>1, <1>2, <1>4
<1>7. \A g \in DOMAIN searches' :
        \/ \E f \in DOMAIN searches : searches'[g] = searches[f]
        \/ /\ searches'[g].of \in Active /\ searches'[g] \in SearchType
           /\ source'[searches'[g].of].state # "height"
           /\ searches'[g].at <= top /\ SearchGood(searches'[g], txHeight, source', feed.query, between')
  <2> SUFFICES ASSUME NEW g \in DOMAIN searches'
               PROVE  \/ \E f \in DOMAIN searches : searches'[g] = searches[f]
                      \/ /\ searches'[g].of \in Active /\ searches'[g] \in SearchType
                         /\ source'[searches'[g].of].state # "height"
                         /\ searches'[g].at <= top /\ SearchGood(searches'[g], txHeight, source', feed.query, between')
    OBVIOUS
  <2>1. g \in 1 .. Len(searches) \/ g = Len(searches) + 1
    BY <1>2, <1>5
  <2> QED BY <2>1, <1>1, <1>2, <1>3, <1>4, <1>5, <1>6
<1>9. feed.stream = "lisk live" /\ ~feedOverlap' =>
        /\ Len(searches') <= 1
        /\ \A g \in DOMAIN searches' : source["node"].min <= searches'[g].min
  <2> SUFFICES ASSUME feed.stream = "lisk live", ~feedOverlap'
               PROVE  /\ Len(searches') <= 1
                      /\ \A g \in DOMAIN searches' : source["node"].min <= searches'[g].min
    OBVIOUS
  <2>1. s = "node"
    BY <1>3, ActiveSources DEF Active
  <2>2. searches = <<>>
    BY <2>1, <1>1
  <2>3. Len(searches) = 0
    BY <2>2
  <2>4. Len(searches') = 1 /\ DOMAIN searches' = 1 .. 1 /\ searches'[1] = r
    <3>1. Len(searches) + 1 = 1
      BY ONLY <2>3
    <3> QED BY <3>1, <1>5
  <2>5. \A g \in 1 .. 1 : g = 1
    BY ONLY TRUE
  <2>6. source["node"].min <= r.min
    <3>1. source[s].min <= source[s].min
      BY ONLY <1>2
    <3> QED BY <3>1, <2>1, <1>4
  <2>7. Len(searches') <= 1
    BY ONLY <2>4
  <2> QED BY <2>4, <2>5, <2>6, <2>7
<1>10. listening \in BOOLEAN /\ feedOverlap' \in BOOLEAN
  <2>1. feedOverlap' \in BOOLEAN
    BY <1>1
  <2> QED BY <2>1, <1>t DEF FeedTypeOK
<1> QED BY <1>1, <1>2, <1>3, <1>5, <1>7, <1>9, <1>10, QuietKeeps

(* What a request finds of the blocks there are. *)
LEMMA FoundBlocks ==
  ASSUME FeedTypeOK, NEW q, NEW min \in Nat
  PROVE  /\ Found(q, min) \subseteq Tx
         /\ \A u \in Found(q, min) : txHeight[u] > 0 /\ txHeight[u] \in min .. feed.query.max
         /\ \A t \in Tx : /\ q = "node" \/ q \in SourcesOf[t]
                          /\ 0 < txHeight[t] /\ txHeight[t] \in min .. feed.query.max
                          /\ q # "scraper" \/ \E u \in Found(q, min) : txHeight[t] <= txHeight[u]
                          => t \in Found(q, min)
<1>1. txHeight \in [Tx -> Nat] /\ scraped \in 1 .. top /\ top \in Nat
  BY FeedTypes
<1>2. Found(q, min) \subseteq Tx /\ \A u \in Found(q, min) : txHeight[u] > 0 /\ txHeight[u] \in min .. feed.query.max
  BY DEF Found
<1>3. ASSUME NEW t \in Tx, NEW u \in Found(q, min), txHeight[t] <= txHeight[u], q = "scraper"
      PROVE  txHeight[t] <= scraped
  <2>1. u \in Tx /\ txHeight[u] <= scraped
    BY <1>3 DEF Found
  <2>2. txHeight[t] \in Nat /\ txHeight[u] \in Nat /\ scraped \in Nat
    BY <2>1, <1>1
  <2> QED BY ONLY <2>1, <2>2, <1>3
<1> QED BY <1>2, <1>3 DEF Found

(* A search stays good when one of its requests is answered. *)
LEMMA AnswerIsGood ==
  ASSUME FeedTypeOK, NEW r \in SearchType, NEW q \in r.waits, NEW x \in SearchType, NEW wider,
         r.at <= top, SearchGood(r, txHeight, source, feed.query, between),
         x.of = r.of, x.min = r.min, x.waits = r.waits \ {q},
         x.at = IF r.waits = {q} THEN 0 ELSE top,
         x.found = r.found \cup Found(q, r.min),
         wider = IF r.at = 0 THEN between ELSE between \cup (r.at + 1 .. top)
  PROVE  x.at <= top /\ SearchGood(x, txHeight, source, feed.query, wider)
<1> DEFINE F == Found(q, r.min)
<1>t. /\ r.of \in Sources /\ r.min \in Nat /\ r.at \in Nat /\ r.found \subseteq Tx
      /\ top \in Nat /\ top >= 1 /\ (\A t \in Tx : txHeight[t] \in Nat /\ txHeight[t] <= top)
  <2>1. top \in Nat /\ top >= 1 /\ \A t \in Tx : txHeight[t] \in 0 .. top
    BY FeedTypes
  <2>2. \A t \in Tx : txHeight[t] \in Nat /\ txHeight[t] <= top
    BY <2>1
  <2> QED BY <2>1, <2>2 DEF SearchType
<1>g. /\ feed.query.min <= r.min /\ r.min <= source[r.of].min
      /\ r.waits \subseteq RequestsOf(r.of)
      /\ r.waits = RequestsOf(r.of) => r.at = 0 /\ r.found = {}
      /\ r.waits # RequestsOf(r.of) /\ r.waits # {} => r.at # 0
      /\ \A t \in r.found : txHeight[t] > 0 /\ txHeight[t] \in r.min .. feed.query.max
      /\ ReadUpTo(r, txHeight, feed.query)
  BY DEF SearchGood
<1>f. /\ F \subseteq Tx
      /\ \A u \in F : txHeight[u] > 0 /\ txHeight[u] \in r.min .. feed.query.max
      /\ \A t \in Tx : /\ q = "node" \/ q \in SourcesOf[t]
                       /\ 0 < txHeight[t] /\ txHeight[t] \in r.min .. feed.query.max
                       /\ q # "scraper" \/ \E u \in F : txHeight[t] <= txHeight[u]
                       => t \in F
  BY <1>t, FoundBlocks
<1> HIDE DEF F
<1>1. q \in RequestsOf(r.of) /\ x.waits # RequestsOf(x.of)
  BY <1>g
<1>2. /\ x.at \in Nat /\ x.at <= top /\ (x.waits # {} => x.at = top /\ x.at # 0)
  <2>1. x.waits # {} => r.waits # {q}
    OBVIOUS
  <2> QED BY <2>1, <1>t
<1>3. \A t \in x.found : txHeight[t] > 0 /\ txHeight[t] \in x.min .. feed.query.max
  BY <1>g, <1>f DEF F
<1>4. NoHole(x, txHeight, feed.query, wider) /\ ReadUpTo(x, txHeight, feed.query)
  <2>1. CASE r.waits = RequestsOf(r.of)
    <3>1. Answered(x) = {q} /\ x.found = F /\ x.min = r.min /\ r.at = 0
      BY <2>1, <1>1, <1>g DEF Answered, F
    <3>2. \A t \in Tx : Seen({q}, t) => q = "node" \/ q \in SourcesOf[t]
      BY DEF Seen
    <3>3. NoHole(x, txHeight, feed.query, wider)
      BY <3>1, <3>2, <1>f DEF NoHole
    <3>4. x.waits # {} => q # "scraper"
      <4>1. r.of # "logs" => RequestsOf(r.of) = {r.of}
        BY DEF RequestsOf
      <4>2. r.of = "logs" => RequestsOf(r.of) = {"outgoing", "incoming"}
        BY DEF RequestsOf
      <4> QED BY <2>1, <4>1, <4>2
    <3>5. ReadUpTo(x, txHeight, feed.query)
      BY <3>1, <3>2, <3>4, <1>f DEF ReadUpTo
    <3> QED BY <3>3, <3>5
  <2>2. CASE r.waits # RequestsOf(r.of)
    <3>1. r.of = "logs" /\ r.waits = {q} /\ q \in {"outgoing", "incoming"}
      <4>1. r.of # "logs" => RequestsOf(r.of) = {r.of}
        BY DEF RequestsOf
      <4>2. r.of = "logs" => RequestsOf(r.of) = {"outgoing", "incoming"}
        BY DEF RequestsOf
      <4>3. r.of = "logs"
        BY <2>2, <4>1, <1>1, <1>g
      <4>4. RequestsOf(r.of) = {"outgoing", "incoming"}
        BY <4>2, <4>3
      <4>5. q \in {"outgoing", "incoming"} /\ r.waits \subseteq {"outgoing", "incoming"} /\ q \in r.waits
            /\ r.waits # {"outgoing", "incoming"}
        BY <4>4, <2>2, <1>1, <1>g
      <4>6. r.waits = {q}
        BY ONLY <4>5
      <4> QED BY <4>3, <4>5, <4>6
    <3>2. Answered(x) = {"outgoing", "incoming"} /\ Answered(r) = {"outgoing", "incoming"} \ {q} /\ x.waits = {}
      BY <3>1 DEF Answered, RequestsOf
    <3>3. r.at # 0 /\ wider = between \cup (r.at + 1 .. top)
      BY <2>2, <1>g
    <3>4. ASSUME NEW t \in Tx, NEW u \in x.found, Seen(Answered(x), t), 0 < txHeight[t], txHeight[t] <= txHeight[u],
                 txHeight[t] \in x.min .. feed.query.max
          PROVE  t \in x.found \/ txHeight[t] \in wider
      <4>1. CASE q \in SourcesOf[t]
        <5>1. t \in F
          BY <3>1, <3>4, <4>1, <1>f
        <5> QED BY <5>1 DEF F
      <4>2. CASE q \notin SourcesOf[t]
        <5>1. Seen(Answered(r), t)
          BY <3>1, <3>2, <3>4, <4>2 DEF Seen
        <5>2. CASE txHeight[t] <= r.at
          <6>1. t \in r.found
            BY <3>4, <5>1, <5>2, <1>g DEF ReadUpTo
          <6> QED BY <6>1
        <5>3. CASE ~(txHeight[t] <= r.at)
          <6>1. txHeight[t] \in r.at + 1 .. top
            BY <5>3, <1>t
          <6> QED BY <6>1, <3>3
        <5> QED BY <5>2, <5>3
      <4> QED BY <4>1, <4>2
    <3>5. NoHole(x, txHeight, feed.query, wider)
      BY <3>1, <3>4 DEF NoHole
    <3>6. ReadUpTo(x, txHeight, feed.query)
      BY <3>2 DEF ReadUpTo
    <3> QED BY <3>5, <3>6
  <2> QED BY <2>1, <2>2
<1>5. x.waits \subseteq RequestsOf(x.of) /\ feed.query.min <= x.min /\ x.min <= source[x.of].min
  BY <1>g
<1> QED BY <1>1, <1>2, <1>3, <1>4, <1>5 DEF SearchGood

(* One request of a search is answered. *)
LEMMA SourceAnswersKeeps ==
  ASSUME FeedInv, NEW f \in 1 .. FeedSlots, NEW q \in Requests, SourceAnswers(f, q)
  PROVE  FeedInv'
<1>t. FeedTypeOK /\ OnceInv /\ StartInv /\ SearchesInv
  BY DEF FeedInv
<1> DEFINE r == searches[f]
           found == r.found \cup Found(q, r.min)
           at == IF r.waits = {q} THEN 0 ELSE top
           x == [r EXCEPT !.waits = @ \ {q}, !.at = at, !.found = found]
<1>1. /\ UNCHANGED <<feed, top, txHeight, scraped, source, given, repeated, owed, listening, feedOverlap>>
      /\ f <= Len(searches) /\ q \in r.waits
      /\ searches' = [searches EXCEPT ![f].waits = @ \ {q}, ![f].at = at, ![f].found = @ \cup Found(q, r.min)]
      /\ between' = IF r.at = 0 THEN between ELSE between \cup (r.at + 1 .. top)
  BY DEF SourceAnswers, outVars, ledgerVars
<1>2. /\ source \in [Sources -> SourceType] /\ searches \in Seq(SearchType) /\ scraped \in 1 .. top
      /\ DOMAIN searches = 1 .. Len(searches) /\ Len(searches) \in Nat
      /\ between \subseteq 1 .. top /\ top \in Nat
  BY <1>t, FeedTypes
<1>3. f \in DOMAIN searches /\ f \in 1 .. Len(searches)
  <2>1. f \in 1 .. FeedSlots /\ FeedSlots \in Nat /\ Len(searches) \in Nat /\ f <= Len(searches)
    BY <1>1, <1>2, FeedAssumption
  <2>2. f \in 1 .. Len(searches)
    BY ONLY <2>1
  <2> QED BY <2>2, <1>2
<1>4. /\ r \in SearchType /\ r.of \in Active /\ r.of \in Sources /\ r.min \in Nat /\ r.at \in Nat /\ r.at <= top
      /\ SearchGood(r, txHeight, source, feed.query, between) /\ source[r.of].state # "height"
  <2>1. r \in SearchType /\ r.of \in Sources /\ r.min \in Nat /\ r.at \in Nat
    BY <1>t, <1>3, FeedTypes
  <2>2. /\ r.of \in Active /\ r.at <= top /\ source[r.of].state # "height"
        /\ SearchGood(r, txHeight, source, feed.query, between)
    BY <1>t, <1>3 DEF SearchesInv
  <2> QED BY <2>1, <2>2
<1>5. found \subseteq Tx /\ at \in Nat
  <2>1. Found(q, r.min) \subseteq Tx
    BY DEF Found
  <2>2. r.found \subseteq Tx
    BY <1>4 DEF SearchType
  <2> QED BY <2>1, <2>2, <1>2
<1>7. searches' = [searches EXCEPT ![f] = x]
  BY <1>1, <1>2, <1>3
<1> HIDE DEF at, found
<1>6. x \in SearchType /\ x.of = r.of /\ x.min = r.min /\ x.waits = r.waits \ {q} /\ x.at = at /\ x.found = found
  <2> HIDE DEF r
  <2> QED BY <1>4, <1>5 DEF SearchType
<1> HIDE DEF r, x
<1>8. /\ searches' \in Seq(SearchType) /\ Len(searches') = Len(searches) /\ DOMAIN searches' = DOMAIN searches
      /\ \A g \in DOMAIN searches : searches'[g] = IF g = f THEN x ELSE searches[g]
  <2>1. /\ searches' \in Seq(SearchType) /\ Len(searches') = Len(searches)
        /\ \A g \in 1 .. Len(searches) : searches'[g] = IF g = f THEN x ELSE searches[g]
    BY <1>2, <1>3, <1>6, <1>7, ExceptSeq
  <2> QED BY <2>1, <1>2, LenProperties
<1>9. x.at <= top /\ SearchGood(x, txHeight, source, feed.query, between')
  <2>1. x.at = (IF r.waits = {q} THEN 0 ELSE top) /\ x.found = r.found \cup Found(q, r.min)
    BY <1>6 DEF at, found
  <2>2. /\ FeedTypeOK /\ r \in SearchType /\ q \in r.waits /\ x \in SearchType /\ r.at <= top
        /\ SearchGood(r, txHeight, source, feed.query, between)
        /\ x.of = r.of /\ x.min = r.min /\ x.waits = r.waits \ {q}
        /\ between' = IF r.at = 0 THEN between ELSE between \cup (r.at + 1 .. top)
    BY <1>t, <1>1, <1>4, <1>6
  <2> QED BY ONLY <2>1, <2>2, AnswerIsGood
<1>10. \A g \in DOMAIN searches' :
        \/ \E h \in DOMAIN searches : searches'[g] = searches[h]
        \/ /\ searches'[g].of \in Active /\ searches'[g] \in SearchType
           /\ source'[searches'[g].of].state # "height"
           /\ searches'[g].at <= top /\ SearchGood(searches'[g], txHeight, source', feed.query, between')
  BY <1>1, <1>4, <1>6, <1>8, <1>9
<1>11. between \subseteq between' /\ between' \subseteq 1 .. top
  <2>1. r.at + 1 .. top \subseteq 1 .. top
    BY <1>2, <1>4
  <2> QED BY <2>1, <1>1, <1>2
<1>12. feed.stream = "lisk live" /\ ~feedOverlap' =>
        /\ Len(searches') <= 1
        /\ \A g \in DOMAIN searches' : source["node"].min <= searches'[g].min
  BY <1>1, <1>3, <1>6, <1>8, <1>t DEF OnceInv, r
<1>13. listening \in BOOLEAN /\ feedOverlap \in BOOLEAN
  BY <1>t DEF FeedTypeOK
<1>14. feed.stream # "none"
  <2>1. searches # <<>>
    BY <1>3, <1>2
  <2> QED BY <2>1, <1>t DEF StartInv
<1> QED BY <1>1, <1>2, <1>8, <1>10, <1>11, <1>12, <1>13, <1>14, QuietKeeps

(* A search fails. *)
LEMMA SearchFailsKeeps ==
  ASSUME FeedInv, NEW f \in 1 .. FeedSlots, SearchFails(f)
  PROVE  FeedInv'
<1>t. FeedTypeOK /\ OnceInv /\ StartInv /\ SearchesInv
  BY DEF FeedInv
<1>1. /\ UNCHANGED <<feed, top, txHeight, scraped, given, repeated, owed, listening, feedOverlap, between>>
      /\ f <= Len(searches) /\ searches' = RemoveAt(searches, f)
      /\ source' = [source EXCEPT ![searches[f].of].state = IF @ = "first" THEN "failed" ELSE @]
  BY DEF SearchFails, outVars, ledgerVars
<1>2. /\ source \in [Sources -> SourceType] /\ searches \in Seq(SearchType) /\ scraped \in 1 .. top
      /\ DOMAIN searches = 1 .. Len(searches) /\ Len(searches) \in Nat
  BY <1>t, FeedTypes
<1>3. f \in DOMAIN searches /\ f \in 1 .. Len(searches)
  BY <1>1, <1>2, FeedAssumption
<1>4. searches[f].of \in Sources
  BY <1>t, <1>3, FeedTypes
<1>5. /\ searches' \in Seq(SearchType) /\ Len(searches') = Len(searches) - 1
      /\ \A g \in DOMAIN searches' : \E h \in DOMAIN searches : h # f /\ searches'[g] = searches[h]
      /\ \A h \in DOMAIN searches \ {f} : \E g \in DOMAIN searches' : searches'[g] = searches[h]
  <2> DEFINE z == RemoveAt(searches, f)
  <2>1. /\ z \in Seq(SearchType) /\ Len(z) = Len(searches) - 1
        /\ \A g \in DOMAIN z : \E h \in DOMAIN searches : h # f /\ z[g] = searches[h]
        /\ \A h \in DOMAIN searches \ {f} : \E g \in DOMAIN z : z[g] = searches[h]
    BY <1>2, <1>3, RemoveAtElements
  <2>2. searches' = z
    BY <1>1
  <2> HIDE DEF z
  <2> QED BY <2>1, <2>2
<1>6. /\ source' \in [Sources -> SourceType]
      /\ \A u \in Sources :
           /\ source'[u].min = source[u].min
           /\ source'[u].state # "none" => source[u].state # "none"
           /\ source'[u].state = "height" => source[u].state = "height"
           /\ source[u].state = "failed" => source'[u].state = "failed"
  BY <1>1, <1>2, <1>4 DEF SourceType
<1>7. between' \subseteq 1 .. top
  BY <1>1, <1>t, FeedTypes
<1>8. feed.stream = "lisk live" /\ ~feedOverlap' =>
        /\ Len(searches') <= 1
        /\ \A g \in DOMAIN searches' : source["node"].min <= searches'[g].min
  <2> SUFFICES ASSUME feed.stream = "lisk live", ~feedOverlap'
               PROVE  /\ Len(searches') <= 1
                      /\ \A g \in DOMAIN searches' : source["node"].min <= searches'[g].min
    OBVIOUS
  <2>1. Len(searches) <= 1 /\ \A h \in DOMAIN searches : source["node"].min <= searches[h].min
    BY <1>1, <1>t DEF OnceInv
  <2>2. Len(searches') <= 1
    BY ONLY <2>1, <1>2, <1>5
  <2>3. ASSUME NEW g \in DOMAIN searches' PROVE source["node"].min <= searches'[g].min
    <3>1. PICK h \in DOMAIN searches : searches'[g] = searches[h]
      BY <1>5
    <3> QED BY <2>1, <3>1
  <2> QED BY <2>2, <2>3
<1>9. listening \in BOOLEAN /\ feedOverlap \in BOOLEAN
  BY <1>t DEF FeedTypeOK
<1>10. feed.stream # "none"
  <2>1. searches # <<>>
    BY <1>3, <1>2
  <2> QED BY <2>1, <1>t DEF StartInv
<1> QED BY <1>1, <1>2, <1>5, <1>6, <1>7, <1>8, <1>9, <1>10, QuietKeeps

-----------------------------------------------------------------------------
(* minHeight after a search: not lower, above everything found, and no      *)
(* higher than the block after one that was found.                          *)
LEMMA NextMin ==
  ASSUME FeedTypeOK, NEW min \in Nat, NEW found, found \subseteq Tx
  PROVE  /\ NextMinHeight(min, found) \in Nat /\ min <= NextMinHeight(min, found)
         /\ \A t \in found : txHeight[t] < NextMinHeight(min, found)
         /\ \/ NextMinHeight(min, found) = min
            \/ \E u \in found : NextMinHeight(min, found) = txHeight[u] + 1
<1> DEFINE S == {min} \cup {txHeight[t] + 1 : t \in found}
<1>t. top \in Nat /\ \A t \in found : txHeight[t] \in Nat /\ txHeight[t] <= top
  <2>1. top \in Nat /\ \A t \in Tx : txHeight[t] \in 0 .. top
    BY FeedTypes
  <2> QED BY <2>1
<1>1. S \subseteq Nat /\ S # {} /\ min + top + 1 \in Nat
  BY <1>t
<1>2. \A x \in S : x <= min + top + 1
  BY <1>t
<1>3. NextMinHeight(min, found) = Max(S)
  BY DEF NextMinHeight
<1>4. \A t \in found : txHeight[t] + 1 \in S
  OBVIOUS
<1>5. \A x \in S : x = min \/ \E u \in found : x = txHeight[u] + 1
  OBVIOUS
<1>6. min \in S
  OBVIOUS
<1> HIDE DEF S
<1>7. Max(S) \in S /\ \A x \in S : x <= Max(S)
  BY <1>1, <1>2, MaxOfBounded
<1>8. Max(S) \in Nat /\ min <= Max(S)
  BY <1>1, <1>6, <1>7
<1>9. \A t \in found : txHeight[t] < Max(S)
  BY <1>4, <1>7, <1>8, <1>t
<1> QED BY <1>3, <1>5, <1>7, <1>8, <1>9

(* listenTx(): the height is known and the first search begins. *)
LEMMA HeightKnownKeeps ==
  ASSUME FeedInv, NEW s \in Sources, HeightKnown(s)
  PROVE  FeedInv'
<1>t. FeedTypeOK /\ OnceInv /\ StartInv /\ (\A u \in Sources : SourceInv(u)) /\ InChain
  BY DEF FeedInv
<1>u. /\ source \in [Sources -> SourceType] /\ searches \in Seq(SearchType) /\ scraped \in 1 .. top
      /\ top \in Nat /\ top >= 1 /\ feed.query.min \in Nat
      /\ DOMAIN searches = 1 .. Len(searches) /\ Len(searches) \in Nat
  BY <1>t, FeedTypes
<1> DEFINE start == IF s = "scraper" THEN top - 1 ELSE top + 1
           min == Max({feed.query.min, start})
           r == Search(s, min)
           src == [state |-> "first", min |-> min]
<1>1. /\ UNCHANGED <<feed, top, txHeight, scraped, given, repeated, owed, listening, feedOverlap, between>>
      /\ source[s].state = "height" /\ source' = [source EXCEPT ![s] = src]
      /\ searches' = Append(searches, r)
  BY DEF HeightKnown, SendSearch, outVars, ledgerVars
<1>2. s \in Active /\ feed.stream = "ethereum listen" /\ source[s].min = feed.query.min /\ owed = {}
  BY <1>1, <1>t DEF SourceInv
<1>3. min \in Nat /\ feed.query.min <= min /\ (min <= feed.query.min \/ min <= top + 1)
  <2>1. start \in Nat /\ start <= top + 1
    BY <1>u
  <2> HIDE DEF start
  <2>2. /\ {feed.query.min, start} \subseteq Nat /\ {feed.query.min, start} # {}
        /\ feed.query.min + start \in Nat
        /\ \A x \in {feed.query.min, start} : x <= feed.query.min + start
    BY <2>1, <1>u
  <2>3. min \in {feed.query.min, start} /\ \A x \in {feed.query.min, start} : x <= min
    BY <2>2, MaxOfBounded
  <2> HIDE DEF min
  <2> QED BY <2>1, <2>3, <1>u
<1> HIDE DEF start, min
<1>4. src \in SourceType /\ src.state = "first" /\ src.min = min
  BY <1>3 DEF SourceType
<1> HIDE DEF src
<1>5. source' \in [Sources -> SourceType] /\ source'[s] = src /\ \A u \in Sources \ {s} : source'[u] = source[u]
  BY <1>1, <1>4, <1>u
<1>s. /\ r \in SearchType /\ r.of = s /\ r.min = min /\ r.at <= top
      /\ SearchGood(r, txHeight, source', feed.query, between')
  <2>1. min <= source'[s].min
    BY <1>3, <1>4, <1>5
  <2>2. 0 <= top
    BY <1>u
  <2> QED BY <1>3, <2>1, <2>2, NewSearch
<1> HIDE DEF r
<1>6. \A u \in Sources : /\ source[u].min <= source'[u].min
                         /\ source'[u].state = "height" => source[u].state = "height"
  <2>1. \A u \in Sources : source[u].min \in Nat
    BY <1>t, FeedTypes
  <2>2. \A u \in Sources \ {s} : source[u].min <= source'[u].min
    BY <2>1, <1>5
  <2> QED BY <2>2, <1>2, <1>3, <1>4, <1>5
<1>7. /\ searches' \in Seq(SearchType) /\ Len(searches') = Len(searches) + 1
      /\ DOMAIN searches' = 1 .. Len(searches) + 1
      /\ \A f \in 1 .. Len(searches) : searches'[f] = searches[f]
      /\ searches'[Len(searches) + 1] = r
  <2>1. /\ searches' \in Seq(SearchType) /\ Len(searches') = Len(searches) + 1
        /\ \A f \in 1 .. Len(searches) : searches'[f] = searches[f]
        /\ searches'[Len(searches) + 1] = r
    BY <1>1, <1>s, <1>u, AppendProperties
  <2> QED BY <2>1, LenProperties
<1>9. \A g \in DOMAIN searches' :
        \/ \E f \in DOMAIN searches : searches'[g] = searches[f]
        \/ /\ searches'[g].of \in Active /\ searches'[g] \in SearchType
           /\ source'[searches'[g].of].state # "height"
           /\ searches'[g].at <= top /\ SearchGood(searches'[g], txHeight, source', feed.query, between')
  <2> SUFFICES ASSUME NEW g \in DOMAIN searches'
               PROVE  \/ \E f \in DOMAIN searches : searches'[g] = searches[f]
                      \/ /\ searches'[g].of \in Active /\ searches'[g] \in SearchType
                         /\ source'[searches'[g].of].state # "height"
                         /\ searches'[g].at <= top /\ SearchGood(searches'[g], txHeight, source', feed.query, between')
    OBVIOUS
  <2>1. g \in 1 .. Len(searches) \/ g = Len(searches) + 1
    BY <1>u, <1>7
  <2> QED BY <2>1, <1>s, <1>u, <1>2, <1>4, <1>5, <1>7
<1>10. SearchesInv'
  <2>1. UNCHANGED <<feed, txHeight, top, between>>
    BY <1>1
  <2> QED BY <2>1, <1>5, <1>6, <1>9, SearchesStay
<1>11. FeedTypeOK'
  <2>1. /\ source' \in [Sources -> [state : {"none", "height", "first", "ticking", "stopped", "failed"}, min : Nat]]
        /\ searches' \in Seq([of : Sources, min : Nat, waits : SUBSET Requests, at : Nat, found : SUBSET Tx])
    BY <1>5, <1>7 DEF SourceType, SearchType
  <2> QED BY <1>t, <1>1, <2>1 DEF FeedTypeOK
<1>12. StartInv' /\ InChain' /\ OnceInv'
  BY <1>t, <1>1, <1>2 DEF StartInv, InChain, FeedInRange, OnceInv, FeedOnce
<1>13. ASSUME NEW u \in Sources PROVE SourceInv(u)'
  <2>1. SourceInv(u) /\ Active' = Active
    BY <1>t, <1>1 DEF Active
  <2>2. CASE u # s
    BY <2>1, <2>2, <1>1, <1>5 DEF SourceInv
  <2>3. CASE u = s
    BY <2>1, <2>3, <1>1, <1>2, <1>3, <1>4, <1>5 DEF SourceInv
  <2> QED BY <2>2, <2>3
<1>14. FeedComplete'
  BY <1>1, <1>2 DEF FeedComplete
<1> QED BY <1>10, <1>11, <1>12, <1>13, <1>14 DEF FeedInv


(* A block comes on top of the chain: its transactions are ahead of every   *)
(* source.                                                                  *)
LEMMA BlockComesKeeps ==
  ASSUME FeedInv, BlockComes
  PROVE  FeedInv'
<1>t. /\ FeedTypeOK /\ OnceInv /\ StartInv /\ (\A u \in Sources : SourceInv(u)) /\ InChain /\ SearchesInv
      /\ FeedComplete
  BY DEF FeedInv
<1>u. /\ source \in [Sources -> SourceType] /\ searches \in Seq(SearchType) /\ scraped \in 1 .. top
      /\ top \in Nat /\ top >= 1 /\ feed.query \in [min : Nat, max : Nat] /\ feed.query.min \in Nat
      /\ txHeight \in [Tx -> Nat] /\ (\A t \in Tx : txHeight[t] \in 0 .. top)
      /\ \A s \in Sources : source[s].min \in Nat
  BY <1>t, FeedTypes
<1>1. /\ UNCHANGED <<feed, scraped, source, searches, given, repeated, listening, feedOverlap, between>>
      /\ top < FeedHeight /\ top' = top + 1
  BY DEF BlockComes, outVars
<1>2. PICK new \in SUBSET {t \in Tx : txHeight[t] = 0} :
        /\ txHeight' = [t \in Tx |-> IF t \in new THEN top + 1 ELSE txHeight[t]]
        /\ owed' = IF feed.stream # "none" /\ \A s \in Active : source[s].state # "height"
                   THEN owed \cup new ELSE owed
  BY DEF BlockComes
<1>3. /\ txHeight' \in [Tx -> Nat] /\ txHeight' \in [Tx -> 0 .. top']
      /\ \A t \in Tx : txHeight[t] > 0 => txHeight'[t] = txHeight[t]
      /\ \A t \in new : txHeight'[t] = top + 1
      /\ \A t \in Tx : txHeight[t] = 0 => txHeight'[t] = 0 \/ (\A u \in Tx : txHeight[u] < txHeight'[t])
  <2>1. txHeight' \in [Tx -> Nat]
    BY <1>2, <1>u
  <2>2. txHeight' \in [Tx -> 0 .. top']
    BY <1>1, <1>2, <1>u
  <2>3. \A t \in Tx : txHeight[t] > 0 => txHeight'[t] = txHeight[t]
    BY <1>2, <1>u
  <2>4. \A t \in new : txHeight'[t] = top + 1
    BY <1>2
  <2>5. \A t \in Tx \ new : txHeight'[t] = txHeight[t]
    BY <1>2
  <2>6. \A u \in Tx : txHeight[u] < top + 1
    BY <1>u
  <2> QED BY <2>1, <2>2, <2>3, <2>4, <2>5, <2>6
<1>4. Active' = Active /\ Active \subseteq Sources
  <2>1. Active' = Active
    BY <1>1 DEF Active
  <2>2. Active \subseteq Sources
    BY ActiveSources DEF Active, Sources
  <2> QED BY <2>1, <2>2
<1>5. FeedTypeOK'
  <2>1. top' \in 1 .. FeedHeight /\ scraped' \in 1 .. top'
    <3>1. top \in Nat /\ top < FeedHeight /\ FeedHeight \in Nat
      BY <1>1, <1>u, FeedAssumption
    <3> QED BY <3>1, <1>1, <1>u
  <2>2. owed' \subseteq Tx
    BY <1>2, <1>t DEF FeedTypeOK
  <2>3. between' \subseteq 1 .. top'
    <3>1. between \subseteq 1 .. top
      BY <1>t, FeedTypes
    <3> QED BY <3>1, <1>1, <1>u
  <2> QED BY <1>t, <1>1, <1>3, <2>1, <2>2, <2>3 DEF FeedTypeOK
<1>6. StartInv'
  BY <1>t, <1>1, <1>2 DEF StartInv
<1>7. ASSUME NEW s \in Sources PROVE SourceInv(s)'
  <2>1. SourceInv(s)
    BY <1>t
  <2>2. source[s].state = "height" => owed' = owed
    BY <2>1, <1>2 DEF SourceInv
  <2>3. source[s].min <= top + 1 => source[s].min <= (top + 1) + 1
    BY <1>u
  <2> QED BY <2>1, <2>2, <2>3, <1>1, <1>4 DEF SourceInv
<1>8. SearchesInv'
  <2> SUFFICES ASSUME NEW f \in DOMAIN searches
               PROVE  /\ searches[f].of \in Active /\ source[searches[f].of].state # "height"
                      /\ searches[f].at <= top + 1
                      /\ SearchGood(searches[f], txHeight', source, feed.query, between)
    BY <1>1, <1>4 DEF SearchesInv
  <2>1. /\ searches[f].of \in Active /\ source[searches[f].of].state # "height"
        /\ searches[f].at <= top
        /\ SearchGood(searches[f], txHeight, source, feed.query, between)
    BY <1>t DEF SearchesInv
  <2>2. searches[f] \in SearchType /\ searches[f].of \in Sources /\ searches[f].at \in Nat
    BY <1>t, FeedTypes
  <2>4. searches[f].at < top + 1 /\ searches[f].at <= top + 1
    BY <2>1, <2>2, <1>u
  <2>5. \A t \in Tx : txHeight[t] = 0 =>
          txHeight'[t] = 0 \/ (searches[f].at < txHeight'[t] /\ \A u \in Tx : txHeight[u] < txHeight'[t])
    <3>1. \A t \in Tx : txHeight[t] = 0 => txHeight'[t] = 0 \/ txHeight'[t] = top + 1
      BY <1>2, <1>3
    <3> QED BY <3>1, <2>4, <1>3
  <2>3. source[searches[f].of].min <= source[searches[f].of].min
    <3>1. source[searches[f].of].min \in Nat
      BY <1>u, <2>2
    <3> QED BY ONLY <3>1
  <2> QED BY <2>1, <2>2, <2>3, <2>4, <2>5, <1>3, <1>u, GoodStays
<1>9. InChain'
  <2>1. \A t \in given : t \in Tx /\ txHeight'[t] = txHeight[t] /\ txHeight[t] > 0
    BY <1>t, <1>3 DEF InChain, FeedTypeOK
  <2>2. \A t \in owed' : txHeight'[t] > 0
    <3>1. \A t \in owed : txHeight'[t] > 0
      BY <1>t, <1>3 DEF InChain, FeedTypeOK
    <3>2. top + 1 > 0
      BY <1>u
    <3> QED BY <3>1, <3>2, <1>2, <1>3
  <2> QED BY <2>1, <2>2, <1>t, <1>1 DEF InChain, FeedInRange
<1>10. OnceInv'
  <2>1. \A t \in given : txHeight'[t] = txHeight[t]
    BY <1>t, <1>3 DEF InChain, FeedTypeOK
  <2> QED BY <2>1, <1>t, <1>1 DEF OnceInv, FeedOnce
<1>11. FeedComplete'
  <2> SUFFICES ASSUME listening', NEW t \in owed' \ given', NEW s \in Active',
                      txHeight'[t] \in feed'.query.min .. feed'.query.max,
                      s = "node" \/ RequestsOf(s) \cap SourcesOf[t] # {}, source'[s].state # "failed",
                      s = "logs" => txHeight'[t] \notin between'
               PROVE  t \in Ahead(s)'
    BY DEF FeedComplete
  <2>1. s \in Sources /\ s \in Active /\ SourceInv(s)
    BY <1>t, <1>4
  <2>2. CASE t \in owed
    <3>1. t \in Tx /\ txHeight[t] > 0 /\ txHeight'[t] = txHeight[t]
      BY <2>2, <1>t, <1>3 DEF InChain, FeedTypeOK
    <3>2. t \in Ahead(s)
      BY <2>1, <2>2, <3>1, <1>t, <1>1 DEF FeedComplete
    <3> QED BY <3>1, <3>2, <1>1 DEF Ahead
  <2>3. CASE t \in new /\ feed.stream # "none"
    <3>1. t \in Tx /\ txHeight'[t] = top + 1
      BY <2>3, <1>3
    <3>2. /\ source[s].min <= feed.query.min \/ source[s].min <= top + 1
          /\ feed.query.min <= top + 1
      <4>1. source[s].min <= feed.query.min \/ source[s].min <= top + 1
        BY <2>1, <2>3 DEF SourceInv
      <4>2. top + 1 \in feed.query.min .. feed.query.max
        BY <3>1, <1>1
      <4>3. feed.query.max \in Nat
        BY <1>u
      <4> QED BY ONLY <4>1, <4>2, <4>3, <1>u
    <3>3. source[s].min <= top + 1
      <4>1. source[s].min \in Nat
        BY <1>u, <2>1
      <4> QED BY ONLY <3>2, <4>1, <1>u
    <3> QED BY <3>1, <3>3, <1>1 DEF Ahead
  <2> QED BY <2>2, <2>3, <1>2
<1> QED BY <1>5, <1>6, <1>7, <1>8, <1>9, <1>10, <1>11 DEF FeedInv


(* The list of the sources of a stream. *)
LEMMA SourceListElements ==
  ASSUME NEW stream
  PROVE  /\ DOMAIN SourceList(stream) = 1 .. Len(SourceList(stream)) /\ Len(SourceList(stream)) \in Nat
         /\ \A n \in DOMAIN SourceList(stream) : SourceList(stream)[n] \in ToSet(SourceList(stream))
         /\ stream = "lisk live" => Len(SourceList(stream)) = 1
<1>1. \A n \in DOMAIN SourceList(stream) : SourceList(stream)[n] \in ToSet(SourceList(stream))
  BY DEF ToSet
<1>2. SourceList(stream) \in Seq({"node", "scraper", "logs"})
  <2>1. <<"node">> \in Seq({"node", "scraper", "logs"}) /\ <<"scraper", "logs">> \in Seq({"node", "scraper", "logs"})
    OBVIOUS
  <2> QED BY <2>1 DEF SourceList
<1>3. stream = "lisk live" => Len(SourceList(stream)) = 1
  BY DEF SourceList
<1> QED BY <1>1, <1>2, <1>3, LenProperties

(* The end of an interval. *)
LEMMA IntervalEnd ==
  ASSUME NEW m \in Nat, NEW n \in Nat, 1 .. m = 1 .. n
  PROVE  m = n
<1>1. ~(m < n)
  <2>1. m < n => n \in 1 .. n /\ n \notin 1 .. m
    OBVIOUS
  <2> QED BY <2>1
<1>2. ~(n < m)
  <2>1. n < m => m \in 1 .. m /\ m \notin 1 .. n
    OBVIOUS
  <2> QED BY <2>1
<1> QED BY <1>1, <1>2

(* A listener comes: every source starts at minHeight of the query. *)
LEMMA StartFeedKeeps ==
  ASSUME FeedInv, NEW stream \in Feeds, NEW query \in Queries, StartFeed(stream, query)
  PROVE  FeedInv'
<1>t. FeedTypeOK /\ StartInv /\ (\A u \in Sources : SourceInv(u))
  BY DEF FeedInv
<1>u. /\ source \in [Sources -> SourceType] /\ top \in Nat /\ top >= 1
      /\ (\A t \in Tx : txHeight[t] \in 0 .. top) /\ \A s \in Sources : source[s].min \in Nat
  BY <1>t, FeedTypes
<1>q. query \in [min : Nat, max : Nat] /\ query.min \in Nat /\ query.max \in Nat
  BY FeedAssumption
<1> DEFINE sources == SourceList(stream)
           state == IF stream = "ethereum listen" THEN "height" ELSE "first"
           src == [state |-> state, min |-> query.min]
<1>1. /\ UNCHANGED <<top, txHeight, scraped, given, repeated, feedOverlap, between>>
      /\ feed.stream = "none" /\ feed' = [stream |-> stream, query |-> query] /\ listening' = TRUE
      /\ source' = [s \in Sources |-> IF s \in ToSet(sources) THEN src ELSE source[s]]
      /\ searches' = (IF state = "first" THEN [n \in DOMAIN sources |-> Search(sources[n], query.min)] ELSE <<>>)
      /\ owed' = (IF stream = "ethereum listen" THEN {} ELSE {t \in Tx : txHeight[t] > 0})
  BY DEF StartFeed, outVars, ledgerVars
<1>2. given = {} /\ repeated = {} /\ feed'.stream = stream /\ feed'.query = query /\ stream # "none"
  BY <1>t, <1>1 DEF StartInv, Feeds
<1>3. /\ Active' = ToSet(sources) /\ Active' \subseteq Sources
      /\ Active' = IF stream = "lisk live" THEN {"node"} ELSE {"scraper", "logs"}
  <2>1. Active' = ToSet(sources)
    BY <1>2 DEF Active
  <2> HIDE DEF sources
  <2>2. Active' = IF stream = "lisk live" THEN {"node"} ELSE {"scraper", "logs"}
    BY <2>1, ActiveSources DEF sources
  <2> QED BY <2>1, <2>2 DEF Sources
<1>4. /\ src \in SourceType /\ src.min = query.min /\ src.state = state
      /\ state = "height" <=> stream = "ethereum listen"
  BY <1>q DEF SourceType
<1>5. /\ DOMAIN sources = 1 .. Len(sources) /\ Len(sources) \in Nat
      /\ \A n \in DOMAIN sources : sources[n] \in Active'
      /\ stream = "lisk live" => Len(sources) = 1
  BY <1>3, SourceListElements
<1> HIDE DEF sources, src, state
<1>6. /\ source' \in [Sources -> SourceType]
      /\ \A s \in Active' : source'[s] = src
      /\ \A s \in Sources \ Active' : source'[s] = source[s] /\ source[s].state = "none"
  <2>1. \A s \in Sources : source[s].state = "none"
    BY <1>t, <1>1 DEF SourceInv
  <2> QED BY <2>1, <1>1, <1>3, <1>4, <1>u
<1>7. ASSUME NEW s \in Active'
      PROVE  LET r == Search(s, query.min)
             IN /\ r \in SearchType /\ r.of = s /\ r.min = query.min /\ r.at <= top'
                /\ SearchGood(r, txHeight', source', query, between')
  <2>1. query.min <= query.min /\ query.min <= source'[s].min /\ s \in Sources
    <3>1. source'[s].min = query.min /\ s \in Sources
      BY <1>3, <1>4, <1>6
    <3>2. query.min \in Nat
      BY <1>q
    <3> QED BY ONLY <3>1, <3>2
  <2>2. 0 <= top'
    <3>1. top' = top /\ top \in Nat
      BY <1>1, <1>u
    <3> QED BY ONLY <3>1
  <2> QED BY <1>q, <2>1, <2>2, NewSearch
<1>8. /\ searches' \in Seq(SearchType)
      /\ \A n \in DOMAIN searches' :
           /\ searches'[n].of \in Active' /\ searches'[n].min = query.min /\ state # "height"
           /\ searches'[n].at <= top' /\ SearchGood(searches'[n], txHeight', source', query, between')
      /\ stream = "lisk live" => Len(searches') <= 1
  <2>1. CASE state = "first"
    <3>1. searches' = [n \in 1 .. Len(sources) |-> Search(sources[n], query.min)]
      BY <2>1, <1>1, <1>5
    <3>2. \A n \in 1 .. Len(sources) : searches'[n] = Search(sources[n], query.min) /\ sources[n] \in Active'
      BY <3>1, <1>5
    <3>3. searches' \in [1 .. Len(sources) -> SearchType]
      BY <3>1, <3>2, <1>7
    <3>4. searches' \in Seq(SearchType) /\ DOMAIN searches' = 1 .. Len(sources)
      BY <3>3, <1>5, SeqDef
    <3>5. Len(searches') \in Nat /\ DOMAIN searches' = 1 .. Len(searches')
      BY <3>4, LenProperties
    <3>6. Len(searches') = Len(sources)
      <4>1. 1 .. Len(searches') = 1 .. Len(sources)
        BY <3>4, <3>5
      <4> QED BY <4>1, <3>5, <1>5, IntervalEnd
    <3>7. ASSUME NEW n \in DOMAIN searches'
          PROVE  /\ searches'[n].of \in Active' /\ searches'[n].min = query.min
                 /\ searches'[n].at <= top' /\ SearchGood(searches'[n], txHeight', source', query, between')
      <4>1. sources[n] \in Active' /\ searches'[n] = Search(sources[n], query.min)
        BY <3>2, <3>4
      <4> QED BY <4>1, <1>7
    <3>8. stream = "lisk live" => Len(searches') <= 1
      <4>1. stream = "lisk live" => Len(searches') = 1
        BY <3>6, <1>5
      <4>2. 1 <= 1
        BY ONLY TRUE
      <4> QED BY <4>1, <4>2, Zenon
    <3>9. state # "height"
      BY <2>1
    <3> QED BY <3>4, <3>7, <3>8, <3>9
  <2>2. CASE state # "first"
    <3>1. searches' = <<>> /\ stream # "lisk live"
      BY <2>2, <1>1 DEF state
    <3>2. <<>> \in Seq(SearchType) /\ DOMAIN <<>> = {}
      BY EmptySeq
    <3> QED BY <3>1, <3>2
  <2> QED BY <2>1, <2>2
<1>9. FeedTypeOK'
  <2>1. /\ source' \in [Sources -> [state : {"none", "height", "first", "ticking", "stopped", "failed"}, min : Nat]]
        /\ searches' \in Seq([of : Sources, min : Nat, waits : SUBSET Requests, at : Nat, found : SUBSET Tx])
    BY <1>6, <1>8 DEF SourceType, SearchType
  <2>2. feed' \in [stream : Feeds \cup {"none"}, query : [min : Nat, max : Nat]]
    BY <1>1, <1>q
  <2>3. owed' \subseteq Tx
    BY <1>1
  <2>4. listening' \in BOOLEAN
    BY <1>1
  <2> QED BY <1>t, <1>1, <2>1, <2>2, <2>3, <2>4 DEF FeedTypeOK
<1>10. StartInv'
  BY <1>2 DEF StartInv
<1>11. ASSUME NEW s \in Sources PROVE SourceInv(s)'
  <2>1. CASE s \in Active'
    <3>1. query.min <= query.min
      BY <1>q
    <3>2. stream = "ethereum listen" => owed' = {}
      BY <1>1
    <3> QED BY <2>1, <3>1, <3>2, <1>2, <1>4, <1>6 DEF SourceInv
  <2>2. CASE s \notin Active'
    BY <2>2, <1>6 DEF SourceInv
  <2> QED BY <2>1, <2>2
<1>12. SearchesInv'
  BY <1>2, <1>4, <1>6, <1>8 DEF SearchesInv
<1>13. InChain'
  BY <1>1, <1>2 DEF InChain, FeedInRange
<1>14. OnceInv'
  <2>1. stream = "lisk live" => \A n \in DOMAIN searches' : source'["node"].min <= searches'[n].min
    <3>1. query.min <= query.min
      BY <1>q
    <3>2. stream = "lisk live" => source'["node"].min = query.min
      BY <1>3, <1>4, <1>6
    <3> QED BY <3>1, <3>2, <1>8
  <2> QED BY <2>1, <1>1, <1>2, <1>8 DEF OnceInv, FeedOnce
<1>15. FeedComplete'
  <2> SUFFICES ASSUME NEW t \in owed', NEW s \in Active', txHeight'[t] \in query.min .. query.max
               PROVE  t \in Ahead(s)'
    BY <1>2 DEF FeedComplete
  <2>1. t \in Tx /\ source'[s].min = query.min
    BY <1>1, <1>4, <1>6
  <2>2. query.min <= txHeight'[t]
    <3>1. txHeight'[t] \in Nat
      <4>1. txHeight \in [Tx -> Nat] /\ txHeight' = txHeight
        BY <1>t, <1>1, FeedTypes
      <4> QED BY <4>1, <2>1
    <3>2. txHeight'[t] \in query.min .. query.max
      OBVIOUS
    <3> QED BY ONLY <3>1, <3>2, <1>q
  <2> QED BY <2>1, <2>2 DEF Ahead
<1> QED BY <1>9, <1>10, <1>11, <1>12, <1>13, <1>14, <1>15 DEF FeedInv


(* The results of a search are given to the listener, and minHeight moves   *)
(* past nothing that was not found.                                         *)
LEMMA SearchEndsKeeps ==
  ASSUME FeedInv, NEW f \in 1 .. FeedSlots, SearchEnds(f)
  PROVE  FeedInv'
<1>t. /\ FeedTypeOK /\ OnceInv /\ StartInv /\ (\A u \in Sources : SourceInv(u)) /\ InChain /\ SearchesInv
      /\ FeedComplete
  BY DEF FeedInv
<1>u. /\ source \in [Sources -> SourceType] /\ searches \in Seq(SearchType) /\ scraped \in 1 .. top
      /\ DOMAIN searches = 1 .. Len(searches) /\ Len(searches) \in Nat
      /\ top \in Nat /\ feed.query.min \in Nat /\ feed.query.max \in Nat
      /\ txHeight \in [Tx -> Nat] /\ (\A t \in Tx : txHeight[t] \in 0 .. top)
      /\ \A s \in Sources : source[s].min \in Nat
  BY <1>t, FeedTypes
<1> DEFINE r == searches[f]
           s == r.of
           m == NextMinHeight(source[s].min, r.found)
           src == [state |-> IF source[s].state = "first" THEN "ticking" ELSE source[s].state, min |-> m]
<1>1. /\ UNCHANGED <<feed, top, txHeight, scraped, owed, listening, feedOverlap, between>>
      /\ f <= Len(searches) /\ r.waits = {} /\ searches' = RemoveAt(searches, f)
      /\ given' = (IF listening THEN given \cup r.found ELSE given)
      /\ repeated' = (IF listening /\ feed.stream = "lisk live" THEN repeated \cup (given \cap r.found) ELSE repeated)
  BY DEF SearchEnds, Give, ledgerVars
<1>2. f \in DOMAIN searches /\ f \in 1 .. Len(searches)
  <2>1. f \in 1 .. Len(searches)
    <3>1. f \in 1 .. FeedSlots /\ FeedSlots \in Nat /\ Len(searches) \in Nat /\ f <= Len(searches)
      BY <1>1, <1>u, FeedAssumption
    <3> QED BY ONLY <3>1
  <2> QED BY <2>1, <1>u
<1>3. /\ r \in SearchType /\ s \in Sources /\ r.min \in Nat /\ r.found \subseteq Tx
      /\ s \in Active /\ source[s].state # "height" /\ SearchGood(r, txHeight, source, feed.query, between)
  <2>1. r \in SearchType /\ s \in Sources /\ r.min \in Nat /\ r.found \subseteq Tx
    BY <1>t, <1>2, FeedTypes
  <2>2. s \in Active /\ source[s].state # "height" /\ SearchGood(r, txHeight, source, feed.query, between)
    BY <1>t, <1>2 DEF SearchesInv
  <2> QED BY <2>1, <2>2
<1>4. source' = [source EXCEPT ![s] = src]
  BY <1>3, <1>u DEF SearchEnds
<1>5. source[s] \in SourceType /\ source[s].min \in Nat
  BY <1>3, <1>u
<1>x. feed.stream # "none"
  <2>1. searches # <<>>
    BY <1>2, <1>u
  <2> QED BY <2>1, <1>t DEF StartInv
<1> HIDE DEF r, s
<1>6. /\ m \in Nat /\ source[s].min <= m
      /\ \A t \in r.found : txHeight[t] < m
      /\ m = source[s].min \/ \E u \in r.found : m = txHeight[u] + 1
  BY <1>3, <1>5, <1>t, NextMin
<1> HIDE DEF m
<1>7. /\ src \in SourceType /\ src.min = m /\ src.state # "height"
      /\ src.state = "none" <=> source[s].state = "none"
      /\ src.state = "failed" <=> source[s].state = "failed"
  BY <1>3, <1>5, <1>6 DEF SourceType
<1> HIDE DEF src
<1>8. source' \in [Sources -> SourceType] /\ source'[s] = src /\ \A u \in Sources \ {s} : source'[u] = source[u]
  BY <1>3, <1>4, <1>7, <1>u
<1>9. /\ searches' \in Seq(SearchType) /\ Len(searches') = Len(searches) - 1
      /\ \A g \in DOMAIN searches' : \E h \in DOMAIN searches : h # f /\ searches'[g] = searches[h]
      /\ \A h \in DOMAIN searches \ {f} : \E g \in DOMAIN searches' : searches'[g] = searches[h]
  <2> DEFINE z == RemoveAt(searches, f)
  <2>1. /\ z \in Seq(SearchType) /\ Len(z) = Len(searches) - 1
        /\ \A g \in DOMAIN z : \E h \in DOMAIN searches : h # f /\ z[g] = searches[h]
        /\ \A h \in DOMAIN searches \ {f} : \E g \in DOMAIN z : z[g] = searches[h]
    BY <1>2, <1>u, RemoveAtElements
  <2>2. searches' = z
    BY <1>1
  <2> HIDE DEF z
  <2> QED BY <2>1, <2>2
<1>10. Active' = Active /\ Active \subseteq Sources
  <2>1. Active' = Active
    BY <1>1 DEF Active
  <2>2. Active \subseteq Sources
    BY ActiveSources DEF Active, Sources
  <2> QED BY <2>1, <2>2
<1>11. \A t \in r.found : txHeight[t] > 0 /\ txHeight[t] \in r.min .. feed.query.max /\ feed.query.min <= r.min
  BY <1>3 DEF SearchGood
<1>12. FeedTypeOK'
  <2>1. /\ source' \in [Sources -> [state : {"none", "height", "first", "ticking", "stopped", "failed"}, min : Nat]]
        /\ searches' \in Seq([of : Sources, min : Nat, waits : SUBSET Requests, at : Nat, found : SUBSET Tx])
    BY <1>8, <1>9 DEF SourceType, SearchType
  <2>2. given' \subseteq Tx /\ repeated' \subseteq given'
    BY <1>t, <1>1, <1>3 DEF FeedTypeOK
  <2> QED BY <1>t, <1>1, <2>1, <2>2 DEF FeedTypeOK
<1>13. StartInv'
  BY <1>1, <1>x DEF StartInv
<1>14. ASSUME NEW u \in Sources PROVE SourceInv(u)'
  <2>1. SourceInv(u)
    BY <1>t
  <2>2. CASE u # s
    BY <2>1, <2>2, <1>1, <1>8, <1>10 DEF SourceInv
  <2>3. CASE u = s
    <3>1. feed.query.min <= source[s].min /\ (source[s].min <= feed.query.min \/ source[s].min <= top + 1)
      BY <2>1, <2>3, <1>3, <1>x DEF SourceInv
    <3>2. feed.query.min <= m
      BY <3>1, <1>5, <1>6, <1>u
    <3>3. m <= feed.query.min \/ m <= top + 1
      <4>1. CASE m = source[s].min
        BY <3>1, <4>1
      <4>2. ASSUME NEW w \in r.found, m = txHeight[w] + 1 PROVE m <= top + 1
        <5>1. txHeight[w] \in 0 .. top
          BY <1>3, <1>u
        <5> QED BY <4>2, <5>1, <1>u
      <4> QED BY <4>1, <4>2, <1>6
    <3> QED BY <2>3, <3>2, <3>3, <1>1, <1>3, <1>7, <1>8, <1>10, <1>x DEF SourceInv
  <2> QED BY <2>2, <2>3
<1>15. SearchesInv'
  <2>1. \A u \in Sources : source[u].min <= source'[u].min
    <3>1. \A u \in Sources \ {s} : source[u].min <= source'[u].min
      BY <1>8, <1>u
    <3> QED BY <3>1, <1>6, <1>7, <1>8
  <2>2. \A u \in Sources : source'[u].state = "height" => source[u].state = "height"
    BY <1>7, <1>8
  <2>3. \A g \in DOMAIN searches' : \E h \in DOMAIN searches : searches'[g] = searches[h]
    BY <1>9
  <2>4. UNCHANGED <<feed, txHeight, top, between>>
    BY <1>1
  <2> QED BY <2>1, <2>2, <2>3, <2>4, <1>8, SearchesStay
<1>16. InChain'
  <2>1. \A t \in r.found : txHeight[t] > 0 /\ txHeight[t] \in feed.query.min .. feed.query.max
    <3> SUFFICES ASSUME NEW t \in r.found PROVE txHeight[t] > 0 /\ txHeight[t] \in feed.query.min .. feed.query.max
      OBVIOUS
    <3>1. txHeight[t] \in Nat /\ txHeight[t] > 0 /\ txHeight[t] \in r.min .. feed.query.max /\ feed.query.min <= r.min
      BY <1>3, <1>11, <1>u
    <3> QED BY ONLY <3>1, <1>3, <1>u
  <2> QED BY <2>1, <1>t, <1>1 DEF InChain, FeedInRange
<1>17. OnceInv'
  <2>1. CASE feed.stream = "lisk live" /\ feedOverlap
    BY <2>1, <1>1 DEF OnceInv, FeedOnce
  <2>2. CASE feed.stream # "lisk live"
    BY <2>2, <1>t, <1>1 DEF OnceInv, FeedOnce
  <2>3. CASE feed.stream = "lisk live" /\ ~feedOverlap
    <3>1. /\ Len(searches) <= 1 /\ source["node"].min <= r.min /\ repeated = {}
          /\ \A t \in given : txHeight[t] < source["node"].min
      BY <2>3, <1>t, <1>2 DEF OnceInv, FeedOnce, r
    <3>2. s = "node"
      BY <2>3, <1>3, ActiveSources DEF Active
    <3>3. given \cap r.found = {}
      <4> SUFFICES ASSUME NEW t \in given, t \in r.found PROVE FALSE
        OBVIOUS
      <4>1. txHeight[t] \in Nat /\ txHeight[t] \in r.min .. feed.query.max
        BY <1>3, <1>11, <1>u
      <4>2. txHeight[t] < source[s].min /\ source[s].min <= r.min
        BY <3>1, <3>2
      <4> QED BY ONLY <4>1, <4>2, <1>3, <1>5, <1>u
    <3>4. repeated' = {}
      BY <3>1, <3>3, <1>1
    <3>5. Len(searches') \in Nat /\ Len(searches') <= 0 /\ Len(searches') <= 1
      <4>1. Len(searches') \in Nat
        BY <1>9, LenProperties
      <4> QED BY ONLY <4>1, <3>1, <1>9, <1>u
    <3>6. DOMAIN searches' = {}
      <4>1. DOMAIN searches' = 1 .. Len(searches')
        BY <1>9, LenProperties
      <4>2. 1 .. Len(searches') = {}
        BY ONLY <3>5
      <4> QED BY <4>1, <4>2
    <3>7. \A t \in given' : txHeight[t] < source'["node"].min
      <4>1. source'["node"].min = m
        BY <3>2, <1>7, <1>8
      <4>2. ASSUME NEW t \in given PROVE txHeight[t] < m
        <5>1. t \in Tx
          BY <1>t DEF FeedTypeOK
        <5>2. txHeight[t] \in Nat /\ txHeight[t] < source[s].min
          BY <3>1, <3>2, <5>1, <1>u
        <5> QED BY ONLY <5>2, <1>5, <1>6
      <4>3. \A t \in given' : t \in given \/ t \in r.found
        BY <1>1
      <4> QED BY <4>1, <4>2, <4>3, <1>6
    <3> QED BY <3>4, <3>5, <3>6, <3>7, <1>1 DEF OnceInv, FeedOnce
  <2> QED BY <2>1, <2>2, <2>3
<1>18. FeedComplete'
  <2> SUFFICES ASSUME listening', NEW t \in owed' \ given', NEW v \in Active',
                      txHeight'[t] \in feed'.query.min .. feed'.query.max,
                      v = "node" \/ RequestsOf(v) \cap SourcesOf[t] # {}, source'[v].state # "failed",
                      v = "logs" => txHeight'[t] \notin between'
               PROVE  t \in Ahead(v)'
    BY DEF FeedComplete
  <2>1. v \in Sources /\ v \in Active /\ t \in owed /\ t \notin given /\ t \notin r.found /\ listening
    BY <1>1, <1>10
  <2>2. source[v].state # "failed"
    <3>1. CASE v # s
      BY <2>1, <3>1, <1>8
    <3>2. CASE v = s
      BY <3>2, <1>7, <1>8
    <3> QED BY <3>1, <3>2
  <2>3. t \in Ahead(v)
    BY <2>1, <2>2, <1>t, <1>1 DEF FeedComplete
  <2>4. t \in Tx /\ txHeight[t] > 0 /\ txHeight[t] \in Nat /\ txHeight' = txHeight
    <3>1. t \in Tx /\ txHeight[t] > 0
      BY <2>1, <1>t DEF InChain, FeedTypeOK
    <3> QED BY <3>1, <1>1, <1>u
  <2>6. source[v].min <= txHeight[t]
    BY <2>3 DEF Ahead
  <2>7. t \in Ahead(v)'
    <3>1. CASE v # s
      <4>1. source'[v].min <= txHeight'[t]
        BY <2>1, <2>4, <2>6, <3>1, <1>8
      <4> QED BY <2>4, <4>1 DEF Ahead
    <3>2. CASE v = s
      <4>1. ASSUME NEW w \in r.found, m = txHeight[w] + 1, ~(m <= txHeight[t]) PROVE FALSE
        <5>1. w \in Tx /\ txHeight[w] \in Nat
          BY <1>3, <1>u
        <5>2. txHeight[t] <= txHeight[w]
          BY ONLY <4>1, <5>1, <2>4
        <5>3. r.min <= source[s].min
          BY <1>3 DEF SearchGood, s
        <5>4. txHeight[t] \in feed.query.min .. feed.query.max
          BY <2>4, <1>1
        <5>5. txHeight[t] \in r.min .. feed.query.max
          <6>1. source[s].min <= txHeight[t]
            BY <2>6, <3>2
          <6> QED BY ONLY <5>3, <5>4, <6>1, <2>4, <1>3, <1>5, <1>u
        <5>6. Seen(Answered(r), t)
          <6>1. Answered(r) = RequestsOf(s) /\ ("node" = s => "node" \in RequestsOf(s))
            BY <1>1 DEF Answered, RequestsOf, s
          <6> QED BY <6>1, <3>2 DEF Seen
        <5>9. s = "logs" => txHeight[t] \notin between
          BY <3>2, <2>4, <1>1
        <5>7. 0 < txHeight[t]
          BY <2>4
        <5>8. t \in r.found
          BY <5>2, <5>5, <5>6, <5>7, <5>9, <2>4, <1>3 DEF SearchGood, NoHole, s
        <5> QED BY <5>8, <2>1
      <4>2. m <= txHeight[t]
        <5>1. CASE m = source[s].min
          BY <5>1, <2>6, <3>2
        <5> QED BY <4>1, <5>1, <1>6
      <4>3. source'[v].min <= txHeight'[t]
        BY <4>2, <3>2, <2>4, <1>7, <1>8
      <4> QED BY <2>4, <4>3 DEF Ahead
    <3> QED BY <3>1, <3>2
  <2> QED BY <2>7
<1> QED BY <1>12, <1>13, <1>14, <1>15, <1>16, <1>17, <1>18 DEF FeedInv

-----------------------------------------------------------------------------
(* The invariant holds before the stream is asked for. *)
LEMMA FeedInvInit ==
  ASSUME FeedInit
  PROVE  FeedInv
<1>1. FeedTypeOK
  <2>1. feed \in [stream : Feeds \cup {"none"}, query : [min : Nat, max : Nat]]
    BY DEF FeedInit
  <2>2. top \in 1 .. FeedHeight /\ scraped \in 1 .. top /\ txHeight \in [Tx -> 0 .. top]
    BY FeedAssumption DEF FeedInit
  <2>3. source \in [Sources -> [state : {"none", "height", "first", "ticking", "stopped", "failed"}, min : Nat]]
    BY DEF FeedInit
  <2>4. searches \in Seq([of : Sources, min : Nat, waits : SUBSET Requests, at : Nat, found : SUBSET Tx])
    BY EmptySeq DEF FeedInit
  <2>5. listening \in BOOLEAN /\ feedOverlap \in BOOLEAN /\ between \subseteq 1 .. top
    BY DEF FeedInit
  <2> QED BY <2>1, <2>2, <2>3, <2>4, <2>5 DEF FeedTypeOK, FeedInit
<1>2. feed.stream = "none" /\ searches = <<>> /\ given = {} /\ repeated = {} /\ owed = {} /\ listening = FALSE
  BY DEF FeedInit
<1>3. StartInv /\ InChain /\ FeedComplete
  BY <1>2 DEF StartInv, InChain, FeedInRange, FeedComplete
<1>4. ASSUME NEW s \in Sources PROVE SourceInv(s)
  <2>1. source[s].state = "none"
    BY DEF FeedInit
  <2> QED BY <2>1, <1>2 DEF SourceInv
<1>5. DOMAIN searches = {}
  BY <1>2, EmptySeq
<1>6. SearchesInv /\ OnceInv
  BY <1>2, <1>5 DEF SearchesInv, OnceInv, FeedOnce
<1> QED BY <1>1, <1>3, <1>4, <1>6 DEF FeedInv

(* Every step keeps the invariant. *)
LEMMA FeedInvNext ==
  ASSUME FeedInv, [FeedNext]_feedVars
  PROVE  FeedInv'
<1>1. CASE UNCHANGED feedVars
  <2>1. UNCHANGED <<feed, top, txHeight, scraped, source, searches, given, repeated, owed, listening, feedOverlap, between>>
    BY <1>1 DEF feedVars, ledgerVars, outVars
  <2>2. FeedTypeOK' /\ StartInv' /\ InChain' /\ OnceInv'
    BY <2>1 DEF FeedInv, FeedTypeOK, StartInv, InChain, OnceInv, FeedOnce, FeedInRange
  <2>3. \A s \in Sources : SourceInv(s)'
    BY <2>1 DEF FeedInv, SourceInv, Active
  <2>4. SearchesInv'
    BY <2>1 DEF FeedInv, SearchesInv, Active
  <2>5. FeedComplete'
    BY <2>1 DEF FeedInv, FeedComplete, Active, Ahead
  <2> QED BY <2>2, <2>3, <2>4, <2>5 DEF FeedInv
<1>2. ASSUME NEW stream \in Feeds, NEW query \in Queries, StartFeed(stream, query) PROVE FeedInv'
  BY <1>2, StartFeedKeeps
<1>3. ASSUME NEW s \in Sources, HeightKnown(s) \/ StartFails(s) \/ SearchAgain(s) PROVE FeedInv'
  BY <1>3, HeightKnownKeeps, StartFailsKeeps, SearchAgainKeeps
<1>4. ASSUME NEW f \in 1 .. FeedSlots, (\E q \in Requests : SourceAnswers(f, q)) \/ SearchEnds(f) \/ SearchFails(f) PROVE FeedInv'
  BY <1>4, SourceAnswersKeeps, SearchEndsKeeps, SearchFailsKeeps
<1>5. CASE BlockComes \/ ScraperFollows \/ StopFeed
  BY <1>5, BlockComesKeeps, ScraperFollowsKeeps, StopFeedKeeps
<1> QED BY <1>1, <1>2, <1>3, <1>4, <1>5 DEF FeedNext

(* The invariant holds throughout. *)
LEMMA FeedInvHolds == FeedSpec => []FeedInv
<1>1. FeedInit => FeedInv
  BY FeedInvInit
<1>2. FeedInv /\ [FeedNext]_feedVars => FeedInv'
  BY FeedInvNext
<1> QED BY <1>1, <1>2, PTL DEF FeedSpec

(* Type correctness of the sources, the searches and what was given. *)
THEOREM FeedTypeCorrect == FeedSpec => []FeedTypeOK
<1>1. FeedInv => FeedTypeOK
  BY DEF FeedInv
<1> QED BY <1>1, FeedInvHolds, PTL

(* liveTx() and listenTx() give the transactions of an address exactly:     *)
(* none twice, none outside of the query, and none that a started source    *)
(* knows is left behind, whatever answers come late, the scraper lags or    *)
(* searches fail; but for transfers in blocks between the two answers of a  *)
(* search of the logs, which minHeight does move past.                      *)
THEOREM FeedStaysExact == FeedSpec => []FeedIsExact
<1>1. FeedInv => FeedIsExact
  BY DEF FeedInv, FeedIsExact, InChain, OnceInv
<1> QED BY <1>1, FeedInvHolds, PTL

=============================================================================
