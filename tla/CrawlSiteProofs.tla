--------------------------- MODULE CrawlSiteProofs ---------------------------
(***************************************************************************)
(* What holds of the crawl of the real executor for every site and every   *)
(* limit: its type invariant, that it stays within its limits, that the    *)
(* status it reports fits the pages it reports, and that a crawl that      *)
(* empties its queue has reached every page within its depth.              *)
(***************************************************************************)
EXTENDS CrawlSite, FiniteSetTheorems, TLAPS

-----------------------------------------------------------------------------
(* Recursion. An operator cannot be passed to an induction theorem, so a   *)
(* recursive function is unfolded by way of a least counterexample.        *)

\* Every non-empty set of naturals has a least member.
LEMMA LeastNatural ==
    ASSUME NEW T \in SUBSET Nat, T # {}
    PROVE  \E m \in T : \A n \in T : m <= n
<1> DEFINE I == { 0..n : n \in T }
<1>1. I \subseteq FiniteSubsetsOf(Nat)
  <2>1. ASSUME NEW n \in T
        PROVE  0..n \in FiniteSubsetsOf(Nat)
    <3>1. 0 \in Int /\ n \in Int
      OBVIOUS
    <3>2. IsFiniteSet(0..n)
      BY <3>1, FS_Interval
    <3>3. 0..n \in SUBSET Nat
      OBVIOUS
    <3> QED BY <3>2, <3>3 DEF FiniteSubsetsOf
  <2> QED BY <2>1
<1>2. PICK x \in I : \A y \in I : ~(<<y, x>> \in StrictSubsetOrdering(Nat))
  <2> HIDE DEF I
  <2>1. I # {}
    BY DEF I
  <2> QED BY <1>1, <2>1, FS_StrictSubsetOrderingWellFounded, WFMin
<1>3. PICK m \in T : x = 0..m
  OBVIOUS
<1>4. ASSUME NEW n \in T, n < m
      PROVE  FALSE
  <2>1. 0..n \in SUBSET Nat /\ 0..m \in SUBSET Nat
    OBVIOUS
  <2>2. 0..n \subseteq 0..m
    BY <1>4
  <2>3. m \in 0..m /\ m \notin 0..n
    BY <1>4
  <2>4. 0..n \in I
    OBVIOUS
  <2>5. <<0..n, 0..m>> \in StrictSubsetOrdering(Nat)
    <3>1. 0..n # 0..m
      BY <2>3
    <3> HIDE DEF I
    <3> DEFINE a == 0..n
               b == 0..m
    <3>2. a \in SUBSET Nat /\ b \in SUBSET Nat /\ a \subseteq b /\ a # b
      BY <2>1, <2>2, <3>1
    <3> HIDE DEF a, b
    <3>3. <<a, b>> \in StrictSubsetOrdering(Nat)
      BY <3>2 DEF StrictSubsetOrdering
    <3> QED BY <3>3 DEF a, b
  <2> QED BY <1>2, <1>3, <2>4, <2>5
<1>5. \A n \in T : m <= n
  BY <1>4
<1> QED BY <1>5

\* A step for each index, from a value to the next, and what follows them.
StepsOf(V, n) == [1..n -> [V -> V]]
Follows(f, V, v0, n, G) ==
    f \in [0..n -> V] /\ f[0] = v0 /\ \A i \in 1..n : f[i] = G[i][f[i - 1]]

\* The steps define a function on 0..n.
LEMMA PrimitiveRecursion ==
    ASSUME NEW V, NEW v0 \in V, NEW n \in Nat, NEW G \in StepsOf(V, n)
    PROVE  \E f : Follows(f, V, v0, n, G)
<1> USE DEF StepsOf
<1> DEFINE Ok(k) == \E f \in [0..k -> V] :
                       f[0] = v0 /\ \A i \in 1..k : f[i] = G[i][f[i - 1]]
           Bad == { k \in 0..n : ~Ok(k) }
<1>1. Ok(0)
  <2> DEFINE f == [i \in 0..0 |-> v0]
  <2>1. f \in [0..0 -> V] /\ f[0] = v0 /\ 1..0 = {}
    OBVIOUS
  <2> QED BY <2>1
<1>2. ASSUME NEW k \in 1..n, Ok(k - 1)
      PROVE  Ok(k)
  <2>1. PICK f \in [0..(k - 1) -> V] :
           f[0] = v0 /\ \A i \in 1..(k - 1) : f[i] = G[i][f[i - 1]]
    BY <1>2
  <2> DEFINE g == [i \in 0..k |-> IF i = k THEN G[k][f[k - 1]] ELSE f[i]]
  <2>2. G[k][f[k - 1]] \in V
    OBVIOUS
  <2>3. g \in [0..k -> V]
    BY <2>2
  <2>4. g[0] = v0
    BY <2>1
  <2>5. ASSUME NEW i \in 1..k
        PROVE  g[i] = G[i][g[i - 1]]
    <3>1. i - 1 \in 0..(k - 1) /\ g[i - 1] = f[i - 1]
      OBVIOUS
    <3>2. CASE i = k
      BY <3>1, <3>2
    <3>3. CASE i # k
      BY <2>1, <3>1, <3>3
    <3> QED BY <3>2, <3>3
  <2> HIDE DEF g
  <2> QED BY <2>3, <2>4, <2>5
<1> HIDE DEF Ok
<1>3. Bad = {}
  <2> SUFFICES ASSUME Bad # {}
               PROVE  FALSE
    OBVIOUS
  <2>1. PICK k \in Bad : \A j \in Bad : k <= j
    <3>1. Bad \in SUBSET Nat
      OBVIOUS
    <3> HIDE DEF Bad
    <3> QED BY <3>1, LeastNatural
  <2>2. k # 0
    BY <1>1
  <2>3. k - 1 \in 0..n /\ k - 1 \notin Bad /\ k \in 1..n
    BY <2>1, <2>2
  <2>4. Ok(k - 1)
    BY <2>3
  <2> QED BY <1>2, <2>3, <2>4
<1>4. Ok(n)
  BY <1>3
<1> QED BY <1>4 DEF Ok, Follows

\* What the function in Kept must equal; e is <<>>.
KeptStep(f, s, W, n, e) ==
    [i \in 0..n |-> IF i = 0 THEN e
                    ELSE IF s[i] \in W THEN Append(f[i - 1], s[i]) ELSE f[i - 1]]

\* A function as Kept defines it exists.
LEMMA KeptIsDefined ==
    ASSUME NEW S, NEW W, NEW s \in Seq(S), NEW n, n = Len(s), NEW e, e = <<>>
    PROVE  \E f : f = KeptStep(f, s, W, n, e)
<1> DEFINE V == Seq(S \cap W)
           Add(i, v) == IF s[i] \in W THEN Append(v, s[i]) ELSE v
           G == [i \in 1..n |-> [v \in V |-> Add(i, v)]]
           Step(f) == [i \in 0..n |-> IF i = 0 THEN e ELSE Add(i, f[i - 1])]
<1>0. n \in Nat /\ s \in [1..n -> S]
  OBVIOUS
<1>1. \A i \in 1..n, v \in V : Add(i, v) \in V
  BY <1>0
<1>2. G \in StepsOf(V, n)
  <2> HIDE DEF Add, V
  <2> QED BY <1>1 DEF StepsOf
<1>3. PICK g : Follows(g, V, e, n, G)
  <2>1. e \in V
    OBVIOUS
  <2>2. n \in Nat
    BY <1>0
  <2> HIDE DEF G, V
  <2> QED BY <1>2, <2>1, <2>2, PrimitiveRecursion
<1>4. \A i \in 1..n : g[i - 1] \in V /\ g[i] = Add(i, g[i - 1])
  <2> TAKE i \in 1..n
  <2>1. i - 1 \in 0..n
    OBVIOUS
  <2>2. g[i - 1] \in V
    BY <1>3, <2>1 DEF Follows
  <2> HIDE DEF Add, V
  <2> QED BY <1>3, <2>2 DEF Follows
<1>5. g = Step(g)
  <2> HIDE DEF Add, V
  <2> QED BY <1>3, <1>4 DEF Follows
<1> QED BY <1>5 DEF KeptStep

\* Kept(s, W) is a sequence of the members of s that are in W.
LEMMA KeptMembers ==
    ASSUME NEW S, NEW W, NEW s \in Seq(S)
    PROVE  /\ Kept(s, W) \in Seq(S \cap W)
           /\ Range(Kept(s, W)) = Range(s) \cap W
<1> DEFINE V == Seq(S \cap W)
           k == CHOOSE f : f = [i \in 0..Len(s) |->
                   IF i = 0 THEN <<>>
                   ELSE IF s[i] \in W THEN Append(f[i - 1], s[i]) ELSE f[i - 1]]
<1>1. PICK n \in Nat : n = Len(s)
  OBVIOUS
<1>2. s \in [1..n -> S]
  BY <1>1
<1>3. Kept(s, W) = k[n]
  BY <1>1 DEF Kept
<1> DEFINE Add(i, v) == IF s[i] \in W THEN Append(v, s[i]) ELSE v
<1>4. PICK e : e = <<>>
  OBVIOUS
<1>5. e \in Seq(S \cap W)
  BY <1>4
<1>6. \E f : f = KeptStep(f, s, W, n, e)
  BY <1>1, <1>4, KeptIsDefined
<1>7. k = [i \in 0..n |-> IF i = 0 THEN e ELSE Add(i, k[i - 1])]
  BY <1>1, <1>4, <1>6 DEF KeptStep
<1> HIDE DEF k, Add
<1>8. k[0] = e /\ \A i \in 1..n : k[i] = Add(i, k[i - 1])
  BY <1>7
<1> DEFINE Seen(i) == { s[j] : j \in 1..i }
           Good(i) == k[i] \in V /\ Range(k[i]) = Seen(i) \cap W
           Bad == { i \in 0..n : ~Good(i) }
<1>9. Good(0)
  <2>1. Range(<<>>) = {} /\ Seen(0) = {} /\ <<>> \in V
    BY DEF Range
  <2> HIDE DEF V, Seen
  <2> QED BY <1>4, <1>8, <2>1
<1>10. ASSUME NEW i \in 1..n, Good(i - 1)
      PROVE  Good(i)
  <2>1. Seen(i) = Seen(i - 1) \cup {s[i]}
    OBVIOUS
  <2>2. CASE s[i] \in W
    <3>1. k[i] = Append(k[i - 1], s[i])
      BY <1>8, <2>2 DEF Add
    <3>2. s[i] \in S \cap W
      BY <1>2, <2>2
    <3>3. k[i] \in V
      BY <1>10, <3>1, <3>2
    <3>4. Range(k[i]) = Range(k[i - 1]) \cup {s[i]}
      <4>1. PICK q \in V : q = k[i - 1]
        BY <1>10
      <4>2. \A c \in S \cap W : Range(Append(q, c)) = Range(q) \cup {c}
        <5> TAKE c \in S \cap W
        <5>1. /\ DOMAIN Append(q, c) = 1..(Len(q) + 1) /\ DOMAIN q = 1..Len(q) /\ Len(q) \in Nat
              /\ Append(q, c)[Len(q) + 1] = c
              /\ \A j \in 1..Len(q) : Append(q, c)[j] = q[j]
          OBVIOUS
        <5> QED BY <5>1 DEF Range
      <4> QED BY <3>1, <3>2, <4>1, <4>2
    <3> HIDE DEF V, Seen
    <3> QED BY <1>10, <2>1, <2>2, <3>3, <3>4
  <2>3. CASE s[i] \notin W
    <3>1. k[i] = k[i - 1]
      BY <1>8, <2>3 DEF Add
    <3> HIDE DEF V, Seen
    <3> QED BY <1>10, <2>1, <2>3, <3>1
  <2> QED BY <2>2, <2>3
<1> HIDE DEF Good
<1>11. Bad = {}
  <2> SUFFICES ASSUME Bad # {}
               PROVE  FALSE
    OBVIOUS
  <2>1. PICK i \in Bad : \A j \in Bad : i <= j
    <3>1. Bad \in SUBSET Nat
      OBVIOUS
    <3> HIDE DEF Bad
    <3> QED BY <3>1, LeastNatural
  <2>2. i # 0
    BY <1>9
  <2>3. i \in 1..n /\ i - 1 \in 0..n /\ i - 1 \notin Bad
    BY <2>1, <2>2
  <2>4. Good(i - 1)
    BY <2>3
  <2> QED BY <1>10, <2>3, <2>4
<1>12. Good(n)
  BY <1>11
<1>13. Seen(n) = Range(s)
  BY <1>2 DEF Range
<1> QED BY <1>3, <1>12, <1>13 DEF Good

\* Within, unfolded.
LEMMA WithinUnfolds ==
    ASSUME TypeOK
    PROVE  /\ Within \in [0..MaxDepth -> SUBSET Urls]
           /\ Within[0] = {Home}
           /\ \A d \in 1..MaxDepth :
                 Within[d] = Within[d - 1] \cup UNION { links[url] : url \in Within[d - 1] }
<1> DEFINE V == SUBSET Urls
           Out(v) == v \cup UNION { links[url] : url \in v }
           G == [d \in 1..MaxDepth |-> [v \in V |-> Out(v)]]
           Step(f) == [d \in 0..MaxDepth |-> IF d = 0 THEN {Home}
                          ELSE f[d - 1] \cup UNION { links[url] : url \in f[d - 1] }]
<1>1. MaxDepth \in Nat /\ {Home} \in V
  BY CrawlAssumption
<1>2. \A v \in V : Out(v) \in V
  BY DEF TypeOK
<1>3. G \in StepsOf(V, MaxDepth)
  BY <1>2 DEF StepsOf
<1>4. PICK g : Follows(g, V, {Home}, MaxDepth, G)
  <2> HIDE DEF V, G
  <2> QED BY <1>1, <1>3, PrimitiveRecursion
<1>5. \A d \in 1..MaxDepth : g[d - 1] \in V /\ g[d] = Out(g[d - 1])
  <2> TAKE d \in 1..MaxDepth
  <2>1. d - 1 \in 0..MaxDepth
    BY <1>1
  <2>2. g[d - 1] \in V
    BY <1>4, <2>1 DEF Follows
  <2> HIDE DEF V, Out
  <2> QED BY <1>4, <2>2 DEF Follows
<1>6. g = Step(g)
  BY <1>4, <1>5 DEF Follows
<1>7. Within = Step(Within)
  BY <1>6 DEF Within
<1>8. Within[0] = {Home} /\ \A d \in 1..MaxDepth : Within[d] = Out(Within[d - 1])
  BY <1>1, <1>7
<1> DEFINE Bad == { d \in 0..MaxDepth : Within[d] \notin V }
<1>9. Bad = {}
  <2> SUFFICES ASSUME Bad # {}
               PROVE  FALSE
    OBVIOUS
  <2>1. PICK d \in Bad : \A e \in Bad : d <= e
    <3>1. Bad \in SUBSET Nat
      BY <1>1
    <3> HIDE DEF Bad
    <3> QED BY <3>1, LeastNatural
  <2>2. d # 0
    BY <1>1, <1>8
  <2>3. d \in 1..MaxDepth /\ d - 1 \in 0..MaxDepth /\ d - 1 \notin Bad
    BY <1>1, <2>1, <2>2
  <2>4. Within[d - 1] \in V
    BY <2>3
  <2>5. Within[d] = Out(Within[d - 1])
    BY <1>8, <2>3
  <2>6. Out(Within[d - 1]) \in V
    BY <1>2, <2>4
  <2> HIDE DEF Out, V
  <2> QED BY <2>1, <2>5, <2>6
<1>10. Within \in [0..MaxDepth -> V]
  <2>1. \A d \in 0..MaxDepth : Within[d] \in V
    BY <1>9
  <2> QED BY <1>7, <2>1
<1> QED BY <1>8, <1>10

-----------------------------------------------------------------------------
(* The type invariant.                                                     *)

Page == [url : Urls, depth : 0..MaxDepth]
Result == [url : Urls, status : {"passed", "failed", "blocked"}]

LEMMA HrefsAreUrls ==
    ASSUME NEW hrefs \in Hrefs
    PROVE  hrefs \in Seq(Urls) /\ Range(hrefs) \subseteq Urls
<1>1. hrefs \in Seq(Urls)
  BY DEF Hrefs, SeqOf
<1> QED BY <1>1 DEF Range

\* Every place of the queue holds a page.
LEMMA PageTypes ==
    ASSUME TypeOK, NEW i \in DOMAIN queue
    PROVE  queue[i].url \in Urls /\ queue[i].depth \in 0..MaxDepth /\ i \in Nat
<1>1. queue \in Seq(Page)
  BY DEF TypeOK, Page
<1>2. queue[i] \in Page /\ i \in Nat
  BY <1>1
<1> QED BY <1>2 DEF Page

\* What Enqueue does to the queue: the links that were not visited come last,
\* one level deeper than the page they are on.
LEMMA QueueGrows ==
    ASSUME TypeOK, NEW hrefs \in Hrefs, MayDiscover, Enqueue(DiscoverLinks(hrefs)),
           current.url \in Urls
    PROVE  /\ queue' \in Seq(Page)
           /\ \A i \in DOMAIN queue : i \in DOMAIN queue' /\ queue'[i] = queue[i]
           /\ \A i \in DOMAIN queue' \ DOMAIN queue :
                 /\ queue'[i].depth = current.depth + 1
                 /\ queue'[i].url \in Range(hrefs) \ (Skipped \cup visited)
                 /\ \A j \in DOMAIN queue : j < i
           /\ \A url \in Range(hrefs) \ (Skipped \cup visited) :
                 \E i \in DOMAIN queue' : queue'[i] = OneDeeper(url)
<1> DEFINE W == Urls \ (Skipped \cup visited)
           found == Kept(hrefs, W)
           tail == [i \in DOMAIN found |-> OneDeeper(found[i])]
<1>1. found \in Seq(Urls \cap W) /\ Range(found) = Range(hrefs) \cap W
  BY HrefsAreUrls, KeptMembers
<1>2. found \in Seq(Urls) /\ Range(found) = Range(hrefs) \ (Skipped \cup visited)
  <2>1. Urls \cap W = W
    OBVIOUS
  <2>2. W \subseteq Urls
    OBVIOUS
  <2> HIDE DEF found
  <2> QED BY <1>1, <2>1, <2>2, HrefsAreUrls
<1>3. current.depth \in Nat /\ current.depth + 1 \in 0..MaxDepth
  BY CrawlAssumption DEF TypeOK, MayDiscover
<1>4. queue' = queue \o tail
  BY DEF Enqueue, DiscoverLinks
<1> HIDE DEF found
<1>5. tail \in Seq(Page) /\ Len(tail) = Len(found) /\ \A i \in 1..Len(found) : tail[i] = OneDeeper(found[i])
  <2>1. Len(found) \in Nat /\ DOMAIN found = 1..Len(found)
    BY <1>2
  <2>2. \A i \in 1..Len(found) : OneDeeper(found[i]) \in Page
    <3>1. \A i \in 1..Len(found) : found[i] \in Urls
      BY <1>2
    <3> QED BY <1>3, <3>1 DEF OneDeeper, Page
  <2>3. tail = [i \in 1..Len(found) |-> OneDeeper(found[i])]
    BY <2>1
  <2> QED BY <2>1, <2>2, <2>3
<1>6. queue \in Seq(Page)
  BY DEF TypeOK, Page
<1> HIDE DEF tail
<1>7. /\ queue' \in Seq(Page)
      /\ Len(queue) \in Nat /\ Len(found) \in Nat
      /\ DOMAIN queue = 1..Len(queue) /\ DOMAIN queue' = 1..(Len(queue) + Len(found))
      /\ \A i \in 1..(Len(queue) + Len(found)) :
            queue'[i] = IF i <= Len(queue) THEN queue[i] ELSE tail[i - Len(queue)]
  <2>1. Len(found) \in Nat
    BY <1>2
  <2>2. queue \o tail \in Seq(Page)
    BY <1>5, <1>6
  <2>3. /\ Len(queue) \in Nat /\ DOMAIN queue = 1..Len(queue)
        /\ Len(queue \o tail) = Len(queue) + Len(tail)
        /\ DOMAIN (queue \o tail) = 1..Len(queue \o tail)
    BY <1>5, <1>6, <2>2
  <2>4. \A i \in 1..(Len(queue) + Len(tail)) :
           (queue \o tail)[i] = IF i <= Len(queue) THEN queue[i] ELSE tail[i - Len(queue)]
    BY <1>5, <1>6
  <2> QED BY <1>4, <1>5, <2>1, <2>2, <2>3, <2>4
<1>8. ASSUME NEW i \in DOMAIN queue' \ DOMAIN queue
      PROVE  /\ queue'[i].depth = current.depth + 1
             /\ queue'[i].url \in Range(hrefs) \ (Skipped \cup visited)
             /\ \A j \in DOMAIN queue : j < i
  <2>1. i - Len(queue) \in 1..Len(found) /\ ~(i <= Len(queue))
    BY <1>7
  <2>2. queue'[i] = OneDeeper(found[i - Len(queue)])
    BY <1>5, <1>7, <2>1
  <2>3. found[i - Len(queue)] \in Range(found)
    BY <1>2, <2>1 DEF Range
  <2>4. \A j \in DOMAIN queue : j < i
    BY <1>7, <2>1
  <2> QED BY <1>2, <2>2, <2>3, <2>4 DEF OneDeeper
<1>9. ASSUME NEW url \in Range(hrefs) \ (Skipped \cup visited)
      PROVE  \E i \in DOMAIN queue' : queue'[i] = OneDeeper(url)
  <2>1. PICK j \in 1..Len(found) : found[j] = url
    BY <1>2 DEF Range
  <2>2. /\ j + Len(queue) \in 1..(Len(queue) + Len(found))
        /\ ~(j + Len(queue) <= Len(queue)) /\ (j + Len(queue)) - Len(queue) = j
    BY <1>7
  <2>3. queue'[j + Len(queue)] = OneDeeper(url)
    BY <1>5, <1>7, <2>1, <2>2
  <2> QED BY <1>7, <2>2, <2>3
<1>10. \A i \in DOMAIN queue : i \in DOMAIN queue' /\ queue'[i] = queue[i]
  BY <1>7
<1> QED BY <1>7, <1>8, <1>9, <1>10

\* What Tail does to the queue.
LEMMA QueueShrinks ==
    ASSUME TypeOK, queue # <<>>, queue' = Tail(queue)
    PROVE  /\ queue' \in Seq(Page)
           /\ 1 \in DOMAIN queue /\ Head(queue) = queue[1] /\ Head(queue) \in Page
           /\ \A i \in DOMAIN queue : i = 1 \/ (i - 1 \in DOMAIN queue' /\ queue'[i - 1] = queue[i])
           /\ \A i \in DOMAIN queue' : i + 1 \in DOMAIN queue /\ queue'[i] = queue[i + 1]
<1>1. queue \in Seq(Page)
  BY DEF TypeOK, Page
<1>2. /\ Len(queue) \in Nat /\ Len(queue) # 0 /\ DOMAIN queue = 1..Len(queue)
      /\ \A i \in 1..Len(queue) : queue[i] \in Page
  BY <1>1
<1>3. /\ Tail(queue) \in Seq(Page) /\ DOMAIN Tail(queue) = 1..(Len(queue) - 1)
      /\ \A i \in 1..(Len(queue) - 1) : Tail(queue)[i] = queue[i + 1]
      /\ Head(queue) = queue[1]
  BY <1>1, <1>2
<1> QED BY <1>2, <1>3

\* The result of the current page comes last.
LEMMA ResultsGrow ==
    ASSUME TypeOK, NEW status \in {"passed", "failed"}, AddResult(status),
           current.url \in Urls
    PROVE  /\ results' \in Seq(Result) /\ Len(results') = Len(results) + 1
           /\ \A i \in DOMAIN results : results'[i] = results[i]
           /\ DOMAIN results' = DOMAIN results \cup {Len(results) + 1}
           /\ results'[Len(results) + 1] = [url |-> current.url, status |-> status]
           /\ CheckedUrls' = CheckedUrls \cup {current.url}
<1> DEFINE r == [url |-> current.url, status |-> status]
<1>1. results \in Seq(Result) /\ r \in Result
  BY DEF TypeOK, Result
<1>2. results' = Append(results, r)
  BY DEF AddResult
<1>3. r.url = current.url
  OBVIOUS
<1> HIDE DEF r
<1>4. /\ results' \in Seq(Result) /\ Len(results') = Len(results) + 1
      /\ Len(results) \in Nat
      /\ DOMAIN results = 1..Len(results) /\ DOMAIN results' = 1..(Len(results) + 1)
      /\ \A i \in 1..Len(results) : results'[i] = results[i]
      /\ results'[Len(results) + 1] = r
  BY <1>1, <1>2
<1>5. DOMAIN results' = DOMAIN results \cup {Len(results) + 1}
  BY <1>4
<1>6. CheckedUrls' = CheckedUrls \cup {current.url}
  BY <1>3, <1>4, <1>5 DEF CheckedUrls
<1> QED BY <1>4, <1>5, <1>6 DEF r

Checking == pc \in { "progress", "check" }
Running == pc # "done"

\* A page is checked: there is one.
TypeInv == TypeOK /\ (Checking => current.url \in Urls)

THEOREM TypesInvariant == Spec => []TypeInv
<1>1. Init => TypeInv
  <2> SUFFICES ASSUME Init
               PROVE  TypeInv
    OBVIOUS
  <2> DEFINE first == [url |-> Home, depth |-> 0]
  <2>1. first \in Page /\ NoPage \in [url : Urls \cup {None}, depth : 0..MaxDepth]
    BY CrawlAssumption DEF Page, NoPage
  <2> HIDE DEF first
  <2>2. <<first>> \in Seq(Page)
    BY <2>1
  <2>3. queue \in Seq(Page)
    BY <2>2 DEF Init, first
  <2>4. results \in Seq(Result)
    BY DEF Init
  <2>5. current \in [url : Urls \cup {None}, depth : 0..MaxDepth]
    BY <2>1 DEF Init
  <2>6. links \in [Urls -> SUBSET (Urls \ Skipped)]
    BY DEF Init
  <2>7. pc = "resolve" /\ report = "none" /\ visited = {} /\ maxPages \in 1..MaxPages
    BY DEF Init, ReadCrawlLimits
  <2>8. {blocked, cancelled, aborted, expired} \subseteq BOOLEAN
    BY DEF Init
  <2> QED BY <2>3, <2>4, <2>5, <2>6, <2>7, <2>8
        DEF TypeInv, TypeOK, Page, Result, Steps, Reports, Checking
<1>2. TypeInv /\ [Next]_vars => TypeInv'
  <2> SUFFICES ASSUME TypeInv, [Next]_vars
               PROVE  TypeInv'
    OBVIOUS
  <2> USE DEF TypeInv, Steps, Reports, Checking
  <2>1. CASE ResolveTarget
    BY <2>1 DEF ResolveTarget, Return, TypeOK
  <2>2. CASE LaunchBrowser
    <3>1. results' \in Seq(Result)
      <4>1. results \in Seq(Result) /\ <<>> \in Seq(Result)
        BY DEF TypeOK, Result
      <4> QED BY <2>2, <4>1 DEF LaunchBrowser, CatchAll
    <3>2. pc' \in {"loop", "done"} /\ report' \in Reports
      BY <2>2 DEF LaunchBrowser, CatchAll, Return, TypeOK
    <3>3. UNCHANGED <<maxPages, queue, visited, current, blocked, cancelled, links, aborted, expired>>
      BY <2>2 DEF LaunchBrowser
    <3> QED BY <2>2, <3>1, <3>2, <3>3 DEF LaunchBrowser, TypeOK, Result
  <2>3. ASSUME NEW stopped \in BOOLEAN, FinishCrawl(stopped)
        PROVE  TypeInv'
    <3>1. results' \in Seq(Result)
      <4>1. results \in Seq(Result)
        BY DEF TypeOK, Result
      <4>2. [i \in DOMAIN results |-> [results[i] EXCEPT !.status = "blocked"]] \in Seq(Result)
        <5>1. Len(results) \in Nat /\ DOMAIN results = 1..Len(results)
          BY <4>1
        <5>2. \A i \in 1..Len(results) : [results[i] EXCEPT !.status = "blocked"] \in Result
          <6>1. \A i \in 1..Len(results) : results[i] \in Result
            BY <4>1
          <6> QED BY <6>1 DEF Result
        <5>3. [i \in 1..Len(results) |-> [results[i] EXCEPT !.status = "blocked"]] \in Seq(Result)
          BY <5>1, <5>2
        <5> QED BY <5>1, <5>3
      <4> QED BY <2>3, <4>1, <4>2 DEF FinishCrawl, Return
    <3>2. pc' = "done" /\ report' \in Reports /\ cancelled' \in BOOLEAN
      BY <2>3 DEF FinishCrawl, Return
    <3>3. UNCHANGED <<maxPages, queue, visited, current, blocked, links, aborted, expired>>
      BY <2>3 DEF FinishCrawl
    <3> QED BY <3>1, <3>2, <3>3 DEF TypeOK, Result
  <2>4. CASE EndCrawl
    BY <2>3, <2>4 DEF EndCrawl
  <2>5. CASE TakePage
    <3>1. queue # <<>> /\ queue' = Tail(queue)
      BY <2>5 DEF TakePage
    <3>2. queue' \in Seq(Page) /\ Head(queue) \in Page
      BY <3>1, QueueShrinks
    <3>3. UNCHANGED <<maxPages, results, blocked, cancelled, links, report, aborted, expired>>
      BY <2>5 DEF TakePage
    <3>4. CASE UNCHANGED <<pc, visited, current>>
      BY <2>5, <3>2, <3>3, <3>4 DEF TypeOK, Page, TakePage
    <3>5. CASE /\ visited' = visited \cup {Head(queue).url}
               /\ current' = Head(queue) /\ pc' \in {"progress", "check"}
      <4>1. Head(queue).url \in Urls /\ Head(queue).depth \in 0..MaxDepth
        BY <3>2 DEF Page
      <4>2. current' \in [url : Urls \cup {None}, depth : 0..MaxDepth] /\ current'.url \in Urls
        BY <3>2, <3>5, <4>1 DEF Page
      <4> QED BY <3>2, <3>3, <3>5, <4>1, <4>2 DEF TypeOK, Page
    <3> QED BY <2>5, <3>4, <3>5 DEF TakePage
  <2>6. CASE ReportProgress
    <3>1. results' \in Seq(Result)
      <4>1. results \in Seq(Result) /\ <<>> \in Seq(Result)
        BY DEF TypeOK, Result
      <4> QED BY <2>6, <4>1 DEF ReportProgress, CatchAll
    <3>2. pc' \in {"check", "done"} /\ report' \in Reports
      BY <2>6 DEF ReportProgress, CatchAll, Return, TypeOK
    <3>3. UNCHANGED <<maxPages, queue, visited, current, blocked, cancelled, links, aborted, expired>>
      BY <2>6 DEF ReportProgress
    <3> QED BY <2>6, <3>1, <3>2, <3>3 DEF ReportProgress, TypeOK, Result
  <2>7. CASE AbortCheck
    BY <2>3, <2>7 DEF AbortCheck
  <2>8. CASE CheckThrows
    BY <2>8 DEF CheckThrows, CatchAll, Return, TypeOK
  <2>9. CASE NavigationFails
    <3>1. results' \in Seq(Result)
      BY <2>9, ResultsGrow DEF NavigationFails
    <3> QED BY <2>9, <3>1 DEF NavigationFails, TypeOK, Result
  <2>10. ASSUME NEW final \in Landings \cup {current.url}, NEW hrefs \in Hrefs,
                PageLoads(final, hrefs)
         PROVE  TypeInv'
    <3>1. results' \in Seq(Result)
      BY <2>10, ResultsGrow DEF PageLoads
    <3>2. queue' \in Seq(Page)
      <4>1. CASE MayDiscover /\ Enqueue(DiscoverLinks(hrefs))
        BY <2>10, <4>1, QueueGrows DEF PageLoads
      <4>2. CASE UNCHANGED queue
        BY <4>2 DEF TypeOK, Page
      <4> QED BY <2>10, <4>1, <4>2 DEF PageLoads
    <3>3. blocked' \in BOOLEAN
      BY <2>10 DEF PageLoads, TypeOK
    <3>4. links' \in [Urls -> SUBSET (Urls \ Skipped)]
      <4>1. Range(hrefs) \ Skipped \in SUBSET (Urls \ Skipped)
        BY HrefsAreUrls
      <4> QED BY <2>10, <4>1 DEF PageLoads, TypeOK
    <3>5. pc' = "loop" /\ UNCHANGED <<maxPages, visited, current, cancelled, report, aborted, expired>>
      BY <2>10 DEF PageLoads
    <3> QED BY <3>1, <3>2, <3>3, <3>4, <3>5 DEF TypeOK, Result, Page
  <2>11. CASE CheckPage
    BY <2>7, <2>8, <2>9, <2>10, <2>11 DEF CheckPage
  <2>12. CASE Abort
    BY <2>12 DEF Abort, crawlVars, TypeOK
  <2>13. CASE Expire
    BY <2>13 DEF Expire, crawlVars, TypeOK
  <2>14. CASE UNCHANGED vars
    BY <2>14 DEF vars, crawlVars, TypeOK
  <2> QED BY <2>1, <2>2, <2>4, <2>5, <2>6, <2>11, <2>12, <2>13, <2>14 DEF Next
<1> QED BY <1>1, <1>2, PTL DEF Spec

\* The executor's state is well typed, whatever its configuration, its site and
\* its interruptions: a page that is checked is one of the queue, and a result
\* names a page (crawlSite, lines 196-331).
THEOREM CrawlTypes == Spec => []TypeOK
<1>1. TypeInv => TypeOK
  BY DEF TypeInv
<1> QED BY <1>1, TypesInvariant, PTL

-----------------------------------------------------------------------------
(* How the URLs within reach change.                                       *)

WithinUnfolded ==
    /\ Within \in [0..MaxDepth -> SUBSET Urls]
    /\ Within[0] = {Home}
    /\ \A d \in 1..MaxDepth :
          Within[d] = Within[d - 1] \cup UNION { links[url] : url \in Within[d - 1] }

LEMMA WithinAlwaysUnfolds == TypeOK => WithinUnfolded
BY WithinUnfolds DEF WithinUnfolded

LEMMA WithinUnfoldsNext ==
    ASSUME TypeOK'
    PROVE  /\ Within' \in [0..MaxDepth -> SUBSET Urls]
           /\ Within'[0] = {Home}
           /\ \A d \in 1..MaxDepth :
                 Within'[d] = Within'[d - 1] \cup UNION { links'[url] : url \in Within'[d - 1] }
<1>1. WithinUnfolded'
  BY WithinAlwaysUnfolds, PTL
<1> QED BY <1>1 DEF WithinUnfolded

LEMMA WithinStays ==
    ASSUME UNCHANGED links
    PROVE  Within' = Within
BY DEF Within

\* What is within c links is within d links, if d is not less than c.
LEMMA WithinDeepens ==
    ASSUME TypeOK, NEW c \in 0..MaxDepth, NEW d \in 0..MaxDepth, c <= d
    PROVE  Within[c] \subseteq Within[d]
<1> DEFINE Bad == { n \in c..MaxDepth : ~(Within[c] \subseteq Within[n]) }
<1>1. MaxDepth \in Nat /\ c \in Nat
  BY CrawlAssumption
<1>2. Bad = {}
  <2> SUFFICES ASSUME Bad # {}
               PROVE  FALSE
    OBVIOUS
  <2>1. PICK n \in Bad : \A m \in Bad : n <= m
    <3>1. Bad \in SUBSET Nat
      BY <1>1
    <3> HIDE DEF Bad
    <3> QED BY <3>1, LeastNatural
  <2>2. n # c
    OBVIOUS
  <2>3. n \in 1..MaxDepth /\ n - 1 \in c..MaxDepth /\ n - 1 \notin Bad
    BY <1>1, <2>1, <2>2
  <2>4. Within[n - 1] \subseteq Within[n]
    BY <2>3, WithinUnfolds
  <2> QED BY <2>3, <2>4
<1> QED BY <1>1, <1>2

\* More links, more URLs within reach.
LEMMA WithinGrows ==
    ASSUME TypeOK, TypeOK', \A url \in Urls : links[url] \subseteq links'[url],
           NEW d \in 0..MaxDepth
    PROVE  Within[d] \subseteq Within'[d]
<1> DEFINE Bad == { n \in 0..MaxDepth : ~(Within[n] \subseteq Within'[n]) }
<1>1. MaxDepth \in Nat
  BY CrawlAssumption
<1>2. Bad = {}
  <2> SUFFICES ASSUME Bad # {}
               PROVE  FALSE
    OBVIOUS
  <2>1. PICK n \in Bad : \A m \in Bad : n <= m
    <3>1. Bad \in SUBSET Nat
      BY <1>1
    <3> HIDE DEF Bad
    <3> QED BY <3>1, LeastNatural
  <2>2. n # 0
    BY WithinUnfolds, WithinUnfoldsNext
  <2>3. n \in 1..MaxDepth /\ n - 1 \in 0..MaxDepth /\ n - 1 \notin Bad
    BY <1>1, <2>1, <2>2
  <2>4. Within[n - 1] \subseteq Within'[n - 1] /\ Within[n - 1] \subseteq Urls
    BY <2>3, WithinUnfolds
  <2>5. /\ Within[n] = Within[n - 1] \cup UNION { links[url] : url \in Within[n - 1] }
        /\ Within'[n] = Within'[n - 1] \cup UNION { links'[url] : url \in Within'[n - 1] }
    BY <2>3, WithinUnfolds, WithinUnfoldsNext
  <2>6. Within[n] \subseteq Within'[n]
    BY <2>4, <2>5
  <2> QED BY <2>1, <2>6
<1> QED BY <1>2

-----------------------------------------------------------------------------
(* The pages visited, and the limits.                                      *)

\* Between two pages every page that was visited has a result; while a page is
\* checked it is the only one without. Only pages with a result showed links.
VisitedInv ==
    /\ pc \in { "resolve", "launch" } => visited = {} /\ CheckedUrls = {}
    /\ pc = "loop" => CheckedUrls = visited
    /\ Checking => current.url \in visited /\ CheckedUrls = visited \ {current.url}
    /\ Running => \A url \in Urls : links[url] # {} => url \in CheckedUrls

\* Dropping the results leaves none.
LEMMA ResultsDropped ==
    ASSUME results' = <<>>
    PROVE  CheckedUrls' = {} /\ Len(results') = 0
<1>1. DOMAIN results' = {} /\ Len(results') = 0
  OBVIOUS
<1> QED BY <1>1 DEF CheckedUrls

LEMMA VisitedStep == TypeInv /\ TypeInv' /\ VisitedInv /\ [Next]_vars => VisitedInv'
<1> SUFFICES ASSUME TypeInv, TypeInv', VisitedInv, [Next]_vars
             PROVE  VisitedInv'
  OBVIOUS
<1> USE DEF Checking, Running
<1>1. ASSUME pc' = "done"
      PROVE  VisitedInv'
  BY <1>1 DEF VisitedInv
<1>2. CASE ResolveTarget
  BY <1>1, <1>2 DEF ResolveTarget, Return, VisitedInv, CheckedUrls
<1>3. CASE LaunchBrowser
  BY <1>1, <1>3 DEF LaunchBrowser, CatchAll, Return, VisitedInv, CheckedUrls
<1>4. CASE EndCrawl
  BY <1>1, <1>4 DEF EndCrawl, FinishCrawl, Return
<1>5. CASE TakePage
  <2>1. UNCHANGED <<results, links>> /\ CheckedUrls' = CheckedUrls /\ pc = "loop"
    BY <1>5 DEF TakePage, CheckedUrls
  <2>2. CASE UNCHANGED <<pc, visited, current>>
    BY <2>1, <2>2 DEF VisitedInv
  <2>3. CASE /\ ~SeenBefore /\ visited' = visited \cup {Head(queue).url}
             /\ current' = Head(queue) /\ pc' \in { "progress", "check" }
    BY <2>1, <2>3 DEF VisitedInv, SeenBefore
  <2> QED BY <1>5, <2>2, <2>3 DEF TakePage
<1>6. CASE ReportProgress
  BY <1>1, <1>6 DEF ReportProgress, CatchAll, Return, VisitedInv, CheckedUrls
<1>7. CASE AbortCheck
  BY <1>1, <1>7 DEF AbortCheck, FinishCrawl, Return
<1>8. CASE CheckThrows
  BY <1>1, <1>8 DEF CheckThrows, CatchAll, Return
<1>9. CASE NavigationFails
  <2>1. CheckedUrls' = CheckedUrls \cup {current.url}
    BY <1>9, ResultsGrow DEF NavigationFails, TypeInv
  <2> QED BY <1>9, <2>1 DEF NavigationFails, VisitedInv
<1>10. ASSUME NEW final \in Landings \cup {current.url}, NEW hrefs \in Hrefs,
              PageLoads(final, hrefs)
       PROVE  VisitedInv'
  <2>1. CheckedUrls' = CheckedUrls \cup {current.url}
    BY <1>10, ResultsGrow DEF PageLoads, TypeInv
  <2>2. \A url \in Urls : url = current.url \/ links'[url] = links[url]
    BY <1>10 DEF PageLoads, TypeInv, TypeOK
  <2> QED BY <1>10, <2>1, <2>2 DEF PageLoads, VisitedInv
<1>11. CASE CheckPage
  BY <1>7, <1>8, <1>9, <1>10, <1>11 DEF CheckPage
<1>12. CASE Abort
  BY <1>12 DEF Abort, crawlVars, VisitedInv, CheckedUrls
<1>13. CASE Expire
  BY <1>13 DEF Expire, crawlVars, VisitedInv, CheckedUrls
<1>14. CASE UNCHANGED vars
  BY <1>14 DEF vars, crawlVars, VisitedInv, CheckedUrls
<1> QED BY <1>2, <1>3, <1>4, <1>5, <1>6, <1>11, <1>12, <1>13, <1>14 DEF Next

THEOREM VisitedInvariant == Spec => []VisitedInv
<1>1. Init => VisitedInv
  BY DEF Init, VisitedInv, CheckedUrls, Checking, Running
<1> QED BY <1>1, VisitedStep, TypesInvariant, PTL DEF Spec

\* A page load shows links of the current page only, and none were known.
LEMMA LinksGrow ==
    ASSUME TypeInv, VisitedInv, NEW final, NEW hrefs \in Hrefs, PageLoads(final, hrefs)
    PROVE  /\ links'[current.url] = Range(hrefs) \ Skipped
           /\ \A url \in Urls : links[url] \subseteq links'[url]
           /\ \A url \in Urls \ {current.url} : links'[url] = links[url]
<1>1. links[current.url] = {}
  BY DEF PageLoads, TypeInv, TypeOK, VisitedInv, Checking, Running
<1> QED BY <1>1 DEF PageLoads, TypeInv, TypeOK, Checking

\* Whatever waits or is checked is as near as its depth says.
LimitsInv ==
    /\ Checking => Len(results) < maxPages /\ current.url \in Within[current.depth]
    /\ Running => \A i \in DOMAIN queue : queue[i].url \in Within[queue[i].depth]
    /\ CrawlStaysWithinLimits

LEMMA LimitsStep ==
    TypeInv /\ TypeInv' /\ VisitedInv /\ LimitsInv /\ [Next]_vars => LimitsInv'
<1> SUFFICES ASSUME TypeInv, TypeInv', VisitedInv, LimitsInv, [Next]_vars
             PROVE  LimitsInv'
  OBVIOUS
<1> USE DEF Checking, Running
<1>1. ASSUME pc' = "done", UNCHANGED <<links, maxPages>>, UNCHANGED results \/ results' = <<>>
      PROVE  LimitsInv'
  <2>1. CheckedUrls' \subseteq CheckedUrls /\ Len(results') <= maxPages
    BY <1>1, ResultsDropped DEF LimitsInv, CrawlStaysWithinLimits, CheckedUrls, TypeInv, TypeOK
  <2> QED BY <1>1, <2>1, WithinStays DEF LimitsInv, CrawlStaysWithinLimits
<1>2. CASE ResolveTarget
  <2>1. Within' = Within /\ CheckedUrls' = CheckedUrls
    BY <1>2, WithinStays DEF ResolveTarget, CheckedUrls
  <2> QED BY <1>2, <2>1 DEF ResolveTarget, Return, LimitsInv, CrawlStaysWithinLimits
<1>3. CASE LaunchBrowser
  <2>1. Within' = Within
    BY <1>3, WithinStays DEF LaunchBrowser
  <2>2. CASE UNCHANGED results /\ pc' = "loop"
    BY <1>3, <2>1, <2>2 DEF LaunchBrowser, LimitsInv, CrawlStaysWithinLimits, CheckedUrls
  <2> QED BY <1>1, <1>3, <2>2 DEF LaunchBrowser, CatchAll, Return
<1>4. ASSUME NEW stopped, FinishCrawl(stopped)
      PROVE  LimitsInv'
  <2>1. DOMAIN results' = DOMAIN results /\ \A i \in DOMAIN results : results'[i].url = results[i].url
    <3>1. CASE UNCHANGED results
      BY <3>1
    <3>2. CASE results' = [i \in DOMAIN results |-> [results[i] EXCEPT !.status = "blocked"]]
      <4>1. results \in Seq(Result)
        BY DEF TypeInv, TypeOK, Result
      <4>2. \A i \in DOMAIN results : results[i] \in Result
        BY <4>1
      <4> QED BY <3>2, <4>2 DEF Result
    <3> QED BY <1>4, <3>1, <3>2 DEF FinishCrawl
  <2>2. CheckedUrls' = CheckedUrls
    BY <2>1 DEF CheckedUrls
  <2>3. Len(results') = Len(results)
    <3>1. results \in Seq(Result) /\ results' \in Seq(Result)
      BY DEF TypeInv, TypeOK, Result
    <3> QED BY <2>1, <3>1
  <2>4. Within' = Within
    BY <1>4, WithinStays DEF FinishCrawl
  <2> QED BY <1>4, <2>2, <2>3, <2>4 DEF FinishCrawl, Return, LimitsInv, CrawlStaysWithinLimits
<1>5. CASE EndCrawl
  BY <1>4, <1>5 DEF EndCrawl
<1>6. CASE TakePage
  <2>1. UNCHANGED <<results, links, maxPages>> /\ CheckedUrls' = CheckedUrls /\ pc = "loop"
    BY <1>6 DEF TakePage, CheckedUrls
  <2>2. queue # <<>> /\ queue' = Tail(queue) /\ Len(results) < maxPages
    <3>1. Len(results) \in Nat /\ maxPages \in Nat
      BY CrawlAssumption DEF TypeInv, TypeOK
    <3> QED BY <1>6, <3>1 DEF TakePage, LimitReached
  <2>3. /\ 1 \in DOMAIN queue /\ Head(queue) = queue[1]
        /\ \A i \in DOMAIN queue' : i + 1 \in DOMAIN queue /\ queue'[i] = queue[i + 1]
    BY <2>2, QueueShrinks DEF TypeInv
  <2>4. Within' = Within
    BY <2>1, WithinStays
  <2>5. \A i \in DOMAIN queue' : queue'[i].url \in Within'[queue'[i].depth]
    BY <2>1, <2>3, <2>4 DEF LimitsInv
  <2>6. Checking' => current' = Head(queue)
    BY <1>6, <2>1 DEF TakePage
  <2>7. Checking' => current'.url \in Within'[current'.depth]
    BY <2>1, <2>3, <2>4, <2>6 DEF LimitsInv
  <2> QED BY <2>1, <2>2, <2>4, <2>5, <2>7 DEF LimitsInv, CrawlStaysWithinLimits
<1>7. CASE ReportProgress
  <2>1. Within' = Within
    BY <1>7, WithinStays DEF ReportProgress
  <2>2. CASE UNCHANGED results /\ pc' = "check"
    BY <1>7, <2>1, <2>2 DEF ReportProgress, LimitsInv, CrawlStaysWithinLimits, CheckedUrls
  <2> QED BY <1>1, <1>7, <2>2 DEF ReportProgress, CatchAll, Return
<1>8. CASE AbortCheck
  BY <1>4, <1>8 DEF AbortCheck
<1>9. CASE CheckThrows
  BY <1>1, <1>9 DEF CheckThrows, CatchAll, Return
<1>10. ASSUME pc = "check", pc' = "loop", CheckedUrls' = CheckedUrls \cup {current.url},
              Len(results') = Len(results) + 1, UNCHANGED maxPages,
              \A d \in 0..MaxDepth : Within[d] \subseteq Within'[d],
              \A i \in DOMAIN queue' : queue'[i].url \in Within'[queue'[i].depth]
       PROVE  LimitsInv'
  <2>1. Len(results') <= maxPages'
    <3>1. Len(results) \in Nat /\ maxPages \in Nat
      BY CrawlAssumption DEF TypeInv, TypeOK
    <3> QED BY <1>10, <3>1 DEF LimitsInv
  <2>2. current.depth \in 0..MaxDepth /\ MaxDepth \in 0..MaxDepth /\ current.depth <= MaxDepth
    BY CrawlAssumption DEF TypeInv, TypeOK
  <2>3. current.url \in Within[MaxDepth]
    BY <1>10, <2>2, WithinDeepens DEF LimitsInv, TypeInv
  <2>4. CheckedUrls' \subseteq Within'[MaxDepth]
    BY <1>10, <2>2, <2>3 DEF LimitsInv, CrawlStaysWithinLimits
  <2> QED BY <1>10, <2>1, <2>4 DEF LimitsInv, CrawlStaysWithinLimits
<1>11. CASE NavigationFails
  <2>1. CheckedUrls' = CheckedUrls \cup {current.url} /\ Len(results') = Len(results) + 1
    BY <1>11, ResultsGrow DEF NavigationFails, TypeInv
  <2>2. Within' = Within
    BY <1>11, WithinStays DEF NavigationFails
  <2> QED BY <1>10, <1>11, <2>1, <2>2 DEF NavigationFails, LimitsInv
<1>12. ASSUME NEW final \in Landings \cup {current.url}, NEW hrefs \in Hrefs,
              PageLoads(final, hrefs)
       PROVE  LimitsInv'
  <2>1. CheckedUrls' = CheckedUrls \cup {current.url} /\ Len(results') = Len(results) + 1
    BY <1>12, ResultsGrow DEF PageLoads, TypeInv
  <2>2. \A d \in 0..MaxDepth : Within[d] \subseteq Within'[d]
    BY <1>12, LinksGrow, WithinGrows DEF TypeInv
  <2>3. \A i \in DOMAIN queue : queue[i].url \in Within'[queue[i].depth]
    <3>1. \A i \in DOMAIN queue : queue[i].depth \in 0..MaxDepth
      BY PageTypes DEF TypeInv
    <3> QED BY <1>12, <2>2, <3>1 DEF LimitsInv, PageLoads
  <2>4. CASE UNCHANGED queue
    BY <1>10, <1>12, <2>1, <2>2, <2>3, <2>4 DEF PageLoads
  <2>5. CASE MayDiscover /\ Enqueue(DiscoverLinks(hrefs))
    <3>1. /\ \A i \in DOMAIN queue : i \in DOMAIN queue' /\ queue'[i] = queue[i]
          /\ \A i \in DOMAIN queue' \ DOMAIN queue :
                /\ queue'[i].depth = current.depth + 1
                /\ queue'[i].url \in Range(hrefs) \ Skipped
      BY <1>12, <2>5, QueueGrows DEF TypeInv, PageLoads
    <3>2. /\ current.depth + 1 \in 1..MaxDepth /\ (current.depth + 1) - 1 = current.depth
          /\ current.depth \in 0..MaxDepth
      BY <2>5, CrawlAssumption DEF MayDiscover, TypeInv, TypeOK
    <3>3. current.url \in Within'[current.depth]
      BY <1>12, <2>2, <3>2 DEF LimitsInv, PageLoads
    <3>4. links'[current.url] \subseteq Within'[current.depth + 1]
      BY <3>2, <3>3, WithinUnfoldsNext DEF TypeInv
    <3>5. \A i \in DOMAIN queue' : queue'[i].url \in Within'[queue'[i].depth]
      BY <1>12, <2>3, <3>1, <3>4, LinksGrow
    <3> QED BY <1>10, <1>12, <2>1, <2>2, <3>5 DEF PageLoads
  <2> QED BY <1>12, <2>4, <2>5 DEF PageLoads
<1>13. CASE CheckPage
  BY <1>8, <1>9, <1>11, <1>12, <1>13 DEF CheckPage
<1>14. CASE Abort \/ Expire \/ UNCHANGED vars
  <2>1. UNCHANGED <<crawlVars>> /\ (Checking' => Checking) /\ (Running' => Running)
    BY <1>14 DEF Abort, Expire, vars
  <2>2. Within' = Within
    BY <2>1, WithinStays DEF crawlVars
  <2> QED BY <2>1, <2>2 DEF crawlVars, LimitsInv, CrawlStaysWithinLimits, CheckedUrls
<1> QED BY <1>2, <1>3, <1>5, <1>6, <1>7, <1>13, <1>14 DEF Next

THEOREM LimitsInvariant == Spec => []LimitsInv
<1>1. Init /\ TypeInv => LimitsInv
  <2> SUFFICES ASSUME Init, TypeInv
               PROVE  LimitsInv
    OBVIOUS
  <2> DEFINE first == [url |-> Home, depth |-> 0]
  <2>1. queue = <<first>> /\ first.url = Home /\ first.depth = 0
    BY DEF Init
  <2> HIDE DEF first
  <2>2. DOMAIN queue = {1} /\ queue[1] = first
    BY <2>1
  <2>3. Within[0] = {Home}
    BY WithinUnfolds DEF TypeInv
  <2>4. CheckedUrls = {} /\ Len(results) = 0 /\ maxPages \in Nat /\ maxPages # 0
    BY CrawlAssumption DEF Init, CheckedUrls, ReadCrawlLimits
  <2> QED BY <2>1, <2>2, <2>3, <2>4 DEF LimitsInv, CrawlStaysWithinLimits, Init, Checking
<1> QED BY <1>1, LimitsStep, TypesInvariant, VisitedInvariant, PTL DEF Spec

\* Whatever the site and the limits, the crawl checks no more than maxPages
\* pages, and none further than maxDepth links from the base URL, although the
\* queue holds a page several times and at several depths (crawlSite, lines 222,
\* 225-226, 281-291).
THEOREM LimitsAreKept == Spec => []CrawlStaysWithinLimits
<1>1. LimitsInv => CrawlStaysWithinLimits
  BY DEF LimitsInv
<1> QED BY <1>1, LimitsInvariant, PTL

-----------------------------------------------------------------------------
(* The report.                                                             *)

\* Blocked in advance or on the entry page, the crawl checks that one page and
\* queues nothing; what the crawl reports fits what it found.
BlockedInv ==
    /\ pc = "resolve" => ~blocked
    /\ Running /\ visited = {} =>
          queue = <<[url |-> Home, depth |-> 0]>> /\ results = <<>> /\ ~expired
    /\ Running /\ visited # {} => \A i \in DOMAIN queue : queue[i].depth > 0
    /\ Checking /\ (blocked \/ current.depth = 0) => queue = <<>> /\ results = <<>>
    /\ pc = "loop" /\ blocked /\ visited # {} => queue = <<>> /\ Len(results) = 1

ReportInv ==
    /\ BlockedInv
    /\ Running => report = "none" /\ \A i \in DOMAIN results : results[i].status # "blocked"
    /\ ReportFitsResults

LEMMA ReportStep ==
    TypeInv /\ TypeInv' /\ VisitedInv /\ ReportInv /\ [Next]_vars => ReportInv'
<1> SUFFICES ASSUME TypeInv, TypeInv', VisitedInv, ReportInv, [Next]_vars
             PROVE  ReportInv'
  OBVIOUS
<1> USE DEF Checking, Running
<1>1. ASSUME pc # "done", pc' = "done", report' \in { "failed", "throws" },
             UNCHANGED results \/ results' = <<>>
      PROVE  ReportInv'
  BY <1>1 DEF ReportInv, BlockedInv, ReportFitsResults
<1>2. CASE ResolveTarget
  <2>1. CASE pc' = "launch" /\ UNCHANGED report
    BY <1>2, <2>1 DEF ResolveTarget, ReportInv, BlockedInv, VisitedInv, ReportFitsResults
  <2> QED BY <1>1, <1>2, <2>1 DEF ResolveTarget, Return
<1>3. CASE LaunchBrowser
  <2>1. CASE pc' = "loop" /\ UNCHANGED <<report, results>>
    BY <1>3, <2>1 DEF LaunchBrowser, ReportInv, BlockedInv, VisitedInv, ReportFitsResults
  <2> QED BY <1>1, <1>3, <2>1 DEF LaunchBrowser, CatchAll, Return
<1>4. CASE EndCrawl
  <2>1. CASE FinishCrawl(TRUE)
    BY <1>1, <1>4, <2>1 DEF EndCrawl, FinishCrawl, Return
  <2>2. ASSUME FinishCrawl(FALSE), queue = <<>> \/ (~aborted /\ LimitReached)
        PROVE  ReportInv'
    <3>1. pc' = "done" /\ UNCHANGED <<queue, aborted>>
      BY <2>2 DEF FinishCrawl, Return
    <3>2. BlockedInv'
      BY <3>1 DEF BlockedInv
    <3>3. CASE blocked
      <4>1. visited # {}
        <5>1. Len(<<>>) = 0 /\ maxPages \in Nat /\ maxPages # 0
          BY CrawlAssumption DEF TypeInv, TypeOK
        <5>2. ASSUME visited = {}
              PROVE  FALSE
          <6>1. queue # <<>> /\ Len(results) = 0 /\ ~expired
            BY <1>4, <5>1, <5>2 DEF EndCrawl, ReportInv, BlockedInv
          <6> QED BY <2>2, <5>1, <6>1 DEF LimitReached
        <5> QED BY <5>2
      <4>2. Len(results) = 1
        BY <1>4, <3>3, <4>1 DEF EndCrawl, ReportInv, BlockedInv
      <4>3. /\ report' = "blocked"
            /\ results' = [i \in DOMAIN results |-> [results[i] EXCEPT !.status = "blocked"]]
        BY <2>2, <3>3 DEF FinishCrawl, Return
      <4>4. results \in Seq(Result) /\ results' \in Seq(Result)
        BY DEF TypeInv, TypeOK, Result
      <4>5. DOMAIN results = {1} /\ results[1] \in Result
        BY <4>2, <4>4
      <4>6. Len(results') = 1 /\ results'[1].status = "blocked"
        BY <4>3, <4>4, <4>5 DEF Result
      <4> QED BY <3>1, <3>2, <4>3, <4>6 DEF ReportInv, ReportFitsResults
    <3>4. CASE ~blocked
      <4>1. /\ UNCHANGED results
            /\ report' = IF results = <<>> \/ SomeFailed THEN "failed" ELSE "completed"
        BY <2>2, <3>4 DEF FinishCrawl, Return
      <4>2. CASE report' = "failed"
        BY <1>1, <1>4, <3>1, <4>1, <4>2 DEF EndCrawl
      <4>3. CASE report' # "failed"
        <5>1. report' = "completed" /\ results # <<>> /\ ~SomeFailed
          BY <4>1, <4>3
        <5>2. \A i \in DOMAIN results : results[i].status \in { "passed", "failed", "blocked" }
          <6>1. results \in Seq(Result)
            BY DEF TypeInv, TypeOK, Result
          <6>2. \A i \in DOMAIN results : results[i] \in Result
            BY <6>1
          <6> QED BY <6>2 DEF Result
        <5>3. \A i \in DOMAIN results : results[i].status = "passed"
          BY <1>4, <5>1, <5>2 DEF SomeFailed, EndCrawl, ReportInv
        <5> QED BY <2>2, <3>1, <3>2, <4>1, <5>1, <5>3 DEF ReportInv, ReportFitsResults
      <4> QED BY <4>2, <4>3
    <3> QED BY <3>3, <3>4
  <2> QED BY <1>4, <2>1, <2>2 DEF EndCrawl
<1>5. CASE TakePage
  <2>1. /\ UNCHANGED <<results, blocked, report, expired>> /\ pc = "loop"
        /\ queue # <<>> /\ queue' = Tail(queue)
    BY <1>5 DEF TakePage
  <2>2. /\ 1 \in DOMAIN queue /\ Head(queue) = queue[1] /\ Head(queue) \in Page
        /\ \A i \in DOMAIN queue' : i + 1 \in DOMAIN queue /\ queue'[i] = queue[i + 1]
    BY <2>1, QueueShrinks DEF TypeInv
  <2>3. CASE visited = {}
    <3>1. queue' = <<>> /\ results = <<>>
      <4>1. Tail(<<[url |-> Home, depth |-> 0]>>) = <<>>
        OBVIOUS
      <4> QED BY <2>1, <2>3, <4>1 DEF ReportInv, BlockedInv
    <3>2. visited' # {} /\ pc' \in { "progress", "check" }
      BY <1>5, <2>3 DEF TakePage, SeenBefore
    <3>3. BlockedInv'
      BY <2>1, <3>1, <3>2 DEF BlockedInv
    <3> QED BY <2>1, <3>2, <3>3 DEF ReportInv, ReportFitsResults
  <2>4. CASE visited # {}
    <3>1. ~blocked /\ Head(queue).depth > 0
      BY <2>1, <2>2, <2>4 DEF ReportInv, BlockedInv
    <3>2. \A i \in DOMAIN queue' : queue'[i].depth > 0
      BY <2>1, <2>2, <2>4 DEF ReportInv, BlockedInv
    <3>3. visited' # {} /\ pc' \in { "loop", "progress", "check" }
      BY <1>5, <2>1, <2>4 DEF TakePage
    <3>4. Checking' => current' = Head(queue)
      BY <1>5, <2>1 DEF TakePage
    <3>5. Head(queue).depth # 0
      BY <2>2, <3>1 DEF Page
    <3>6. BlockedInv'
      BY <2>1, <3>1, <3>2, <3>3, <3>4, <3>5 DEF BlockedInv
    <3> QED BY <2>1, <3>3, <3>6 DEF ReportInv, ReportFitsResults
  <2> QED BY <2>3, <2>4
<1>6. CASE ReportProgress
  <2>1. CASE pc' = "check" /\ UNCHANGED <<report, results>>
    BY <1>6, <2>1 DEF ReportProgress, ReportInv, BlockedInv, ReportFitsResults
  <2> QED BY <1>1, <1>6, <2>1 DEF ReportProgress, CatchAll, Return
<1>7. CASE AbortCheck
  BY <1>1, <1>7 DEF AbortCheck, FinishCrawl, Return
<1>8. CASE CheckThrows
  BY <1>1, <1>8 DEF CheckThrows, CatchAll, Return
<1>9. ASSUME pc = "check", pc' = "loop", UNCHANGED <<visited, report>>,
             NEW status \in { "passed", "failed" }, AddResult(status),
             \A i \in DOMAIN queue' : queue'[i].depth > 0,
             blocked' => (blocked \/ current.depth = 0) /\ UNCHANGED queue
      PROVE  ReportInv'
  <2>1. /\ Len(results') = Len(results) + 1
        /\ \A i \in DOMAIN results : results'[i] = results[i]
        /\ DOMAIN results' = DOMAIN results \cup {Len(results) + 1}
        /\ results'[Len(results) + 1].status = status
    BY <1>9, ResultsGrow DEF TypeInv
  <2>2. \A i \in DOMAIN results' : results'[i].status # "blocked"
    BY <1>9, <2>1 DEF ReportInv
  <2>3. visited' # {}
    BY <1>9 DEF VisitedInv
  <2>4. blocked' => queue' = <<>> /\ Len(results') = 1
    <3>1. Len(<<>>) = 0
      OBVIOUS
    <3> QED BY <1>9, <2>1, <3>1 DEF ReportInv, BlockedInv
  <2>5. BlockedInv'
    BY <1>9, <2>3, <2>4 DEF BlockedInv
  <2> QED BY <1>9, <2>2, <2>5 DEF ReportInv, ReportFitsResults
<1>10. pc = "check" => \A i \in DOMAIN queue : queue[i].depth > 0
  BY DEF VisitedInv, ReportInv, BlockedInv
<1>11. CASE NavigationFails
  <2>1. "failed" \in { "passed", "failed" }
    OBVIOUS
  <2> QED BY <1>9, <1>10, <1>11, <2>1 DEF NavigationFails, ReportInv, BlockedInv
<1>12. ASSUME NEW final \in Landings \cup {current.url}, NEW hrefs \in Hrefs,
              PageLoads(final, hrefs)
       PROVE  ReportInv'
  <2>1. \A i \in DOMAIN queue' : queue'[i].depth > 0
    <3>1. CASE UNCHANGED queue
      BY <1>10, <1>12, <3>1 DEF PageLoads
    <3>2. CASE MayDiscover /\ Enqueue(DiscoverLinks(hrefs))
      <4>1. /\ \A i \in DOMAIN queue : queue'[i] = queue[i]
            /\ \A i \in DOMAIN queue' \ DOMAIN queue : queue'[i].depth = current.depth + 1
        BY <1>12, <3>2, QueueGrows DEF TypeInv, PageLoads
      <4>2. current.depth + 1 > 0
        BY CrawlAssumption DEF TypeInv, TypeOK
      <4> QED BY <1>10, <1>12, <4>1, <4>2 DEF PageLoads
    <3> QED BY <1>12, <3>1, <3>2 DEF PageLoads
  <2>2. blocked' => (blocked \/ current.depth = 0) /\ UNCHANGED queue
    BY <1>12 DEF PageLoads, AuthBoundary
  <2>3. PICK status \in { "passed", "failed" } : AddResult(status)
    BY <1>12 DEF PageLoads
  <2> QED BY <1>9, <1>12, <2>1, <2>2, <2>3 DEF PageLoads
<1>13. CASE CheckPage
  BY <1>7, <1>8, <1>11, <1>12, <1>13 DEF CheckPage
<1>14. CASE Abort
  BY <1>14 DEF Abort, crawlVars, ReportInv, BlockedInv, ReportFitsResults
<1>15. CASE Expire
  <2>1. visited # {} /\ pc # "done"
    BY <1>15 DEF Expire, VisitedInv
  <2> QED BY <1>15, <2>1 DEF Expire, crawlVars, ReportInv, BlockedInv, ReportFitsResults
<1>16. CASE UNCHANGED vars
  BY <1>16 DEF vars, crawlVars, ReportInv, BlockedInv, ReportFitsResults
<1> QED BY <1>2, <1>3, <1>4, <1>5, <1>6, <1>13, <1>14, <1>15, <1>16 DEF Next

THEOREM ReportInvariant == Spec => []ReportInv
<1>1. Init => ReportInv
  <2>1. Len(<<>>) = 0 /\ DOMAIN <<>> = {}
    OBVIOUS
  <2> QED BY <2>1 DEF Init, ReportInv, BlockedInv, ReportFitsResults, Checking, Running
<1> QED BY <1>1, ReportStep, TypesInvariant, VisitedInvariant, PTL DEF Spec

\* A blocked run has exactly one page of evidence, relabelled; a completed one
\* has pages, all of them passed, and was not stopped with work left; no other
\* report relabels a page (crawlSite, lines 244, 265-279, 294-331).
THEOREM ReportsFit == Spec => []ReportFitsResults
<1>1. ReportInv => ReportFitsResults
  BY DEF ReportInv
<1> QED BY <1>1, ReportInvariant, PTL

-----------------------------------------------------------------------------
(* Breadth first: the order of the queue.                                  *)

\* The queue holds one level, and after it the next; what was visited is within
\* the level at hand.
OrderInv ==
    Running =>
      /\ \A i, j \in DOMAIN queue : i <= j =>
            queue[i].depth <= queue[j].depth /\ queue[j].depth <= queue[i].depth + 1
      /\ \A i \in DOMAIN queue : visited \subseteq Within[queue[i].depth]
      /\ Checking =>
            /\ visited \subseteq Within[current.depth]
            /\ \A i \in DOMAIN queue :
                  current.depth <= queue[i].depth /\ queue[i].depth <= current.depth + 1

LEMMA OrderStep ==
    TypeInv /\ TypeInv' /\ VisitedInv /\ LimitsInv /\ OrderInv /\ [Next]_vars => OrderInv'
<1> SUFFICES ASSUME TypeInv, TypeInv', VisitedInv, LimitsInv, OrderInv, [Next]_vars
             PROVE  OrderInv'
  OBVIOUS
<1> USE DEF Checking, Running
<1>1. ASSUME pc' = "done"
      PROVE  OrderInv'
  BY <1>1 DEF OrderInv
<1>2. ASSUME UNCHANGED <<queue, visited, current, links>>, pc # "done", Checking' => Checking
      PROVE  OrderInv'
  BY <1>2, WithinStays DEF OrderInv
<1>3. CASE ResolveTarget
  BY <1>1, <1>2, <1>3 DEF ResolveTarget, Return
<1>4. CASE LaunchBrowser
  BY <1>1, <1>2, <1>4 DEF LaunchBrowser, CatchAll, Return
<1>5. CASE EndCrawl
  BY <1>1, <1>5 DEF EndCrawl, FinishCrawl, Return
<1>6. CASE TakePage
  <2>1. pc = "loop" /\ UNCHANGED links /\ queue # <<>> /\ queue' = Tail(queue)
    BY <1>6 DEF TakePage
  <2>2. /\ 1 \in DOMAIN queue /\ Head(queue) = queue[1] /\ Head(queue) \in Page
        /\ \A i \in DOMAIN queue' : i + 1 \in DOMAIN queue /\ queue'[i] = queue[i + 1]
    BY <2>1, QueueShrinks DEF TypeInv
  <2>3. Within' = Within
    BY <2>1, WithinStays
  <2>4. \A i \in DOMAIN queue' : i \in Nat /\ 1 <= i + 1
    <3>1. queue' \in Seq(Page)
      BY DEF TypeInv, TypeOK, Page
    <3> QED BY <3>1
  <2>5. \A i, j \in DOMAIN queue' : i <= j =>
           queue'[i].depth <= queue'[j].depth /\ queue'[j].depth <= queue'[i].depth + 1
    <3> SUFFICES ASSUME NEW i \in DOMAIN queue', NEW j \in DOMAIN queue', i <= j
                 PROVE  queue'[i].depth <= queue'[j].depth /\ queue'[j].depth <= queue'[i].depth + 1
      OBVIOUS
    <3>1. i + 1 <= j + 1
      BY <2>4
    <3> QED BY <2>1, <2>2, <3>1 DEF OrderInv
  <2>6. CASE UNCHANGED <<pc, visited, current>>
    BY <2>1, <2>2, <2>3, <2>5, <2>6 DEF OrderInv
  <2>7. CASE visited' = visited \cup {Head(queue).url} /\ current' = Head(queue)
    <3>1. visited' \subseteq Within[queue[1].depth]
      BY <2>1, <2>2, <2>7 DEF OrderInv, LimitsInv
    <3>2. \A i \in DOMAIN queue' : queue[1].depth <= queue'[i].depth /\ queue'[i].depth <= queue[1].depth + 1
      BY <2>1, <2>2, <2>4 DEF OrderInv
    <3>3. \A i \in DOMAIN queue' : visited' \subseteq Within[queue'[i].depth]
      <4> TAKE i \in DOMAIN queue'
      <4>1. queue'[i].depth \in 0..MaxDepth /\ queue[1].depth \in 0..MaxDepth
        BY <2>2, PageTypes DEF TypeInv
      <4>2. Within[queue[1].depth] \subseteq Within[queue'[i].depth]
        BY <3>2, <4>1, WithinDeepens DEF TypeInv
      <4> QED BY <3>1, <4>2
    <3> QED BY <2>2, <2>3, <2>5, <2>7, <3>1, <3>2, <3>3 DEF OrderInv
  <2> QED BY <1>6, <2>6, <2>7 DEF TakePage
<1>7. CASE ReportProgress
  BY <1>1, <1>2, <1>7 DEF ReportProgress, CatchAll, Return
<1>8. CASE AbortCheck
  BY <1>1, <1>8 DEF AbortCheck, FinishCrawl, Return
<1>9. CASE CheckThrows
  BY <1>1, <1>9 DEF CheckThrows, CatchAll, Return
<1>10. CASE NavigationFails
  BY <1>2, <1>10 DEF NavigationFails
<1>11. ASSUME NEW final \in Landings \cup {current.url}, NEW hrefs \in Hrefs,
              PageLoads(final, hrefs)
       PROVE  OrderInv'
  <2>1. pc = "check" /\ pc' = "loop" /\ UNCHANGED visited
    BY <1>11 DEF PageLoads
  <2>2. \A d \in 0..MaxDepth : Within[d] \subseteq Within'[d]
    BY <1>11, LinksGrow, WithinGrows DEF TypeInv
  <2>3. \A i \in DOMAIN queue : queue[i].depth \in 0..MaxDepth
    BY PageTypes DEF TypeInv
  <2>4. CASE UNCHANGED queue
    BY <2>1, <2>2, <2>3, <2>4 DEF OrderInv
  <2>5. CASE MayDiscover /\ Enqueue(DiscoverLinks(hrefs))
    <3>1. /\ \A i \in DOMAIN queue : i \in DOMAIN queue' /\ queue'[i] = queue[i]
          /\ \A i \in DOMAIN queue' \ DOMAIN queue :
                queue'[i].depth = current.depth + 1 /\ \A j \in DOMAIN queue : j < i
      BY <1>11, <2>5, QueueGrows DEF TypeInv, PageLoads
    <3>2. current.depth \in 0..MaxDepth /\ current.depth + 1 \in 0..MaxDepth
      BY <2>5, CrawlAssumption DEF MayDiscover, TypeInv, TypeOK
    <3>3. /\ visited \subseteq Within[current.depth]
          /\ \A i \in DOMAIN queue :
                current.depth <= queue[i].depth /\ queue[i].depth <= current.depth + 1
      BY <2>1 DEF OrderInv
    <3>4. \A i, j \in DOMAIN queue' : i <= j =>
             queue'[i].depth <= queue'[j].depth /\ queue'[j].depth <= queue'[i].depth + 1
      <4> SUFFICES ASSUME NEW i \in DOMAIN queue', NEW j \in DOMAIN queue', i <= j
                   PROVE  /\ queue'[i].depth <= queue'[j].depth
                          /\ queue'[j].depth <= queue'[i].depth + 1
        OBVIOUS
      <4>1. i \in Nat /\ j \in Nat
        <5>1. queue' \in Seq(Page)
          BY DEF TypeInv, TypeOK, Page
        <5> QED BY <5>1
      <4>2. CASE i \in DOMAIN queue /\ j \in DOMAIN queue
        BY <2>1, <3>1, <4>2 DEF OrderInv
      <4>3. CASE i \in DOMAIN queue /\ j \notin DOMAIN queue
        BY <2>3, <3>1, <3>2, <3>3, <4>3
      <4>4. CASE i \notin DOMAIN queue /\ j \in DOMAIN queue
        BY <3>1, <4>1, <4>4
      <4>5. CASE i \notin DOMAIN queue /\ j \notin DOMAIN queue
        BY <3>1, <3>2, <4>5
      <4> QED BY <4>2, <4>3, <4>4, <4>5
    <3>5. \A i \in DOMAIN queue' : visited' \subseteq Within'[queue'[i].depth]
      <4> TAKE i \in DOMAIN queue'
      <4>1. CASE i \in DOMAIN queue
        BY <2>1, <2>2, <2>3, <3>1, <4>1 DEF OrderInv
      <4>2. CASE i \notin DOMAIN queue
        <5>1. Within[current.depth] \subseteq Within[current.depth + 1]
          BY <3>2, WithinDeepens DEF TypeInv
        <5> QED BY <2>1, <2>2, <3>1, <3>2, <3>3, <4>2, <5>1
      <4> QED BY <4>1, <4>2
    <3> QED BY <2>1, <3>4, <3>5 DEF OrderInv
  <2> QED BY <1>11, <2>4, <2>5 DEF PageLoads
<1>12. CASE CheckPage
  BY <1>8, <1>9, <1>10, <1>11, <1>12 DEF CheckPage
<1>13. CASE Abort
  BY <1>2, <1>13 DEF Abort, crawlVars
<1>14. CASE Expire
  BY <1>2, <1>14 DEF Expire, crawlVars
<1>15. CASE UNCHANGED vars
  BY <1>1, <1>2, <1>15 DEF vars, crawlVars
<1> QED BY <1>3, <1>4, <1>5, <1>6, <1>7, <1>12, <1>13, <1>14, <1>15 DEF Next

THEOREM OrderInvariant == Spec => []OrderInv
<1>1. Init /\ TypeInv => OrderInv
  <2> SUFFICES ASSUME Init, TypeInv
               PROVE  OrderInv
    OBVIOUS
  <2> DEFINE first == [url |-> Home, depth |-> 0]
  <2>1. queue = <<first>> /\ first.depth = 0
    BY DEF Init
  <2> HIDE DEF first
  <2>2. DOMAIN queue = {1} /\ queue[1] = first
    BY <2>1
  <2> QED BY <2>1, <2>2 DEF Init, OrderInv, Checking
<1> QED BY <1>1, OrderStep, TypesInvariant, VisitedInvariant, LimitsInvariant, PTL DEF Spec
-----------------------------------------------------------------------------
(* Completeness.                                                           *)

\* Everything within d links was visited, or waits at a depth of at most d; the
\* page that is checked is not nearer than its depth says.
CompleteInv ==
    /\ Running /\ ~blocked =>
          \A d \in 0..MaxDepth : \A url \in Within[d] :
             \/ url \in visited
             \/ \E i \in DOMAIN queue : queue[i].url = url /\ queue[i].depth <= d
    /\ Checking /\ ~blocked =>
          \A d \in 0..MaxDepth : d < current.depth => current.url \notin Within[d]
    /\ CrawlIsComplete

\* What a page load brings within reach are the links it showed, one level
\* below the page: no page further up shows links that were not known, and the
\* pages further down have shown none.
LEMMA NewReach ==
    ASSUME TypeInv, TypeInv', VisitedInv, OrderInv,
           NEW final, NEW hrefs \in Hrefs, PageLoads(final, hrefs),
           \A d \in 0..MaxDepth : d < current.depth => current.url \notin Within[d],
           NEW d \in 0..MaxDepth, NEW url \in Within'[d]
    PROVE  url \in Within[d] \/ (current.depth < d /\ url \in links'[current.url])
<1> DEFINE Reach(n) == Within[n] \cup { u \in links'[current.url] : current.depth < n }
           Bad == { n \in 0..MaxDepth : ~(Within'[n] \subseteq Reach(n)) }
<1>1. MaxDepth \in Nat /\ current.depth \in 0..MaxDepth
  BY CrawlAssumption DEF TypeInv, TypeOK
<1>2. Bad = {}
  <2> SUFFICES ASSUME Bad # {}
               PROVE  FALSE
    OBVIOUS
  <2>1. PICK n \in Bad : \A m \in Bad : n <= m
    <3>1. Bad \in SUBSET Nat
      BY <1>1
    <3> HIDE DEF Bad
    <3> QED BY <3>1, LeastNatural
  <2>2. n # 0
    BY WithinUnfolds, WithinUnfoldsNext DEF TypeInv
  <2>3. n \in 1..MaxDepth /\ n - 1 \in 0..MaxDepth /\ n - 1 \notin Bad
    BY <1>1, <2>1, <2>2
  <2>4. Within'[n - 1] \subseteq Reach(n - 1)
    BY <2>3
  <2>5. /\ Within[n] = Within[n - 1] \cup UNION { links[u] : u \in Within[n - 1] }
        /\ Within'[n] = Within'[n - 1] \cup UNION { links'[u] : u \in Within'[n - 1] }
        /\ Within'[n - 1] \subseteq Urls /\ Within[n - 1] \subseteq Urls
    BY <2>3, WithinUnfolds, WithinUnfoldsNext DEF TypeInv
  <2>6. Reach(n - 1) \subseteq Reach(n)
    BY <1>1, <2>3, <2>5
  <2>7. ASSUME NEW u \in Within'[n - 1], NEW v \in links'[u]
        PROVE  v \in Reach(n)
    <3>1. CASE u = current.url
      <4>1. current.depth < n
        <5>1. CASE u \in Within[n - 1]
          BY <1>1, <2>3, <3>1, <5>1
        <5>2. CASE u \notin Within[n - 1]
          BY <1>1, <2>3, <2>4, <5>2
        <5> QED BY <5>1, <5>2
      <4> QED BY <2>7, <3>1, <4>1
    <3>2. CASE u # current.url
      <4>1. u \in Urls /\ links'[u] = links[u]
        BY <2>5, <3>2, LinksGrow
      <4>2. u \in visited
        BY <2>7, <4>1 DEF VisitedInv, PageLoads, Checking, Running
      <4>3. u \in Within[n - 1]
        <5>1. CASE u \in Within[n - 1]
          BY <5>1
        <5>2. CASE u \notin Within[n - 1]
          <6>1. current.depth < n - 1
            BY <2>4, <5>2
          <6>2. Within[current.depth] \subseteq Within[n - 1]
            BY <1>1, <2>3, <6>1, WithinDeepens DEF TypeInv
          <6> QED BY <4>2, <6>2 DEF OrderInv, PageLoads, Checking, Running
        <5> QED BY <5>1, <5>2
      <4> QED BY <2>5, <2>7, <4>1, <4>3
    <3> QED BY <3>1, <3>2
  <2> HIDE DEF Reach
  <2>8. Within'[n] \subseteq Reach(n)
    BY <2>4, <2>5, <2>6, <2>7
  <2> QED BY <2>1, <2>8
<1> QED BY <1>2

LEMMA CompleteStep ==
    /\ TypeInv /\ TypeInv' /\ VisitedInv /\ LimitsInv /\ ReportInv /\ OrderInv
    /\ CompleteInv /\ [Next]_vars
    => CompleteInv'
<1> SUFFICES ASSUME TypeInv, TypeInv', VisitedInv, LimitsInv, ReportInv, OrderInv,
                    CompleteInv, [Next]_vars
             PROVE  CompleteInv'
  OBVIOUS
<1> USE DEF Checking, Running
<1>1. ASSUME pc' = "done", results' = <<>> \/ cancelled' \/ queue' # <<>>
      PROVE  CompleteInv'
  BY <1>1 DEF CompleteInv, CrawlIsComplete
<1>2. ASSUME UNCHANGED <<queue, visited, current, links, blocked>>, pc' # "done",
             Checking' => Checking, Running
      PROVE  CompleteInv'
  <2>1. Within' = Within
    BY <1>2, WithinStays
  <2> QED BY <1>2, <2>1 DEF CompleteInv, CrawlIsComplete
<1>3. CASE ResolveTarget
  <2>1. UNCHANGED <<queue, visited, current, links>> /\ pc = "resolve"
    BY <1>3 DEF ResolveTarget
  <2>2. queue # <<>>
    BY <2>1 DEF VisitedInv, ReportInv, BlockedInv
  <2>3. CASE pc' = "done"
    BY <1>1, <2>1, <2>2, <2>3
  <2>4. CASE pc' = "launch"
    <3>1. Within' = Within /\ ~blocked
      BY <2>1, WithinStays DEF ReportInv, BlockedInv
    <3> QED BY <2>1, <2>4, <3>1 DEF CompleteInv, CrawlIsComplete
  <2> QED BY <1>3, <2>3, <2>4 DEF ResolveTarget, Return
<1>4. CASE LaunchBrowser
  BY <1>1, <1>2, <1>4 DEF LaunchBrowser, CatchAll, Return
<1>5. CASE EndCrawl
  <2>1. CASE FinishCrawl(TRUE)
    BY <1>1, <2>1 DEF FinishCrawl, Return
  <2>2. CASE FinishCrawl(FALSE)
    <3>1. pc' = "done" /\ UNCHANGED <<queue, visited, blocked, links>> /\ pc = "loop"
      BY <1>5, <2>2 DEF FinishCrawl, Return, EndCrawl
    <3>2. CASE blocked
      BY <3>1, <3>2 DEF CompleteInv, CrawlIsComplete
    <3>3. CASE queue # <<>>
      BY <1>1, <3>1, <3>3
    <3>4. CASE ~blocked /\ queue = <<>>
      <4>1. Within' = Within /\ CheckedUrls' = CheckedUrls /\ CheckedUrls = visited
        BY <2>2, <3>1, <3>4, WithinStays DEF FinishCrawl, CheckedUrls, VisitedInv
      <4>2. MaxDepth \in 0..MaxDepth /\ DOMAIN queue = {}
        BY <3>4, CrawlAssumption
      <4>3. Within[MaxDepth] \subseteq visited
        BY <3>1, <3>4, <4>2 DEF CompleteInv
      <4>4. CheckedUrls \subseteq Within[MaxDepth]
        BY DEF LimitsInv, CrawlStaysWithinLimits
      <4> QED BY <3>1, <4>1, <4>3, <4>4 DEF CompleteInv, CrawlIsComplete
    <3> QED BY <3>2, <3>3, <3>4
  <2> QED BY <1>5, <2>1, <2>2 DEF EndCrawl
<1>6. CASE TakePage
  <2>1. /\ pc = "loop" /\ UNCHANGED <<links, blocked>> /\ queue # <<>> /\ queue' = Tail(queue)
        /\ pc' \in { "loop", "progress", "check" }
    BY <1>6 DEF TakePage
  <2>2. /\ 1 \in DOMAIN queue /\ Head(queue) = queue[1] /\ Head(queue) \in Page
        /\ \A i \in DOMAIN queue : i = 1 \/ (i - 1 \in DOMAIN queue' /\ queue'[i - 1] = queue[i])
    BY <2>1, QueueShrinks DEF TypeInv
  <2>3. Within' = Within
    BY <2>1, WithinStays
  <2>4. Head(queue).url \in visited' /\ visited \subseteq visited'
    BY <1>6 DEF TakePage, SeenBefore
  <2>5. Running' /\ ~blocked' =>
           \A d \in 0..MaxDepth : \A url \in Within'[d] :
              \/ url \in visited'
              \/ \E i \in DOMAIN queue' : queue'[i].url = url /\ queue'[i].depth <= d
    BY <2>1, <2>2, <2>3, <2>4 DEF CompleteInv
  <2>6. Checking' => current' = Head(queue) /\ Head(queue).url \notin visited
    BY <1>6, <2>1 DEF TakePage, SeenBefore
  <2>7. Checking' /\ ~blocked' =>
           \A d \in 0..MaxDepth : d < current'.depth => current'.url \notin Within'[d]
    <3> SUFFICES ASSUME Checking', ~blocked', NEW d \in 0..MaxDepth, d < current'.depth,
                        current'.url \in Within'[d]
                 PROVE  FALSE
      OBVIOUS
    <3>1. current' = queue[1] /\ queue[1].url \notin visited /\ queue[1].url \in Within[d]
      BY <2>2, <2>3, <2>6
    <3>2. PICK i \in DOMAIN queue : queue[i].depth <= d
      BY <2>1, <3>1 DEF CompleteInv
    <3>3. /\ i \in Nat /\ 1 <= i
          /\ queue[i].depth \in 0..MaxDepth /\ queue[1].depth \in 0..MaxDepth
      <4>1. queue \in Seq(Page)
        BY DEF TypeInv, TypeOK, Page
      <4> QED BY <2>2, <4>1, PageTypes DEF TypeInv
    <3>4. queue[1].depth <= queue[i].depth
      BY <2>1, <2>2, <3>3 DEF OrderInv
    <3> QED BY <3>1, <3>2, <3>3, <3>4
  <2> QED BY <2>1, <2>5, <2>7 DEF CompleteInv, CrawlIsComplete
<1>7. CASE ReportProgress
  BY <1>1, <1>2, <1>7 DEF ReportProgress, CatchAll, Return
<1>8. CASE AbortCheck
  BY <1>1, <1>8 DEF AbortCheck, FinishCrawl, Return
<1>9. CASE CheckThrows
  BY <1>1, <1>9 DEF CheckThrows, CatchAll, Return
<1>10. CASE NavigationFails
  BY <1>2, <1>10 DEF NavigationFails
<1>11. ASSUME NEW final \in Landings \cup {current.url}, NEW hrefs \in Hrefs,
              PageLoads(final, hrefs)
       PROVE  CompleteInv'
  <2>1. pc = "check" /\ pc' = "loop" /\ UNCHANGED visited /\ (blocked => blocked')
    BY <1>11 DEF PageLoads
  <2> SUFFICES ASSUME ~blocked', NEW d \in 0..MaxDepth, NEW url \in Within'[d]
               PROVE  \/ url \in visited
                      \/ \E i \in DOMAIN queue' : queue'[i].url = url /\ queue'[i].depth <= d
    BY <2>1 DEF CompleteInv, CrawlIsComplete
  <2>2. url \in Within[d] \/ (current.depth < d /\ url \in links'[current.url])
    BY <1>11, <2>1, NewReach DEF CompleteInv
  <2>3. \/ url \in visited
        \/ \E i \in DOMAIN queue : queue[i].url = url /\ queue[i].depth <= d
        \/ current.depth < d /\ url \in Range(hrefs) \ Skipped
    BY <1>11, <2>1, <2>2, LinksGrow DEF CompleteInv
  <2>4. current.depth \in Nat /\ d \in Nat /\ d <= MaxDepth
    BY CrawlAssumption DEF TypeInv, TypeOK
  <2>5. CASE MayDiscover /\ Enqueue(DiscoverLinks(hrefs))
    <3>1. /\ \A i \in DOMAIN queue : i \in DOMAIN queue' /\ queue'[i] = queue[i]
          /\ \A u \in Range(hrefs) \ (Skipped \cup visited) :
                \E i \in DOMAIN queue' : queue'[i] = OneDeeper(u)
      BY <1>11, <2>5, QueueGrows DEF TypeInv, PageLoads
    <3>2. ASSUME current.depth < d, url \in Range(hrefs) \ (Skipped \cup visited)
          PROVE  \E i \in DOMAIN queue' : queue'[i].url = url /\ queue'[i].depth <= d
      <4>1. PICK i \in DOMAIN queue' : queue'[i] = OneDeeper(url)
        BY <3>1, <3>2
      <4>2. queue'[i].url = url /\ queue'[i].depth <= d
        BY <2>4, <3>2, <4>1 DEF OneDeeper
      <4> QED BY <4>2
    <3>3. CASE \E i \in DOMAIN queue : queue[i].url = url /\ queue[i].depth <= d
      BY <3>1, <3>3
    <3> QED BY <2>3, <3>2, <3>3
  <2>6. CASE ~MayDiscover /\ UNCHANGED queue
    <3>1. ~(current.depth < d)
      BY <2>4, <2>6, CrawlAssumption DEF MayDiscover
    <3> QED BY <2>3, <2>6, <3>1
  <2> QED BY <1>11, <2>5, <2>6 DEF PageLoads
<1>12. CASE CheckPage
  BY <1>8, <1>9, <1>10, <1>11, <1>12 DEF CheckPage
<1>13. CASE Abort
  BY <1>2, <1>13 DEF Abort, crawlVars
<1>14. CASE Expire
  BY <1>2, <1>14 DEF Expire, crawlVars
<1>15. CASE UNCHANGED vars
  <2>1. CASE pc = "done"
    <3>1. Within' = Within /\ CheckedUrls' = CheckedUrls
      BY <1>15, WithinStays DEF vars, crawlVars, CheckedUrls
    <3> QED BY <1>15, <2>1, <3>1 DEF vars, crawlVars, CompleteInv, CrawlIsComplete
  <2> QED BY <1>2, <1>15, <2>1 DEF vars, crawlVars
<1> QED BY <1>3, <1>4, <1>5, <1>6, <1>7, <1>12, <1>13, <1>14, <1>15 DEF Next

\* Without links only the base URL is within reach.
LEMMA NothingBeyondHome ==
    ASSUME TypeOK, \A url \in Urls : links[url] = {}, NEW d \in 0..MaxDepth
    PROVE  Within[d] = {Home}
<1> DEFINE Bad == { n \in 0..MaxDepth : Within[n] # {Home} }
<1>1. MaxDepth \in Nat /\ Home \in Urls
  BY CrawlAssumption
<1>2. Bad = {}
  <2> SUFFICES ASSUME Bad # {}
               PROVE  FALSE
    OBVIOUS
  <2>1. PICK n \in Bad : \A m \in Bad : n <= m
    <3>1. Bad \in SUBSET Nat
      BY <1>1
    <3> HIDE DEF Bad
    <3> QED BY <3>1, LeastNatural
  <2>2. n # 0
    BY WithinUnfolds
  <2>3. n \in 1..MaxDepth /\ n - 1 \in 0..MaxDepth /\ n - 1 \notin Bad
    BY <1>1, <2>1, <2>2
  <2>4. Within[n - 1] = {Home} /\ links[Home] = {}
    BY <1>1, <2>3
  <2>5. Within[n] = Within[n - 1] \cup UNION { links[u] : u \in Within[n - 1] }
    BY <2>3, WithinUnfolds
  <2>6. Within[n] = {Home}
    BY <2>4, <2>5
  <2> QED BY <2>1, <2>6
<1> QED BY <1>2

\* A crawl that leaves an empty queue behind has checked exactly the URLs within
\* maxDepth links of the base URL, whatever the site, the order of its links and
\* the depths one page is linked from: breadth-first order and the late
\* deduplication on shift lose no page (crawlSite, lines 225-226, 281-291).
THEOREM CompletedCrawlsAreComplete == Spec => []CrawlIsComplete
<1>1. Init /\ TypeInv => CompleteInv
  <2> SUFFICES ASSUME Init, TypeInv
               PROVE  CompleteInv
    OBVIOUS
  <2> DEFINE first == [url |-> Home, depth |-> 0]
  <2>1. queue = <<first>> /\ first.url = Home /\ first.depth = 0
    BY DEF Init
  <2> HIDE DEF first
  <2>2. DOMAIN queue = {1} /\ queue[1] = first
    BY <2>1
  <2>3. \A d \in 0..MaxDepth : Within[d] = {Home} /\ 0 <= d
    BY NothingBeyondHome, CrawlAssumption DEF Init, TypeInv
  <2> QED BY <2>1, <2>2, <2>3 DEF Init, CompleteInv, CrawlIsComplete, Checking
<1>2. CompleteInv => CrawlIsComplete
  BY DEF CompleteInv
<1> QED BY <1>1, <1>2, CompleteStep, TypesInvariant, VisitedInvariant, LimitsInvariant,
           ReportInvariant, OrderInvariant, PTL DEF Spec
=============================================================================
