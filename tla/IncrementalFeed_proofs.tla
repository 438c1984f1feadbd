----------------------- MODULE IncrementalFeed_proofs -----------------------
(***************************************************************************)
(* Proofs about IncrementalFeed for every number of ids, stamps, failures  *)
(* and pages, every limit of a page and every kind of source.              *)
(***************************************************************************)
EXTENDS IncrementalFeed, FiniteSetTheorems, SequenceTheorems,
        WellFoundedInduction, TLAPS

Extraction == [phase : Phases, full : BOOLEAN, since : 0..MaxTime,
               offset : Nat, total : 0..MaxId, payload : Seq(Item),
               pages : 0..MaxPages]

Types ==
    /\ feed \in Feeds
    /\ rows \in Table /\ core \in Table /\ started \in Table
    /\ clock \in 0..MaxTime /\ checkpoint \in 0..MaxTime
    /\ failures \in 0..MaxFailures
    /\ extraction \in Extraction

(* Where the loop is: the next page starts after the last record, below a  *)
(* count that was once true, and the cap is not reached.                   *)
Looping ==
    extraction.phase \in {"count", "select"} =>
        /\ extraction.offset \in 0..(MaxId - 1)
        /\ extraction.offset = Len(extraction.payload)
        /\ extraction.pages < MaxPages

(* Stamps are given in order: nothing is newer than the clock, and what    *)
(* has been read of a record is not newer than the record.                 *)
Past ==
    /\ \A i \in Ids : rows[i] <= clock
    /\ checkpoint <= clock /\ extraction.since <= clock
    /\ \A n \in DOMAIN extraction.payload :
         /\ extraction.payload[n].at <= clock
         /\ rows[extraction.payload[n].id] # 0 =>
              extraction.payload[n].at <= rows[extraction.payload[n].id]

(* Which request a run makes.                                              *)
Asked ==
    /\ feed.contract # "timestamped" => checkpoint = 0
    /\ extraction.full => extraction.since = 0
    /\ /\ extraction.phase \in {"count", "select", "sync"}
       /\ feed.contract = "timestamped" /\ ~extraction.full
       => extraction.since = checkpoint /\ checkpoint # 0

(* A table from which nothing is deleted has the ids 1 to some N, and no   *)
(* record of it gets older.                                                *)
Grown ==
    ~feed.deletes =>
        /\ \E N \in 0..MaxId : Present(rows) = 1..N
        /\ \E N \in 0..MaxId : Present(started) = 1..N
        /\ \A i \in Ids : started[i] <= rows[i]

(* The n-th record that a full snapshot reads of it is record n.           *)
Scanned ==
    LET x == extraction IN
    x.full /\ ~feed.deletes =>
        /\ x.phase \in {"count", "select", "sync"} =>
             \A n \in DOMAIN x.payload :
                /\ x.payload[n].id = n
                /\ started[n] <= x.payload[n].at
        /\ x.phase = "select" => \A i \in Present(started) : i <= x.total
        /\ x.phase = "sync" =>
             \A i \in Present(started) : i \in DOMAIN x.payload

(* While the table rests the pages are those of one result.                *)
Resting == feed.contract = "timestamped" /\ ~feed.overlap

Result == Matching(rows, extraction.since)

Read ==
    LET x == extraction IN
    Resting =>
        /\ x.phase \in {"count", "select"} =>
             /\ Len(x.payload) <= Cardinality(Result)
             /\ \A n \in 1..Len(x.payload) :
                  x.payload[n] = [id |-> OrderById(Result)[n],
                                  at |-> rows[OrderById(Result)[n]]]
        /\ x.phase = "select" => x.total = Cardinality(Result)
        /\ x.phase = "sync" =>
             /\ \A n \in DOMAIN x.payload :
                  x.payload[n].at = rows[x.payload[n].id]
             /\ Result \subseteq Delivered(x.payload)
        /\ x.phase = "commit" => \A i \in Present(rows) : core[i] = rows[i]

IInv == /\ Types /\ Looping /\ Past /\ LastIsNewest /\ Asked
        /\ Grown /\ Scanned /\ Read /\ (Resting => NothingMissed)

-----------------------------------------------------------------------------
(* The largest of a set of numbers; the limits of a page.                  *)

LEMMA MaxExists ==
  ASSUME NEW S, S \subseteq Nat, S # {}, NEW n \in Nat, \A x \in S : x <= n
  PROVE  Max(S) \in S /\ \A y \in S : y <= Max(S)
  <1> DEFINE T == {n - x : x \in S}
  <1>1. T \subseteq Nat
    <2>1. \A x \in S : n - x \in Nat
      OBVIOUS
    <2> QED
      BY <2>1
  <1>2. T # {}
    <2>1. PICK x \in S : TRUE
      OBVIOUS
    <2>2. n - x \in T
      OBVIOUS
    <2> QED
      BY <2>2
  <1>3. PICK m \in T : \A y \in T : ~ (<<y, m>> \in OpToRel(<, Nat))
    BY <1>1, <1>2, NatLessThanWellFounded, WFMin, Zenon
  <1>4. \A y \in T : ~ (y < m)
    BY <1>1, <1>3, Zenon DEF OpToRel
  <1>5. PICK x \in S : m = n - x
    OBVIOUS
  <1>6. \A y \in S : x >= y
    <2> TAKE y \in S
    <2>1. n - y \in T /\ n - x \in T /\ x \in Nat /\ y \in Nat
      OBVIOUS
    <2>2. ~ (n - y < n - x)
      BY <1>4, <1>5, <2>1
    <2> QED
      BY <2>1, <2>2
  <1>7. /\ Max(S) \in S /\ \A y \in S : Max(S) >= y
    BY <1>6 DEF Max
  <1>8. \A y \in S : y <= Max(S)
    BY <1>7
  <1> QED
    BY <1>7, <1>8

LEMMA MaxIs ==
  ASSUME NEW S, S \subseteq Nat, NEW m \in S, \A y \in S : y <= m
  PROVE  Max(S) = m
  <1>1. \A y \in S : m >= y
    OBVIOUS
  <1>2. Max(S) \in S /\ \A y \in S : Max(S) >= y
    BY <1>1 DEF Max
  <1>3. Max(S) \in Nat /\ m \in Nat /\ Max(S) >= m /\ m >= Max(S)
    BY <1>1, <1>2
  <1> QED
    BY <1>3

LEMMA PageLimits ==
  ASSUME NEW a \in Nat, NEW b \in Nat, NEW o \in Nat
  PROVE  /\ Min({a, Max({0, b - o})}) \in Nat
         /\ Min({a, Max({0, b - o})}) <= a
         /\ Min({a, Max({0, b - o})}) > 0 =>
              o + Min({a, Max({0, b - o})}) <= b
         /\ o <= b => o + Min({a, Max({0, b - o})}) <= b
         /\ a > 0 /\ Min({a, Max({0, b - o})}) = 0 => b <= o
  <1> DEFINE m == IF b - o >= 0 THEN b - o ELSE 0
             l == IF a <= m THEN a ELSE m
  <1>1. m \in {0, b - o} /\ \A y \in {0, b - o} : m >= y
    OBVIOUS
  <1>2. Max({0, b - o}) \in {0, b - o}
        /\ \A y \in {0, b - o} : Max({0, b - o}) >= y
    BY <1>1 DEF Max
  <1>3. Max({0, b - o}) = m
    BY <1>1, <1>2
  <1>4. m \in Nat
    OBVIOUS
  <1> HIDE DEF m
  <1>5. l \in {a, m} /\ \A y \in {a, m} : l =< y
    BY <1>4
  <1>6. Min({a, m}) \in {a, m} /\ \A y \in {a, m} : Min({a, m}) =< y
    BY <1>5 DEF Min
  <1>7. Min({a, m}) = l
    BY <1>4, <1>5, <1>6
  <1> QED
    BY <1>3, <1>4, <1>7 DEF m

-----------------------------------------------------------------------------
(* ORDER BY id: the ranks of the ids.                                      *)

LEMMA RankOfIds ==
  ASSUME NEW S, S \subseteq Nat, IsFiniteSet(S),
         NEW i \in S
  PROVE  /\ IsFiniteSet({j \in S : j <= i})
         /\ Cardinality({j \in S : j <= i}) \in 1..Cardinality(S)
         /\ \A k \in S : i < k =>
              Cardinality({j \in S : j <= i}) < Cardinality({j \in S : j <= k})
  <1> DEFINE Below(k) == {j \in S : j <= k}
  <1>1. \A k \in S : /\ IsFiniteSet(Below(k))
                     /\ Cardinality(Below(k)) \in Nat
                     /\ Cardinality(Below(k)) <= Cardinality(S)
    <2>1. \A k \in S : Below(k) \in SUBSET S
      OBVIOUS
    <2> QED
      BY <2>1, FS_Subset, FS_CardinalityType
  <1>2. Cardinality(Below(i)) # 0
    <2>1. i \in Below(i)
      OBVIOUS
    <2> QED
      BY <1>1, <2>1, FS_EmptySet
  <1>3. Cardinality(S) \in Nat
    BY FS_CardinalityType
  <1>4. ASSUME NEW k \in S, i < k
        PROVE  Cardinality(Below(i)) < Cardinality(Below(k))
    <2>1. Below(i) \in SUBSET Below(k)
      <3>1. i \in Nat /\ k \in Nat /\ \A j \in S : j \in Nat
        OBVIOUS
      <3>2. \A j \in S : j <= i => j <= k
        BY <1>4, <3>1
      <3> QED
        BY <3>2
    <2>2. k \in Below(k) /\ k \notin Below(i)
      BY <1>4
    <2>3. /\ Cardinality(Below(i)) <= Cardinality(Below(k))
          /\ Cardinality(Below(k)) # Cardinality(Below(i))
      <3> HIDE DEF Below
      <3> QED
        BY <1>1, <2>1, <2>2, FS_Subset
    <2> QED
      BY <1>1, <2>3
  <1> QED
    BY <1>1, <1>2, <1>3, <1>4

(* OrderById has each id of the set once, the smaller ones first.          *)
LEMMA OrderedIds ==
  ASSUME NEW S, S \subseteq Nat, IsFiniteSet(S)
  PROVE  /\ OrderById(S) \in [1..Cardinality(S) -> S]
         /\ \A m, n \in 1..Cardinality(S) :
              m < n => OrderById(S)[m] < OrderById(S)[n]
         /\ \A i \in S : \E n \in 1..Cardinality(S) : OrderById(S)[n] = i
         /\ Cardinality(S) \in Nat
  <1> DEFINE N == Cardinality(S)
             rank == [i \in S |-> Cardinality({j \in S : j <= i})]
             f == [m \in 1..N |-> CHOOSE i \in S : rank[i] = m]
  <1>1. N \in Nat /\ IsFiniteSet(1..N) /\ Cardinality(1..N) = N
    BY FS_CardinalityType, FS_Interval
  <1>2. rank \in [S -> 1..N]
    BY RankOfIds
  <1>3. \A i, k \in S : i < k => rank[i] < rank[k]
    BY RankOfIds
  <1> HIDE DEF rank
  <1>4. rank \in Injection(S, 1..N)
    <2>1. \A i, k \in S : rank[i] = rank[k] => i = k
      BY <1>2, <1>3
    <2> QED
      BY <1>2, <2>1 DEF Injection, IsInjective
  <1>5. rank \in Surjection(S, 1..N)
    BY <1>1, <1>4, FS_Injection
  <1>6. \A m \in 1..N : \E i \in S : rank[i] = m
    BY <1>5 DEF Surjection
  <1>7. \A m \in 1..N : f[m] \in S /\ rank[f[m]] = m
    BY <1>6
  <1>8. f \in [1..N -> S]
    BY <1>7
  <1>9. \A m, n \in 1..N : m < n => f[m] < f[n]
    <2> HIDE DEF f
    <2> TAKE m, n \in 1..N
    <2>1. /\ f[m] \in Nat /\ f[n] \in Nat /\ f[m] \in S /\ f[n] \in S
          /\ rank[f[m]] = m /\ rank[f[n]] = n
      BY <1>7
    <2>2. f[n] < f[m] => n < m
      BY <1>3, <2>1
    <2> QED
      BY <1>1, <2>1, <2>2
  <1> HIDE DEF f
  <1> DEFINE s == OrderById(S)
  <1>10. /\ s \in [1..N -> S]
         /\ \A m, n \in DOMAIN s : m < n => s[m] < s[n]
    <2>1. f \in [1..N -> S] /\ \A m, n \in DOMAIN f : m < n => f[m] < f[n]
      BY <1>8, <1>9
    <2> QED
      BY <2>1 DEF OrderById
  <1> HIDE DEF s
  <1>11. \A m, n \in 1..N : m < n => s[m] < s[n]
    BY <1>10
  <1>12. s \in Injection(1..N, S)
    <2>1. \A m, n \in 1..N : s[m] = s[n] => m = n
      <3> TAKE m, n \in 1..N
      <3>1. s[m] \in Nat /\ s[n] \in Nat
        BY <1>10
      <3> QED
        BY <1>1, <1>11, <3>1
    <2> QED
      BY <1>10, <2>1 DEF Injection, IsInjective
  <1>13. s \in Surjection(1..N, S)
    BY <1>1, <1>12, FS_Injection
  <1>14. \A i \in S : \E n \in 1..N : s[n] = i
    BY <1>13 DEF Surjection
  <1> QED
    BY <1>1, <1>10, <1>11, <1>14 DEF s

(* The ids 1 to N are in their places.                                     *)
LEMMA OrderOfInterval ==
  ASSUME NEW N \in Nat
  PROVE  /\ Cardinality(1..N) = N
         /\ \A m \in 1..N : OrderById(1..N)[m] = m
  <1> DEFINE S == 1..N
             s == OrderById(S)
  <1>1. IsFiniteSet(S) /\ Cardinality(S) = N /\ S \subseteq Nat
    BY FS_Interval
  <1> HIDE DEF S
  <1>2. /\ s \in [1..N -> S]
        /\ \A m, n \in 1..N : m < n => s[m] < s[n]
        /\ \A i \in S : \E n \in 1..N : s[n] = i
    BY <1>1, OrderedIds
  <1> HIDE DEF s
  <1>3. ASSUME NEW m \in 1..N PROVE s[m] = m
    <2> DEFINE T == {j \in S : j <= s[m]}
               g == [k \in 1..m |-> s[k]]
    <2>1. m \in Nat /\ 1..m \subseteq 1..N /\ s[m] \in Nat /\ s[m] \in 1..N
      BY <1>1, <1>2 DEF S
    <2>2. \A k \in 1..N : s[k] \in S /\ s[k] \in Nat
      BY <1>1, <1>2
    <2>3. g \in [1..m -> T]
      <3>1. \A k \in 1..m : s[k] <= s[m]
        <4> TAKE k \in 1..m
        <4>1. k = m \/ k < m
          BY <2>1
        <4> QED
          BY <1>2, <2>1, <2>2, <4>1
      <3> QED
        BY <2>1, <2>2, <3>1
    <2>4. \A j \in T : \E k \in 1..m : g[k] = j
      <3> TAKE j \in T
      <3>1. PICK k \in 1..N : s[k] = j
        BY <1>2
      <3>2. ~ (m < k)
        BY <1>2, <2>1, <2>2, <3>1
      <3>3. k \in 1..m
        BY <2>1, <3>2
      <3> QED
        BY <3>1, <3>3
    <2>5. \A k, l \in 1..m : g[k] = g[l] => k = l
      <3> TAKE k, l \in 1..m
      <3>1. s[k] = s[l] => ~ (k < l) /\ ~ (l < k)
        BY <1>2, <2>1, <2>2
      <3> QED
        BY <2>1, <3>1
    <2> HIDE DEF g, T
    <2>6. g \in Bijection(1..m, T)
      BY <2>3, <2>4, <2>5
      DEF Bijection, Injection, Surjection, IsInjective
    <2>7. Cardinality(T) = m
      <3>1. IsFiniteSet(1..m) /\ Cardinality(1..m) = m
        BY <2>1, FS_Interval
      <3>2. ExistsBijection(1..m, T)
        BY <2>6 DEF ExistsBijection
      <3> QED
        BY <3>1, <3>2, FS_Bijection
    <2>8. T = 1..s[m]
      BY <2>1 DEF S, T
    <2>9. Cardinality(T) = s[m]
      BY <2>1, <2>8, FS_Interval
    <2> QED
      BY <2>7, <2>9
  <1> QED
    BY <1>1, <1>3 DEF S, s

-----------------------------------------------------------------------------
(* The bounds, the records the API selects and the pages it cuts.          *)

LEMMA Bounds ==
  /\ MaxId \in Nat \ {0} /\ MaxPages \in Nat \ {0}
  /\ MaxTime \in Nat /\ MaxFailures \in Nat
  /\ Ids \subseteq Nat /\ Stamps \cup {0} = 0..MaxTime
  /\ \A n \in Ids : n \in 1..MaxId
  BY ConstantsAssumption DEF Ids, Stamps

LEMMA Limits ==
  ASSUME feed \in Feeds
  PROVE  feed \in Feed /\ feed.limit \in Nat /\ feed.limit > 0
  BY ConstantsAssumption DEF Feed

LEMMA Matched ==
  ASSUME NEW t \in Table, NEW since \in 0..MaxTime
  PROVE  /\ Matching(t, since) \subseteq Present(t)
         /\ Matching(t, since) \subseteq Ids
         /\ Matching(t, since) \subseteq Nat
         /\ IsFiniteSet(Matching(t, since))
         /\ Cardinality(Matching(t, since)) \in 0..MaxId
         /\ since = 0 => Matching(t, since) = Present(t)
  <1> DEFINE M == Matching(t, since)
  <1>1. /\ M \subseteq Present(t) /\ Present(t) \subseteq Ids
        /\ since = 0 => M = Present(t)
    BY DEF Matching, Present
  <1> HIDE DEF M
  <1>2. Ids \subseteq Nat /\ IsFiniteSet(Ids) /\ Cardinality(Ids) = MaxId
    BY Bounds, FS_Interval DEF Ids
  <1>3. M \in SUBSET Ids
    BY <1>1
  <1>4. IsFiniteSet(M) /\ Cardinality(M) <= Cardinality(Ids)
    BY <1>2, <1>3, FS_Subset
  <1>5. Cardinality(M) \in Nat
    BY <1>4, FS_CardinalityType
  <1>6. Cardinality(M) \in 0..MaxId
    <2>1. MaxId \in Nat /\ Cardinality(M) <= MaxId
      BY <1>2, <1>4, Bounds
    <2> QED
      BY <1>5, <2>1
  <1>7. M \subseteq Nat
    BY <1>1, <1>2
  <1> QED
    BY <1>1, <1>4, <1>6, <1>7 DEF M

(* The records of a page are those of the whole result at these places.    *)
LEMMA PageFacts ==
  ASSUME feed \in Feeds, NEW t \in Table, NEW since \in 0..MaxTime,
         NEW o \in Nat
  PROVE  LET M == Matching(t, since)
             C == Cardinality(M)
         IN \E k \in Nat :
              /\ Page(t, since, o) \in Seq(Item)
              /\ Len(Page(t, since, o)) = k
              /\ k > 0 => o + k <= C
              /\ k = 0 => C <= o
              /\ \A n \in 1..k :
                   /\ o + n \in 1..C
                   /\ OrderById(M)[o + n] \in M
                   /\ Page(t, since, o)[n] =
                        [id |-> OrderById(M)[o + n],
                         at |-> t[OrderById(M)[o + n]]]
  <1> DEFINE M == Matching(t, since)
             C == Cardinality(M)
             ids == OrderById(M)
             k == Min({feed.limit, Max({0, Len(ids) - o})})
             item == [n \in 1..k |->
                        [id |-> ids[o + n], at |-> t[ids[o + n]]]]
  <1>1. /\ M \subseteq Present(t) /\ M \subseteq Ids /\ M \subseteq Nat
        /\ IsFiniteSet(M) /\ C \in Nat
    BY Matched, Bounds
  <1>2. Page(t, since, o) = item
    BY DEF Page
  <1> HIDE DEF M
  <1>3. ids \in [1..C -> M]
    BY <1>1, OrderedIds
  <1>4. ids \in Seq(M) /\ Len(ids) = C
    BY <1>1, <1>3
  <1>5. /\ k \in Nat
        /\ k > 0 => o + k <= C
        /\ k = 0 => C <= o
    BY <1>1, <1>4, PageLimits, Limits
  <1> HIDE DEF k, ids, C
  <1>6. \A n \in 1..k : o + n \in 1..C
    BY <1>1, <1>5
  <1>7. \A n \in 1..k : ids[o + n] \in M
    BY <1>3, <1>6
  <1>8. \A i \in M : i \in Ids /\ t[i] \in Stamps
    BY <1>1 DEF Present, Table
  <1>9. \A n \in 1..k : item[n] \in Item
    BY <1>7, <1>8 DEF Item
  <1>10. item \in Seq(Item) /\ Len(item) = k
    <2> HIDE DEF item
    <2>1. DOMAIN item = 1..k /\ item = [n \in 1..k |-> item[n]]
      BY DEF item
    <2>2. item \in [1..k -> Item]
      BY <1>9, <2>1
    <2> QED
      BY <1>5, <2>2
  <1>11. \A n \in 1..k :
           item[n] = [id |-> ids[o + n], at |-> t[ids[o + n]]]
    OBVIOUS
  <1> HIDE DEF item
  <1> QED
    BY <1>2, <1>5, <1>6, <1>7, <1>10, <1>11 DEF ids, C, M

LEMMA ConcatenationFacts ==
  ASSUME NEW S, NEW s \in Seq(S), NEW u \in Seq(S)
  PROVE  /\ s \o u \in Seq(S) /\ Len(s \o u) = Len(s) + Len(u)
         /\ DOMAIN (s \o u) = 1..(Len(s) + Len(u)) /\ DOMAIN s = 1..Len(s)
         /\ \A n \in 1..Len(s) : (s \o u)[n] = s[n]
         /\ \A n \in 1..(Len(s) + Len(u)) :
              n > Len(s) => (s \o u)[n] = u[n - Len(s)]
  OBVIOUS

(* What has been collected after the next page.                            *)
LEMMA Appended ==
  ASSUME Types, Looping, extraction.phase = "select"
  PROVE  LET x == extraction
             L == Len(x.payload)
             items == Page(rows, x.since, x.offset)
             P == Collected(x, items)
             C == Cardinality(Result)
         IN \E k \in Nat :
              /\ items \in Seq(Item) /\ Len(items) = k
              /\ P \in Seq(Item) /\ Len(P) = L + k /\ L \in Nat
              /\ DOMAIN P = 1..(L + k) /\ DOMAIN x.payload = 1..L
              /\ L <= C => L + k <= C
              /\ \A n \in 1..L : P[n] = x.payload[n]
              /\ \A n \in 1..(L + k) : n > L =>
                   /\ n \in 1..C /\ OrderById(Result)[n] \in Result
                   /\ P[n] = [id |-> OrderById(Result)[n],
                              at |-> rows[OrderById(Result)[n]]]
  <1> DEFINE x == extraction
             L == Len(x.payload)
             items == Page(rows, x.since, x.offset)
             P == Collected(x, items)
             C == Cardinality(Result)
             Order == OrderById(Result)
             entry(n) == [id |-> Order[n], at |-> rows[Order[n]]]
  <1>1. /\ x.payload \in Seq(Item) /\ L \in Nat /\ x.offset = L
        /\ rows \in Table /\ feed \in Feeds /\ x.since \in 0..MaxTime
    BY DEF Types, Looping, Extraction
  <1>2. PICK k \in Nat :
           /\ items \in Seq(Item) /\ Len(items) = k
           /\ k > 0 => L + k <= C
           /\ \A n \in 1..k :
                /\ L + n \in 1..C
                /\ Order[L + n] \in Result
                /\ items[n] = entry(L + n)
    <2>1. x.offset \in Nat
      BY <1>1
    <2>2. PICK k \in Nat :
            /\ items \in Seq(Item) /\ Len(items) = k
            /\ k > 0 => x.offset + k <= C
            /\ \A n \in 1..k :
                 /\ x.offset + n \in 1..C
                 /\ Order[x.offset + n] \in Result
                 /\ items[n] = entry(x.offset + n)
      BY <1>1, <2>1, PageFacts DEF Result
    <2> HIDE DEF items, Order, C
    <2> QED
      BY <1>1, <2>2
  <1> HIDE DEF items, Order, C
  <1>3. /\ P \in Seq(Item) /\ Len(P) = L + k
        /\ DOMAIN P = 1..(L + k) /\ DOMAIN x.payload = 1..L
        /\ \A n \in 1..L : P[n] = x.payload[n]
        /\ \A n \in 1..(L + k) : n > L => P[n] = items[n - L]
    <2> DEFINE s == x.payload
    <2>1. s \in Seq(Item) /\ L = Len(s) /\ P = s \o items
      BY <1>1 DEF Collected
    <2>2. x.payload = s
      OBVIOUS
    <2> HIDE DEF s, P, L
    <2>3. /\ s \o items \in Seq(Item) /\ Len(s \o items) = L + k
          /\ DOMAIN (s \o items) = 1..(L + k) /\ DOMAIN s = 1..L
          /\ \A n \in 1..L : (s \o items)[n] = s[n]
          /\ \A n \in 1..(L + k) : n > L => (s \o items)[n] = items[n - L]
      BY <1>2, <2>1, ConcatenationFacts
    <2> QED
      BY <2>1, <2>2, <2>3
  <1> HIDE DEF P, L
  <1>4. ASSUME NEW n \in 1..(L + k), n > L
        PROVE  /\ n \in 1..C /\ Order[n] \in Result
               /\ P[n] = entry(n)
    <2>1. n - L \in 1..k /\ L + (n - L) = n
      BY <1>1, <1>2, <1>4
    <2> QED
      BY <1>2, <1>3, <1>4, <2>1
  <1>5. L <= C => L + k <= C
    BY <1>1, <1>2
  <1> QED
    BY <1>1, <1>2, <1>3, <1>4, <1>5 DEF P, L, items, Order, C
-----------------------------------------------------------------------------
(* The API's table changes.                                                *)

LEMMA Numbers ==
  ASSUME Types
  PROVE  /\ \A i \in Ids : /\ rows[i] \in 0..MaxTime /\ core[i] \in 0..MaxTime
                           /\ started[i] \in 0..MaxTime
         /\ extraction.payload \in Seq(Item)
         /\ \A n \in DOMAIN extraction.payload :
              /\ extraction.payload[n].id \in Ids
              /\ extraction.payload[n].at \in Nat
              /\ extraction.payload[n].at \in 1..MaxTime
         /\ extraction.since \in Nat /\ clock \in Nat /\ checkpoint \in Nat
         /\ MaxTime \in Nat /\ Len(extraction.payload) \in Nat
         /\ DOMAIN extraction.payload = 1..Len(extraction.payload)
  <1>1. /\ \A i \in Ids : /\ rows[i] \in 0..MaxTime /\ core[i] \in 0..MaxTime
                          /\ started[i] \in 0..MaxTime
    BY Bounds DEF Types, Table
  <1>2. /\ extraction.payload \in Seq(Item) /\ extraction.since \in 0..MaxTime
        /\ clock \in 0..MaxTime /\ checkpoint \in 0..MaxTime
    BY DEF Types, Extraction
  <1>3. \A n \in DOMAIN extraction.payload : extraction.payload[n] \in Item
    BY <1>2
  <1>4. MaxTime \in Nat
    BY Bounds
  <1> QED
    BY <1>1, <1>2, <1>3, <1>4 DEF Item, Stamps

LEMMA MutateEffect ==
  ASSUME Types, NEW k \in 0..MaxId, NEW n \in 0..MaxId, Mutate(k, n)
  PROVE  /\ clock' = clock + 1 /\ clock' \in 0..MaxTime
         /\ rows' \in Table
         /\ \A i \in Ids : rows'[i] = rows[i] \/ rows'[i] = clock'
         /\ \A N \in 0..MaxId : Present(rows) = 1..N =>
              /\ N + n \in 0..MaxId /\ Present(rows)' = 1..(N + n)
  <1> DEFINE top == IF Present(rows) = {} THEN 0 ELSE Max(Present(rows))
             firsts == {i \in Present(rows) :
                          Cardinality({j \in Present(rows) : j <= i}) <= k}
             renewed == firsts \cup (top + 1)..(top + n)
  <1>1. /\ clock < MaxTime /\ clock' = clock + 1 /\ top + n <= MaxId
        /\ rows' = [i \in Ids |-> IF i \in renewed THEN clock' ELSE rows[i]]
    BY DEF Mutate
  <1>2. firsts \subseteq Present(rows)
    OBVIOUS
  <1> HIDE DEF firsts, top
  <1>3. clock' \in 0..MaxTime /\ clock' \in Stamps
    BY <1>1, Numbers DEF Stamps
  <1>4. rows' \in Table
    BY <1>1, <1>3 DEF Types, Table
  <1>5. \A i \in Ids : rows'[i] = rows[i] \/ rows'[i] = clock'
    BY <1>1
  <1>6. ASSUME NEW N \in 0..MaxId, Present(rows) = 1..N
        PROVE  N + n \in 0..MaxId /\ Present(rows)' = 1..(N + n)
    <2>1. top = N
      <3>1. MaxId \in Nat /\ N \in Nat
        BY Bounds
      <3>2. CASE N = 0
        <4>1. Present(rows) = {}
          BY <1>6, <3>2
        <4> QED
          BY <3>2, <4>1 DEF top
      <3>3. CASE N # 0
        <4>1. N \in 1..N /\ 1..N \subseteq Nat /\ \A y \in 1..N : y <= N
          BY <3>1, <3>3
        <4>2. Max(1..N) = N
          BY <4>1, MaxIs
        <4> QED
          BY <1>6, <4>1, <4>2 DEF top
      <3> QED
        BY <3>2, <3>3
    <2>2. /\ MaxId \in Nat /\ N \in Nat /\ n \in Nat /\ N + n <= MaxId
          /\ clock' \in Nat /\ clock' # 0
      BY <1>1, <1>3, <2>1, Bounds, Numbers DEF Stamps
    <2>3. ASSUME NEW i \in Ids PROVE rows'[i] # 0 <=> i \in 1..(N + n)
      <3>1. i \in Nat /\ i >= 1
        BY Bounds
      <3>2. rows[i] # 0 <=> i \in 1..N
        BY <1>6 DEF Present
      <3>3. rows'[i] # 0 <=> i \in renewed \/ rows[i] # 0
        BY <1>1, <2>2
      <3>4. i \in renewed => i \in 1..N \/ i \in (N + 1)..(N + n)
        BY <1>2, <1>6, <2>1
      <3>5. i \in (N + 1)..(N + n) => i \in renewed
        BY <2>1
      <3> HIDE DEF renewed
      <3>6. i \in 1..(N + n) <=> i \in 1..N \/ i \in (N + 1)..(N + n)
        BY <2>2, <3>1
      <3> QED
        BY <3>2, <3>3, <3>4, <3>5, <3>6
    <2>4. 1..(N + n) \subseteq Ids
      BY <2>2 DEF Ids
    <2>5. Present(rows)' = 1..(N + n)
      BY <2>3, <2>4 DEF Present
    <2> QED
      BY <2>2, <2>5
  <1> QED
    BY <1>1, <1>3, <1>4, <1>5, <1>6

(* The run, Core and the checkpoint do not notice a change of the table;   *)
(* while the table rests for a run, it changes between runs only.          *)
LEMMA MutateKeeps ==
  ASSUME IInv, NEW k \in 0..MaxId, NEW n \in 0..MaxId, Mutate(k, n)
  PROVE  IInv'
  <1> USE DEF IInv
  <1>1. /\ UNCHANGED <<feed, extraction, core, checkpoint, failures, started>>
        /\ feed.overlap \/ extraction.phase = "idle"
    BY DEF Mutate, MayChange
  <1>2. /\ clock' = clock + 1 /\ clock' \in 0..MaxTime
        /\ rows' \in Table
        /\ \A i \in Ids : rows'[i] = rows[i] \/ rows'[i] = clock'
        /\ \A N \in 0..MaxId : Present(rows) = 1..N =>
             /\ N + n \in 0..MaxId /\ Present(rows)' = 1..(N + n)
    BY MutateEffect
  <1>3. /\ \A i \in Ids : rows[i] \in Nat /\ rows[i] <= clock
        /\ clock \in Nat /\ checkpoint \in Nat /\ checkpoint <= clock
        /\ extraction.since \in Nat /\ extraction.since <= clock
    BY Numbers DEF Past
  <1>4. \A i \in Ids : rows'[i] \in Nat /\ rows[i] <= rows'[i]
                       /\ rows'[i] <= clock'
    BY <1>2, <1>3
  <1>5. Types'
    BY <1>1, <1>2 DEF Types
  <1>6. Looping' /\ LastIsNewest' /\ Asked'
    BY <1>1 DEF Looping, LastIsNewest, Asked
  <1>7. Past'
    <2>1. ASSUME NEW m \in DOMAIN extraction.payload
          PROVE  /\ extraction.payload[m].at <= clock'
                 /\ rows'[extraction.payload[m].id] # 0 =>
                      extraction.payload[m].at
                        <= rows'[extraction.payload[m].id]
      <3> DEFINE p == extraction.payload[m]
      <3>1. p.id \in Ids /\ p.at \in Nat /\ p.at <= clock
            /\ (rows[p.id] # 0 => p.at <= rows[p.id])
        BY Numbers DEF Past
      <3> HIDE DEF p
      <3>2. p.at <= clock' /\ (rows'[p.id] # 0 => p.at <= rows'[p.id])
        BY <1>2, <1>3, <3>1
      <3> QED
        BY <3>2 DEF p
    <2>2. checkpoint <= clock' /\ extraction.since <= clock'
      BY <1>2, <1>3
    <2> QED
      BY <1>1, <1>4, <2>1, <2>2 DEF Past
  <1>8. Grown'
    <2>1. ASSUME ~feed.deletes
          PROVE  /\ \E N \in 0..MaxId : Present(rows)' = 1..N
                 /\ \E N \in 0..MaxId : Present(started) = 1..N
                 /\ \A i \in Ids : started[i] <= rows'[i]
      <3>1. /\ \E N \in 0..MaxId : Present(rows) = 1..N
            /\ \E N \in 0..MaxId : Present(started) = 1..N
            /\ \A i \in Ids : started[i] <= rows[i]
        BY <2>1 DEF Grown
      <3>2. \A i \in Ids : started[i] \in Nat
        BY Numbers
      <3>3. \A i \in Ids : started[i] <= rows'[i]
        BY <1>3, <1>4, <3>1, <3>2
      <3> QED
        BY <1>2, <3>1, <3>3
    <2>2. Present(started)' = Present(started)
      BY <1>1 DEF Present
    <2> QED
      BY <1>1, <2>1, <2>2 DEF Grown
  <1>9. Scanned'
    BY <1>1 DEF Scanned, Present
  <1>10. Read'
    BY <1>1 DEF Read, Resting
  <1>11. Resting' => NothingMissed'
    <2>1. ASSUME Resting, NEW i \in Ids, rows'[i] # 0, rows'[i] <= checkpoint
          PROVE  core[i] = rows'[i]
      <3>1. rows'[i] = rows[i]
        BY <1>2, <1>3, <2>1
      <3> QED
        BY <2>1, <3>1 DEF NothingMissed, Present
    <2> QED
      BY <1>1, <2>1 DEF NothingMissed, Present, Resting
  <1> QED
    BY <1>5, <1>6, <1>7, <1>8, <1>9, <1>10, <1>11

LEMMA DeleteKeeps ==
  ASSUME IInv, NEW d \in Ids, Delete(d)
  PROVE  IInv'
  <1> USE DEF IInv
  <1>1. /\ UNCHANGED <<feed, extraction, core, checkpoint, failures, started>>
        /\ feed.overlap \/ extraction.phase = "idle"
        /\ feed.deletes /\ clock' = clock + 1 /\ clock < MaxTime
        /\ rows' = [rows EXCEPT ![d] = 0]
    BY DEF Delete, MayChange
  <1>2. rows \in Table
    BY DEF Types
  <1>3. rows' \in Table /\ \A i \in Ids : rows'[i] = rows[i] \/ rows'[i] = 0
    BY <1>1, <1>2 DEF Table
  <1>4. /\ \A i \in Ids : rows[i] \in Nat /\ rows[i] <= clock
        /\ clock \in Nat /\ checkpoint \in Nat /\ checkpoint <= clock
        /\ extraction.since \in Nat /\ extraction.since <= clock
    BY Numbers DEF Past
  <1>5. clock' \in 0..MaxTime
    BY <1>1, Numbers
  <1>6. Types'
    BY <1>1, <1>3, <1>5 DEF Types
  <1>7. Looping' /\ LastIsNewest' /\ Asked'
    BY <1>1 DEF Looping, LastIsNewest, Asked
  <1>8. Past'
    <2>1. ASSUME NEW m \in DOMAIN extraction.payload
          PROVE  /\ extraction.payload[m].at <= clock'
                 /\ rows'[extraction.payload[m].id] # 0 =>
                      extraction.payload[m].at
                        <= rows'[extraction.payload[m].id]
      <3> DEFINE p == extraction.payload[m]
      <3>1. p.id \in Ids /\ p.at \in Nat /\ p.at <= clock
            /\ (rows[p.id] # 0 => p.at <= rows[p.id])
        BY Numbers DEF Past
      <3> HIDE DEF p
      <3>2. p.at <= clock' /\ (rows'[p.id] # 0 => p.at <= rows'[p.id])
        BY <1>1, <1>3, <1>4, <3>1
      <3> QED
        BY <3>2 DEF p
    <2>2. /\ checkpoint <= clock' /\ extraction.since <= clock'
          /\ \A i \in Ids : rows'[i] <= clock'
      BY <1>1, <1>3, <1>4
    <2> QED
      BY <1>1, <2>1, <2>2 DEF Past
  <1>9. Grown' /\ Scanned'
    BY <1>1 DEF Grown, Scanned
  <1>10. Read'
    BY <1>1 DEF Read, Resting
  <1>11. Resting' => NothingMissed'
    BY <1>1, <1>3 DEF NothingMissed, Present, Resting
  <1> QED
    BY <1>6, <1>7, <1>8, <1>9, <1>10, <1>11
-----------------------------------------------------------------------------
(* A run begins, and a run ends without a result.                          *)

LEMMA Pristine ==
  /\ NoExtraction \in Extraction
  /\ NoExtraction.phase = "idle" /\ NoExtraction.payload = <<>>
  /\ NoExtraction.since = 0 /\ NoExtraction.full = FALSE
  /\ NoExtraction.offset = 0 /\ NoExtraction.pages = 0
  /\ Len(<<>>) = 0 /\ DOMAIN <<>> = {}
  <1>1. /\ "idle" \in Phases /\ FALSE \in BOOLEAN /\ 0 \in 0..MaxTime
        /\ 0 \in Nat /\ 0 \in 0..MaxId /\ 0 \in 0..MaxPages
    BY Bounds DEF Phases
  <1>2. <<>> \in Seq(Item)
    OBVIOUS
  <1> QED
    BY <1>1, <1>2 DEF NoExtraction, Extraction

LEMMA AbandonKeeps ==
  ASSUME IInv, Abandon, failures' \in 0..MaxFailures
  PROVE  IInv'
  <1> USE DEF IInv
  <1>1. /\ UNCHANGED <<feed, rows, clock, core, checkpoint>>
        /\ extraction' = NoExtraction /\ started' = rows
    BY DEF Abandon
  <1>2. Types'
    BY <1>1, Pristine DEF Types
  <1>3. Looping' /\ LastIsNewest' /\ Past'
    BY <1>1, Pristine, Numbers DEF Looping, LastIsNewest, Past
  <1>4. Asked' /\ Scanned' /\ Read'
    BY <1>1, Pristine DEF Asked, Scanned, Read, Resting
  <1>5. Grown'
    BY <1>1, Numbers DEF Grown, Present
  <1>6. Resting' => NothingMissed'
    BY <1>1 DEF NothingMissed, Present, Resting
  <1> QED
    BY <1>2, <1>3, <1>4, <1>5, <1>6

LEMMA StartKeeps ==
  ASSUME IInv, NEW force \in BOOLEAN, StartExtraction(force)
  PROVE  IInv'
  <1> USE DEF IInv
  <1> DEFINE before == IF force \/ feed.contract # "timestamped"
                         THEN 0 ELSE checkpoint
             full == \/ force \/ feed.contract = "snapshot"
                     \/ feed.contract = "timestamped" /\ before = 0
             x == [NoExtraction EXCEPT !.phase = "count", !.full = full,
                                       !.since = before]
  <1>1. /\ UNCHANGED <<feed, rows, clock, core, checkpoint, failures>>
        /\ extraction' = x /\ started' = rows
    BY DEF StartExtraction
  <1>2. /\ x.phase = "count" /\ x.full = full /\ x.since = before
        /\ x.payload = <<>> /\ x.offset = 0 /\ x.pages = 0
    BY DEF NoExtraction
  <1>3. x \in Extraction /\ before \in Nat /\ before <= clock
    <2>1. /\ before \in 0..MaxTime /\ "count" \in Phases /\ full \in BOOLEAN
          /\ before \in Nat /\ before <= clock
      BY Numbers, Bounds DEF Phases, Past, Types
    <2> HIDE DEF before, full
    <2> QED
      BY <2>1, Pristine DEF Extraction
  <1>4. /\ full => before = 0
        /\ feed.contract = "timestamped" /\ ~full
           => before = checkpoint /\ checkpoint # 0
    OBVIOUS
  <1> HIDE DEF x, full, before
  <1>5. Types'
    BY <1>1, <1>3 DEF Types
  <1>6. Looping' /\ LastIsNewest'
    BY <1>1, <1>2, Pristine, Bounds DEF Looping, LastIsNewest
  <1>7. Past'
    BY <1>1, <1>2, <1>3, Pristine DEF Past
  <1>8. Asked'
    BY <1>1, <1>2, <1>4 DEF Asked
  <1>9. Scanned'
    BY <1>1, <1>2, Pristine DEF Scanned
  <1>10. Grown'
    BY <1>1, Numbers DEF Grown, Present
  <1>11. Read'
    <2>1. rows \in Table /\ x.since \in 0..MaxTime
      BY <1>3 DEF Types, Extraction
    <2>2. Cardinality(Matching(rows, x.since)) \in Nat
      BY <2>1, Matched, Bounds
    <2>3. Result' = Matching(rows, x.since)
      BY <1>1 DEF Result, Matching, Present
    <2>4. /\ Len(extraction'.payload) = 0 /\ 1..0 = {}
          /\ extraction'.phase = "count"
          /\ Len(extraction'.payload) <= Cardinality(Result')
      BY <1>1, <1>2, <2>2, <2>3, Pristine
    <2> QED
      BY <2>4 DEF Read
  <1>12. Resting' => NothingMissed'
    BY <1>1 DEF NothingMissed, Present, Resting
  <1> QED
    BY <1>5, <1>6, <1>7, <1>8, <1>9, <1>10, <1>11, <1>12

-----------------------------------------------------------------------------
(* The page loop.                                                          *)

(* In a table from which nothing is deleted a full snapshot selects the    *)
(* records 1 to some N, those of the start among them.                     *)
LEMMA WholeTable ==
  ASSUME Types, Asked, Grown, extraction.full, ~feed.deletes
  PROVE  \E N \in 0..MaxId :
           /\ Result = 1..N /\ Cardinality(Result) = N
           /\ \A m \in 1..N : OrderById(Result)[m] = m
           /\ \A i \in Present(started) : i <= N /\ i \in 1..N
  <1>1. PICK N \in 0..MaxId : Present(rows) = 1..N
    BY DEF Grown
  <1>2. rows \in Table /\ extraction.since = 0 /\ 0 \in 0..MaxTime
    BY Bounds DEF Types, Asked
  <1>3. Result = 1..N
    BY <1>1, <1>2, Matched DEF Result
  <1>4. N \in Nat
    BY Bounds
  <1>5. ASSUME NEW i \in Present(started)
        PROVE  i \in Present(rows)
    <2>1. /\ i \in Ids /\ started[i] # 0 /\ started[i] <= rows[i]
          /\ started[i] \in 0..MaxTime /\ rows[i] \in 0..MaxTime
      BY Numbers DEF Present, Grown
    <2> QED
      BY <2>1 DEF Present
  <1>6. \A i \in Present(started) : i <= N /\ i \in 1..N
    BY <1>1, <1>4, <1>5
  <1> QED
    BY <1>3, <1>4, <1>6, OrderOfInterval

LEMMA CountKeeps ==
  ASSUME IInv, CountRows
  PROVE  IInv'
  <1> USE DEF IInv
  <1> DEFINE C == Cardinality(Result)
             x == [extraction EXCEPT !.phase = "select", !.total = C]
  <1>1. /\ UNCHANGED <<feed, rows, clock, core, checkpoint, failures, started>>
        /\ extraction.phase = "count" /\ extraction' = x
    BY DEF CountRows, Result
  <1>2. extraction \in Extraction /\ rows \in Table
    BY DEF Types
  <1>3. C \in 0..MaxId
    BY <1>2, Matched DEF Result, Extraction
  <1> HIDE DEF C
  <1>4. /\ x \in Extraction
        /\ x.phase = "select" /\ x.total = C
        /\ x.full = extraction.full /\ x.since = extraction.since
        /\ x.payload = extraction.payload /\ x.offset = extraction.offset
        /\ x.pages = extraction.pages
    BY <1>2, <1>3 DEF Extraction, Phases
  <1> HIDE DEF x
  <1>5. Result' = Result
    BY <1>1, <1>4 DEF Result, Matching, Present
  <1>6. Types'
    BY <1>1, <1>4 DEF Types
  <1>7. Looping' /\ LastIsNewest' /\ Past'
    BY <1>1, <1>4 DEF Looping, LastIsNewest, Past
  <1>8. Asked'
    BY <1>1, <1>4 DEF Asked
  <1>9. Grown'
    BY <1>1 DEF Grown, Present
  <1>10. Scanned'
    <2>1. ASSUME extraction.full, ~feed.deletes
          PROVE  /\ \A n \in DOMAIN extraction.payload :
                      /\ extraction.payload[n].id = n
                      /\ started[n] <= extraction.payload[n].at
                 /\ \A i \in Present(started) : i <= C
      <3>1. \A i \in Present(started) : i <= C
        BY <2>1, WholeTable DEF C
      <3> QED
        BY <1>1, <2>1, <3>1 DEF Scanned
    <2>2. Present(started)' = Present(started)
      BY <1>1 DEF Present
    <2> QED
      BY <1>1, <1>4, <2>1, <2>2 DEF Scanned
  <1>11. Read'
    BY <1>1, <1>4, <1>5 DEF Read, Resting, C
  <1>12. Resting' => NothingMissed'
    BY <1>1 DEF NothingMissed, Present, Resting
  <1> QED
    BY <1>6, <1>7, <1>8, <1>9, <1>10, <1>11, <1>12
LEMMA SelectKeeps ==
  ASSUME IInv, SelectRows
  PROVE  IInv'
  <1> USE DEF IInv
  <1> DEFINE L == Len(extraction.payload)
             items == Page(rows, extraction.since, extraction.offset)
             P == Collected(extraction, items)
             C == Cardinality(Result)
             Order == OrderById(Result)
             more == HasMore(extraction, items)
             x == [extraction EXCEPT
                     !.payload = P,
                     !.offset = NextOffset(extraction, items),
                     !.pages = extraction.pages + 1,
                     !.phase = IF more THEN "count" ELSE "sync"]
  <1>1. /\ UNCHANGED <<feed, rows, clock, core, checkpoint, failures, started>>
        /\ extraction.phase = "select" /\ extraction' = x
        /\ more => extraction.pages + 1 < MaxPages
    BY DEF SelectRows
  <1>2. PICK k \in Nat :
           /\ items \in Seq(Item) /\ Len(items) = k
           /\ P \in Seq(Item) /\ Len(P) = L + k /\ L \in Nat
           /\ DOMAIN P = 1..(L + k) /\ DOMAIN extraction.payload = 1..L
           /\ L <= C => L + k <= C
           /\ \A n \in 1..L : P[n] = extraction.payload[n]
           /\ \A n \in 1..(L + k) : n > L =>
                /\ n \in 1..C /\ Order[n] \in Result
                /\ P[n] = [id |-> Order[n], at |-> rows[Order[n]]]
    BY <1>1, Appended
  <1>3. /\ extraction \in Extraction /\ rows \in Table
        /\ extraction.offset = L
        /\ extraction.pages \in Nat /\ extraction.pages < MaxPages
        /\ extraction.total \in 0..MaxId
    BY <1>1 DEF Types, Looping, Extraction
  <1>4. /\ Result \subseteq Present(rows) /\ Result \subseteq Ids
        /\ Result \subseteq Nat /\ IsFiniteSet(Result) /\ C \in Nat
        /\ extraction.since = 0 => Result = Present(rows)
    BY <1>3, Matched, Bounds DEF Result, Extraction
  <1>5. NextOffset(extraction, items) = L + k
        /\ (more <=> extraction.total > L + k)
    BY <1>2, <1>3 DEF NextOffset, HasMore
  <1> HIDE DEF items, P, more
  <1>6. /\ x.payload = P /\ x.offset = L + k
        /\ x.pages = extraction.pages + 1
        /\ x.phase = (IF more THEN "count" ELSE "sync")
        /\ x.full = extraction.full /\ x.since = extraction.since
        /\ x.total = extraction.total
    BY <1>3, <1>5 DEF Extraction
  <1>7. x \in Extraction
    <2>1. /\ P \in Seq(Item) /\ L + k \in Nat
          /\ extraction.pages + 1 \in 0..MaxPages
          /\ (IF more THEN "count" ELSE "sync") \in Phases
      BY <1>2, <1>3, Bounds DEF Phases
    <2> QED
      BY <1>3, <1>5, <2>1 DEF Extraction
  <1> HIDE DEF x, L, Order, C
  <1>8. Result' = Result
    BY <1>1, <1>6 DEF Result, Matching, Present
  <1>9. ASSUME NEW n \in 1..(L + k), n > L
        PROVE  /\ P[n].id = Order[n] /\ P[n].id \in Result
               /\ P[n].id \in Ids /\ P[n].at = rows[P[n].id]
               /\ rows[P[n].id] # 0 /\ rows[P[n].id] \in Nat
    <2>1. /\ Order[n] \in Result
          /\ P[n] = [id |-> Order[n], at |-> rows[Order[n]]]
      BY <1>2, <1>9
    <2>2. Order[n] \in Ids /\ rows[Order[n]] # 0 /\ rows[Order[n]] \in Nat
      <3>1. Order[n] \in Ids /\ Order[n] \in Present(rows)
        BY <1>4, <2>1
      <3>2. rows[Order[n]] \in 0..MaxTime /\ MaxTime \in Nat
        BY <3>1, Numbers
      <3> QED
        BY <3>1, <3>2 DEF Present
    <2> QED
      BY <2>1, <2>2
  <1>10. \A n \in 1..(L + k) : n > L \/ n \in 1..L
    BY <1>2
  <1>11. Types'
    BY <1>1, <1>7 DEF Types
  <1>12. Looping'
    <2>1. /\ L + k = Len(P)
          /\ extraction.total > L + k => L + k \in 0..(MaxId - 1)
      BY <1>2, <1>3, Bounds
    <2> QED
      BY <1>1, <1>5, <1>6, <2>1 DEF Looping
  <1>13. Past'
    <2>1. ASSUME NEW n \in DOMAIN P
          PROVE  /\ P[n].at <= clock
                 /\ rows[P[n].id] # 0 => P[n].at <= rows[P[n].id]
      <3>1. CASE n \in 1..L
        BY <1>2, <3>1 DEF Past
      <3>2. CASE n > L
        <4>1. n \in 1..(L + k)
          BY <1>2
        <4>2. /\ P[n].id \in Ids /\ P[n].at = rows[P[n].id]
              /\ rows[P[n].id] \in Nat
          BY <1>9, <3>2, <4>1
        <4>3. rows[P[n].id] <= clock
          BY <4>2 DEF Past
        <4> QED
          BY <4>2, <4>3
      <3> QED
        BY <1>2, <1>10, <3>1, <3>2
    <2> QED
      BY <1>1, <1>6, <2>1 DEF Past
  <1>14. LastIsNewest'
    <2>1. ASSUME NEW m \in DOMAIN P, NEW n \in DOMAIN P,
                 m < n, P[m].id = P[n].id
          PROVE  P[m].at <= P[n].at
      <3>1. CASE n \in 1..L
        <4>1. m \in 1..L
          BY <1>2, <2>1, <3>1
        <4> QED
          BY <1>2, <2>1, <3>1, <4>1 DEF LastIsNewest
      <3>2. CASE n > L
        <4>1. n \in 1..(L + k) /\ m \in 1..(L + k)
          BY <1>2
        <4>2. /\ P[n].id \in Ids /\ P[n].at = rows[P[n].id]
              /\ rows[P[n].id] # 0 /\ rows[P[n].id] \in Nat
          BY <1>9, <3>2, <4>1
        <4>3. CASE m \in 1..L
          BY <1>2, <2>1, <4>2, <4>3 DEF Past
        <4>4. CASE m > L
          <5>1. P[m].at = rows[P[m].id]
            BY <1>9, <4>1, <4>4
          <5> QED
            BY <2>1, <4>2, <5>1
        <4> QED
          BY <1>10, <4>1, <4>3, <4>4
      <3> QED
        BY <1>2, <1>10, <3>1, <3>2
    <2> QED
      BY <1>1, <1>6, <2>1 DEF LastIsNewest
  <1>15. Asked'
    BY <1>1, <1>6 DEF Asked
  <1>16. Grown'
    BY <1>1 DEF Grown, Present
  <1>17. Scanned'
    <2>1. ASSUME extraction.full, ~feed.deletes
          PROVE  /\ \A n \in DOMAIN P :
                      P[n].id = n /\ started[n] <= P[n].at
                 /\ ~more => \A i \in Present(started) : i \in DOMAIN P
      <3>1. PICK N \in 0..MaxId :
              /\ Result = 1..N /\ C = N
              /\ \A m \in 1..N : Order[m] = m
        BY <2>1, WholeTable DEF C, Order
      <3>2. ASSUME NEW n \in DOMAIN P
            PROVE  P[n].id = n /\ started[n] <= P[n].at
        <4>1. CASE n \in 1..L
          BY <1>1, <1>2, <2>1, <4>1 DEF Scanned
        <4>2. CASE n > L
          <5>1. n \in 1..(L + k) /\ n \in 1..N
            BY <1>2, <3>1, <4>2
          <5>2. P[n].id = n /\ P[n].id \in Ids /\ P[n].at = rows[P[n].id]
            BY <1>9, <3>1, <4>2, <5>1
          <5> QED
            BY <2>1, <5>2 DEF Grown
        <4> QED
          BY <1>2, <1>10, <4>1, <4>2
      <3>3. ASSUME ~more, NEW i \in Present(started)
            PROVE  i \in DOMAIN P
        <4>1. i \in Nat /\ i >= 1
          BY Bounds DEF Present
        <4>2. i <= extraction.total
          BY <1>1, <2>1 DEF Scanned
        <4>3. extraction.total <= L + k
          BY <1>2, <1>3, <1>5, <3>3, Bounds
        <4> QED
          BY <1>2, <1>3, <4>1, <4>2, <4>3, Bounds
      <3> QED
        BY <3>2, <3>3
    <2>2. Present(started)' = Present(started)
      BY <1>1 DEF Present
    <2> QED
      BY <1>1, <1>6, <2>1, <2>2 DEF Scanned
  <1>18. Read'
    <2>1. ASSUME Resting
          PROVE  /\ L + k <= C
                 /\ \A n \in 1..(L + k) :
                      P[n] = [id |-> Order[n], at |-> rows[Order[n]]]
                 /\ ~more => /\ \A n \in DOMAIN P : P[n].at = rows[P[n].id]
                             /\ Result \subseteq Delivered(P)
      <3>1. /\ L <= C /\ extraction.total = C
            /\ \A n \in 1..L : extraction.payload[n] =
                                 [id |-> Order[n], at |-> rows[Order[n]]]
        BY <1>1, <2>1 DEF Read, L, C, Order
      <3>2. \A n \in 1..(L + k) :
              P[n] = [id |-> Order[n], at |-> rows[Order[n]]]
        BY <1>2, <1>10, <3>1
      <3>3. \A n \in DOMAIN P : P[n].at = rows[P[n].id]
        BY <1>2, <3>2
      <3>4. L + k <= C
        BY <1>2, <3>1
      <3>5. ASSUME ~more PROVE Result \subseteq Delivered(P)
        <4>1. L + k = C
          BY <1>2, <1>4, <1>5, <3>1, <3>4, <3>5
        <4>2. \A i \in Result : \E n \in 1..C : Order[n] = i
          BY <1>4, OrderedIds DEF C, Order
        <4>3. \A i \in Result : \E n \in DOMAIN P : P[n].id = i
          BY <1>2, <3>2, <4>1, <4>2
        <4> QED
          BY <4>3 DEF Delivered
      <3> QED
        BY <3>2, <3>3, <3>4, <3>5
    <2>2. Resting' <=> Resting
      BY <1>1 DEF Resting
    <2>3. Len(P) = L + k
      BY <1>2
    <2> QED
      BY <1>1, <1>6, <1>8, <2>1, <2>2, <2>3
      DEF Read, C, Order, Delivered
  <1>19. Resting' => NothingMissed'
    BY <1>1 DEF NothingMissed, Present, Resting
  <1> QED
    BY <1>11, <1>12, <1>13, <1>14, <1>15, <1>16, <1>17, <1>18, <1>19
-----------------------------------------------------------------------------
(* What a run publishes.                                                   *)

(* The watermark after a run is one that was read, or the previous one.    *)
LEMMA AfterFacts ==
  ASSUME Types, Past
  PROVE  After(extraction) \in 0..MaxTime /\ After(extraction) <= clock
  <1> DEFINE S == {extraction.since}
                    \cup {extraction.payload[n].at :
                            n \in DOMAIN extraction.payload}
  <1>1. /\ extraction.since \in 0..MaxTime /\ clock \in 0..MaxTime
        /\ extraction.since <= clock /\ MaxTime \in Nat
    BY Bounds DEF Types, Past, Extraction
  <1>2. clock \in Nat /\ extraction.since \in Nat
    BY <1>1
  <1>3. \A n \in DOMAIN extraction.payload :
          /\ extraction.payload[n].at \in Nat
          /\ extraction.payload[n].at <= clock
    BY Numbers DEF Past
  <1>4. S \subseteq Nat /\ S # {} /\ \A y \in S : y <= clock
    BY <1>1, <1>2, <1>3
  <1>5. After(extraction) = Max(S)
    BY DEF After
  <1> HIDE DEF S
  <1>6. Max(S) \in S
    BY <1>2, <1>4, MaxExists
  <1>7. Max(S) \in Nat /\ Max(S) <= clock
    BY <1>4, <1>6
  <1> QED
    BY <1>1, <1>5, <1>7

LEMMA LastOfFacts ==
  ASSUME Types, NEW i \in Delivered(extraction.payload)
  PROVE  /\ LastOf(extraction.payload, i) \in DOMAIN extraction.payload
         /\ extraction.payload[LastOf(extraction.payload, i)].id = i
  <1> DEFINE L == Len(extraction.payload)
             S == {n \in DOMAIN extraction.payload :
                     extraction.payload[n].id = i}
  <1>1. L \in Nat /\ DOMAIN extraction.payload = 1..L
    BY Numbers
  <1>2. S \subseteq Nat /\ S # {} /\ \A y \in S : y <= L
    BY <1>1 DEF Delivered
  <1>3. LastOf(extraction.payload, i) = Max(S)
    BY DEF LastOf
  <1> HIDE DEF S
  <1>4. Max(S) \in S
    BY <1>1, <1>2, MaxExists
  <1> QED
    BY <1>3, <1>4 DEF S

LEMMA SynchronizeKeeps ==
  ASSUME IInv, Synchronize
  PROVE  IInv'
  <1> USE DEF IInv
  <1> DEFINE p == extraction.payload
             value(i) == CASE i \in Delivered(p) -> p[LastOf(p, i)].at
                           [] extraction.full /\ i \notin Delivered(p) -> 0
                           [] OTHER -> core[i]
             x == [extraction EXCEPT !.phase = "commit"]
  <1>1. /\ UNCHANGED <<feed, rows, clock, checkpoint, failures, started>>
        /\ extraction.phase = "sync" /\ extraction' = x
        /\ core' = [i \in Ids |-> value(i)]
    BY DEF Synchronize
  <1>2. extraction \in Extraction /\ core \in Table
    BY DEF Types
  <1>3. /\ x \in Extraction
        /\ x.phase = "commit" /\ x.full = extraction.full
        /\ x.since = extraction.since /\ x.payload = p
    BY <1>2 DEF Extraction, Phases
  <1> HIDE DEF x
  <1>4. \A i \in Ids :
          /\ i \in Delivered(p) => value(i) = p[LastOf(p, i)].at
          /\ i \notin Delivered(p) /\ extraction.full => value(i) = 0
          /\ i \notin Delivered(p) /\ ~extraction.full => value(i) = core[i]
    OBVIOUS
  <1> HIDE DEF value
  <1>5. \A i \in Delivered(p) : /\ LastOf(p, i) \in DOMAIN p
                                /\ p[LastOf(p, i)].id = i
    BY LastOfFacts
  <1>6. ASSUME NEW i \in Ids PROVE value(i) \in 0..MaxTime
    <2>1. CASE i \in Delivered(p)
      <3>1. p[LastOf(p, i)].at \in 1..MaxTime
        BY <1>5, <2>1, Numbers
      <3> QED
        BY <1>4, <2>1, <3>1, Bounds
    <2>2. CASE i \notin Delivered(p)
      BY <1>4, <2>2, Numbers
    <2> QED
      BY <2>1, <2>2
  <1>7. core' \in Table
    BY <1>1, <1>6, Bounds DEF Table
  <1>8. Types'
    BY <1>1, <1>3, <1>7 DEF Types
  <1>9. Looping' /\ LastIsNewest' /\ Past' /\ Asked' /\ Scanned'
    BY <1>1, <1>3 DEF Looping, LastIsNewest, Past, Asked, Scanned
  <1>10. Grown'
    BY <1>1 DEF Grown, Present
  <1>11. ASSUME Resting, NEW i \in Present(rows)
         PROVE  core'[i] = rows[i]
    <2>1. i \in Ids /\ rows[i] # 0 /\ core'[i] = value(i)
      BY <1>1 DEF Present
    <2>2. /\ \A n \in DOMAIN p : p[n].at = rows[p[n].id]
          /\ Result \subseteq Delivered(p)
      BY <1>1, <1>11 DEF Read
    <2>3. CASE i \in Delivered(p)
      BY <1>4, <1>5, <2>1, <2>2, <2>3
    <2>4. CASE i \notin Delivered(p)
      <3>1. ~ (extraction.since = 0 \/ rows[i] > extraction.since)
        BY <2>2, <2>4 DEF Result, Matching
      <3>2. ~extraction.full
        BY <3>1 DEF Asked
      <3>3. rows[i] <= checkpoint
        <4>1. extraction.since = checkpoint
          BY <1>1, <1>11, <3>2 DEF Asked, Resting
        <4>2. rows[i] \in 0..MaxTime /\ checkpoint \in Nat /\ MaxTime \in Nat
          BY <2>1, Numbers
        <4> QED
          BY <3>1, <4>1, <4>2
      <3> QED
        BY <1>4, <1>11, <2>1, <2>4, <3>2, <3>3 DEF NothingMissed
    <2> QED
      BY <2>3, <2>4
  <1>12. Read'
    BY <1>1, <1>3, <1>11 DEF Read, Resting, Present
  <1>13. Resting' => NothingMissed'
    BY <1>1, <1>11 DEF NothingMissed, Present, Resting
  <1> QED
    BY <1>8, <1>9, <1>10, <1>12, <1>13

LEMMA CommitKeeps ==
  ASSUME IInv, Commit
  PROVE  IInv'
  <1> USE DEF IInv
  <1>1. /\ UNCHANGED <<feed, rows, clock, core, failures>>
        /\ extraction.phase = "commit"
        /\ extraction' = NoExtraction /\ started' = rows
        /\ checkpoint' = IF feed.contract = "timestamped"
                           THEN After(extraction) ELSE checkpoint
    BY DEF Commit
  <1>2. checkpoint' \in 0..MaxTime /\ checkpoint' <= clock
    BY <1>1, AfterFacts DEF Types, Past
  <1>3. Types'
    BY <1>1, <1>2, Pristine DEF Types
  <1>4. Looping' /\ LastIsNewest'
    BY <1>1, Pristine DEF Looping, LastIsNewest
  <1>5. Past'
    BY <1>1, <1>2, Pristine, Numbers DEF Past
  <1>6. Asked' /\ Scanned' /\ Read'
    BY <1>1, Pristine DEF Asked, Scanned, Read, Resting
  <1>7. Grown'
    BY <1>1, Numbers DEF Grown, Present
  <1>8. Resting' => NothingMissed'
    <2>1. Resting => \A i \in Present(rows) : core[i] = rows[i]
      BY <1>1 DEF Read
    <2> QED
      BY <1>1, <2>1 DEF NothingMissed, Present, Resting
  <1> QED
    BY <1>3, <1>4, <1>5, <1>6, <1>7, <1>8

-----------------------------------------------------------------------------
(* The invariant.                                                          *)

LEMMA Initially ==
  ASSUME Init
  PROVE  IInv
  <1>1. PICK n \in 0..MaxId :
          rows \in {t \in [Ids -> 0..2] : \A i \in Ids : t[i] = 0 <=> i > n}
    BY DEF Init
  <1>2. /\ rows \in [Ids -> 0..2] /\ \A i \in Ids : rows[i] = 0 <=> i > n
        /\ clock = 2 /\ extraction = NoExtraction
        /\ core = [i \in Ids |-> 0] /\ checkpoint = 0 /\ failures = 0
        /\ started = rows /\ feed \in Feeds
    BY <1>1 DEF Init
  <1>3. MaxTime >= 2 /\ MaxTime \in Nat /\ MaxId \in Nat /\ n \in Nat
    BY ConstantsAssumption
  <1>4. rows \in Table /\ core \in Table
    BY <1>2, <1>3 DEF Table, Stamps
  <1>5. Types
    BY <1>2, <1>3, <1>4, Pristine, Bounds DEF Types
  <1>6. Looping /\ LastIsNewest /\ Past
    BY <1>2, Pristine DEF Looping, LastIsNewest, Past
  <1>7. Asked /\ Scanned /\ Read
    BY <1>2, Pristine DEF Asked, Scanned, Read, Resting
  <1>8. Present(rows) = 1..n
    BY <1>2, <1>3, Bounds DEF Present, Ids
  <1>9. Grown
    BY <1>2, <1>5, <1>8, Numbers DEF Grown
  <1>10. NothingMissed
    <2>1. \A i \in Present(rows) : ~ (rows[i] <= checkpoint)
      BY <1>2 DEF Present
    <2> QED
      BY <2>1 DEF NothingMissed
  <1> QED
    BY <1>5, <1>6, <1>7, <1>9, <1>10 DEF IInv

LEMMA StepKeeps ==
  ASSUME IInv, [Next]_vars
  PROVE  IInv'
  <1>1. ASSUME NEW k \in 0..MaxId, NEW n \in 0..MaxId, Mutate(k, n)
        PROVE  IInv'
    BY <1>1, MutateKeeps
  <1>2. ASSUME NEW i \in Ids, Delete(i) PROVE IInv'
    BY <1>2, DeleteKeeps
  <1>3. ASSUME NEW force \in BOOLEAN, StartExtraction(force) PROVE IInv'
    BY <1>3, StartKeeps
  <1>4. failures \in 0..MaxFailures /\ MaxFailures \in Nat
    BY Bounds DEF IInv, Types
  <1>5. CASE CountRows
    BY <1>5, CountKeeps
  <1>6. CASE SelectRows
    BY <1>6, SelectKeeps
  <1>7. CASE PageRefused
    BY <1>4, <1>7, AbandonKeeps DEF PageRefused
  <1>8. CASE Rejected
    BY <1>4, <1>8, AbandonKeeps DEF Rejected
  <1>9. CASE Synchronize
    BY <1>9, SynchronizeKeeps
  <1>10. CASE Commit
    BY <1>10, CommitKeeps
  <1>11. CASE Fail
    <2>1. Abandon /\ failures' \in 0..MaxFailures
      BY <1>4, <1>11 DEF Fail
    <2> QED
      BY <2>1, AbandonKeeps
  <1>12. CASE UNCHANGED vars
    <2>1. UNCHANGED <<feed, rows, clock, extraction, core, checkpoint,
                      failures, started>>
      BY <1>12 DEF vars
    <2> USE DEF IInv
    <2>2. Types' /\ Looping' /\ Past' /\ LastIsNewest' /\ Asked'
      BY <2>1 DEF Types, Looping, Past, LastIsNewest, Asked
    <2>3. Grown' /\ Scanned' /\ (Resting' => NothingMissed')
      BY <2>1 DEF Grown, Scanned, Resting, NothingMissed, Present
    <2>4. Read'
      <3>1. Result' = Result
        BY <2>1 DEF Result, Matching, Present
      <3>2. Read <=> Read'
        BY <2>1, <3>1 DEF Read, Resting, Present, Delivered
      <3> QED
        BY <3>2
    <2> QED
      BY <2>2, <2>3, <2>4
  <1> QED
    BY <1>1, <1>2, <1>3, <1>5, <1>6, <1>7, <1>8, <1>9, <1>10, <1>11, <1>12
    DEF Next, RunStep

(* The inductive invariant of a source that is read page by page while its *)
(* table changes (list_page of mock_source/app/db.py, the page loop of     *)
(* extractor/app/main.py).                                                 *)
THEOREM Invariance == Spec => []IInv
  <1>1. Init => IInv
    BY Initially
  <1>2. IInv /\ [Next]_vars => IInv'
    BY StepKeeps
  <1> QED
    BY <1>1, <1>2, PTL DEF Spec

(* Every variable keeps its type, and the loop never asks for a page that  *)
(* it need not ask for: the offset stays below the number of the records   *)
(* there can be and the pages under MAX_PAGINATION_PAGES.                  *)
THEOREM TypeCorrect == Spec => []TypeOK
  <1>1. IInv => TypeOK
    <2> SUFFICES ASSUME IInv PROVE TypeOK
      OBVIOUS
    <2> USE DEF IInv
    <2>1. Stamps \cup {0} = 0..MaxTime
      BY Bounds
    <2> QED
      BY <2>1 DEF TypeOK, Types, Looping, Extraction
  <1> QED
    BY <1>1, Invariance, PTL

(* mock_source/README.md:90: as long as the table of a timestamped source  *)
(* rests while it is read, every record whose updated_at the checkpoint    *)
(* covers is in Core with its present content, whatever the limit of a     *)
(* page, the number of pages and the failures, and also if records are     *)
(* deleted between two runs.                                               *)
THEOREM CheckpointMissesNothing == Spec => []NothingMissedIfSteady
  <1>1. IInv => NothingMissedIfSteady
    <2> SUFFICES ASSUME IInv, Steady PROVE NothingMissed
      BY DEF NothingMissedIfSteady
    <2> USE DEF IInv
    <2>1. CASE feed.contract = "timestamped"
      BY <2>1 DEF Steady, Resting
    <2>2. CASE feed.contract # "timestamped"
      <3>1. checkpoint = 0
        BY <2>2 DEF Asked
      <3>2. \A i \in Present(rows) : rows[i] \in 0..MaxTime /\ rows[i] # 0
        BY Numbers DEF Present
      <3>3. \A i \in Present(rows) : ~ (rows[i] <= checkpoint)
        BY <3>1, <3>2, Bounds
      <3> QED
        BY <3>3 DEF NothingMissed
    <2> QED
      BY <2>1, <2>2
  <1> QED
    BY <1>1, Invariance, PTL

(* Offset pagination over a table that grows and is updated while it is    *)
(* read, but from which nothing is deleted: a full snapshot collects every *)
(* record the table had when the run started, as it was then or newer.     *)
THEOREM SnapshotsAreComplete == Spec => []StartedRowsDelivered
  <1>1. IInv => StartedRowsDelivered
    <2> SUFFICES ASSUME IInv, extraction.phase = "sync", extraction.full,
                        ~feed.deletes, NEW i \in Present(started)
                 PROVE  \E n \in DOMAIN extraction.payload :
                          /\ extraction.payload[n].id = i
                          /\ extraction.payload[n].at >= started[i]
      BY DEF StartedRowsDelivered
    <2> USE DEF IInv
    <2>1. /\ i \in DOMAIN extraction.payload
          /\ extraction.payload[i].id = i
          /\ started[i] <= extraction.payload[i].at
      BY DEF Scanned
    <2>2. started[i] \in 0..MaxTime /\ extraction.payload[i].at \in Nat
      BY <2>1, Numbers DEF Present
    <2> QED
      BY <2>1, <2>2
  <1> QED
    BY <1>1, Invariance, PTL

(* Core keeps the last record of a key in a payload (DISTINCT ON ... ORDER *)
(* BY ... DESC): whatever moves between the pages while they are read, the *)
(* last one of a record is its newest.                                     *)
THEOREM LastRecordsAreNewest == Spec => []LastIsNewest
  <1>1. IInv => LastIsNewest
    BY DEF IInv
  <1> QED
    BY <1>1, Invariance, PTL
=============================================================================
