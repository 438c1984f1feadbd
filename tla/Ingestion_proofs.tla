-------------------------- MODULE Ingestion_proofs --------------------------
(***************************************************************************)
(* Proofs about Ingestion for every set of APIs, size of a page and of a   *)
(* group of rows, limit of pages, number of runs, loads and failures.      *)
(***************************************************************************)
EXTENDS Ingestion, FiniteSetTheorems, SequenceTheorems, WellFoundedInduction,
        TLAPS

(* The variables as functions and records.                                 *)
ExtractionPhases == {"none", "fetch", "check", "payload", "manifest", "done",
                     "refused"}

Extraction == [phase : ExtractionPhases, at : Nat, seen : SUBSET Nat,
               pages : 0..MaxPages, items : Rows, keys : SUBSET MetadataKeys,
               complete : BOOLEAN, after : 0..MaxStamp]

Manifest == [complete : BOOLEAN, after : 0..MaxStamp]

LoadPhases == {"none", "verify", "insert", "ensure", "rows", "answered",
               "refused"}

Load == [phase : LoadPhases, file : RunIds \cup {0}, by : {"run", "hand"},
         rows : Rows, answer : LoadIds \cup {0}]

Run == [phase : {"none", "extract", "load", "loaded", "failed"},
        batch : LoadIds \cup {0}]

ExtractorTypes ==
    /\ api \in Apis /\ request \in Requests
    /\ extraction \in [RunIds -> Extraction]
    /\ payload \in [RunIds -> Content \cup {None}]
    /\ manifest \in [RunIds -> Manifest \cup {None}]

(* The page loop has the records before the next page, and no others; its  *)
(* checkpoint is the largest watermark among them.                         *)
Seen(n) == {api.watermarks[i] : i \in 1..n} \ {0}

Highest(n) ==
    IF request.kind = "plain" \/ Seen(n) = {} THEN 0
    ELSE Max(Seen(n) \cup {request.before})

Fetching(x) ==
    /\ x.at \in 0..Count
    /\ Collection => x.items = [i \in 1..x.at |-> i]
    /\ ~Collection => x.at = 0
    /\ x.after = Highest(x.at)
    /\ x.pages < MaxPages

(* After the loop, and after the check of the watermark.                   *)
WholeItems(items) ==
    IF Collection THEN items = [i \in Records |-> i] ELSE PageSize >= Count

Newest == Max(ToSet(api.watermarks) \cup {request.before})

Ended(x) ==
    x.complete /\ Followed => WholeItems(x.items) /\ x.after = Highest(Count)

Checked(x) ==
    x.complete /\ Followed =>
        /\ WholeItems(x.items)
        /\ request.kind # "plain" => x.after = Newest

(* The manifest is the last thing to appear, and nothing changes then.     *)
LandedOf(x, p, m) ==
    /\ x.phase = "fetch" => Fetching(x)
    /\ x.phase = "check" => Ended(x)
    /\ x.phase \in {"payload", "manifest", "done"} => Checked(x)
    /\ x.phase \in {"none", "fetch", "check", "payload"} => p = None
    /\ x.phase \in {"manifest", "done"} => p \in Content /\ p.items = x.items
    /\ x.phase # "done" => m = None
    /\ x.phase = "done" => m = [complete |-> x.complete, after |-> x.after]

Landed(r) == LandedOf(extraction[r], payload[r], manifest[r])

Counted(r) == /\ IsFiniteSet(extraction[r].seen)
              /\ Cardinality(extraction[r].seen) = extraction[r].pages

(* The Loader.                                                             *)
LoaderTypes ==
    /\ run \in [RunIds -> Run]
    /\ load \in [LoadIds -> Load]
    /\ batches \in [LoadIds -> Batch \cup {None}]
    /\ failures \in 0..MaxFailures

(* A run that has not begun has no extraction.                             *)
Begun(r) == run[r].phase = "none" => extraction[r] = NoExtraction

Session(l) ==
    LET f == load[l].file
        rows == load[l].rows
    IN /\ load[l].phase # "none" => f \in RunIds
       /\ load[l].phase \in {"insert", "ensure", "rows", "answered"} =>
            Loadable(f)
       /\ load[l].phase \in {"ensure", "rows"} => Committed(f) = {}
       /\ load[l].phase \in {"verify", "insert", "ensure"} => rows = <<>>
       /\ load[l].phase = "rows" =>
            /\ Len(rows) <= Len(RowsOf(payload[f]))
            /\ \A i \in 1..Len(rows) : rows[i] = RowsOf(payload[f])[i]
       /\ load[l].phase = "answered" =>
            /\ load[l].answer \in LoadIds
            /\ batches[load[l].answer] # None
            /\ batches[load[l].answer].file = f

(* One session at a time works on a file.                                  *)
OneSession ==
    \A k, l \in Open : load[k].file = load[l].file => k = l

(* What is committed.                                                      *)
Stored(l) ==
    LET b == batches[l] IN
    b # None =>
        /\ load[l].phase = "answered" /\ load[l].file = b.file
        /\ b.rows = RowsOf(payload[b.file])
        /\ b.after = manifest[b.file].after
        /\ Committed(b.file) = {l}

Taken(r) ==
    run[r].phase = "loaded" =>
        /\ run[r].batch \in LoadIds
        /\ batches[run[r].batch] # None
        /\ batches[run[r].batch].file = r

Types == ExtractorTypes /\ LoaderTypes

IInv == /\ Types
        /\ \A r \in RunIds : Landed(r) /\ Counted(r) /\ Begun(r) /\ Taken(r)
        /\ \A l \in LoadIds : Session(l) /\ Stored(l)
        /\ OneSession

-----------------------------------------------------------------------------
(* The largest of a set of numbers, the smaller of two.                    *)

LEMMA MaxExists ==
  ASSUME NEW S, S \subseteq Nat, S # {}, NEW n \in Nat, \A x \in S : x <= n
  PROVE  Max(S) \in S /\ \A y \in S : y <= Max(S)
  <1> DEFINE T == {n - x : x \in S}
  <1>1. T \subseteq Nat
    <2>1. \A x \in S : n - x \in Nat
      OBVIOUS
    <2> QED
      BY <2>1
  <1>2. T # {}
    <2>1. PICK x \in S : TRUE
      OBVIOUS
    <2>2. n - x \in T
      OBVIOUS
    <2> QED
      BY <2>2
  <1>3. PICK m \in T : \A y \in T : ~ (<<y, m>> \in OpToRel(<, Nat))
    BY <1>1, <1>2, NatLessThanWellFounded, WFMin, Zenon
  <1>4. \A y \in T : ~ (y < m)
    BY <1>1, <1>3, Zenon DEF OpToRel
  <1>5. PICK x \in S : m = n - x
    OBVIOUS
  <1>6. \A y \in S : x >= y
    <2> TAKE y \in S
    <2>1. n - y \in T /\ n - x \in T /\ x \in Nat /\ y \in Nat
      OBVIOUS
    <2>2. ~ (n - y < n - x)
      BY <1>4, <1>5, <2>1
    <2> QED
      BY <2>1, <2>2
  <1>7. /\ Max(S) \in S /\ \A y \in S : Max(S) >= y
    BY <1>6 DEF Max
  <1>8. \A y \in S : y <= Max(S)
    BY <1>7
  <1> QED
    BY <1>7, <1>8

LEMMA MaxIs ==
  ASSUME NEW S, S \subseteq Nat, NEW m \in S, \A y \in S : y <= m
  PROVE  Max(S) = m
  <1>1. \A y \in S : m >= y
    OBVIOUS
  <1>2. Max(S) \in S /\ \A y \in S : Max(S) >= y
    BY <1>1 DEF Max
  <1>3. Max(S) \in Nat /\ m \in Nat /\ Max(S) >= m /\ m >= Max(S)
    BY <1>1, <1>2
  <1> QED
    BY <1>3

LEMMA MinOfTwo ==
  ASSUME NEW a \in Nat, NEW b \in Nat
  PROVE  Min({a, b}) = IF a <= b THEN a ELSE b
  <1> DEFINE m == IF a <= b THEN a ELSE b
  <1>1. m \in {a, b} /\ \A y \in {a, b} : m =< y
    OBVIOUS
  <1>2. Min({a, b}) \in {a, b} /\ \A y \in {a, b} : Min({a, b}) =< y
    BY <1>1 DEF Min
  <1> QED
    BY <1>1, <1>2

-----------------------------------------------------------------------------
(* The pages of the API.                                                   *)

LEMMA ApiTypes ==
  ASSUME api \in Apis
  PROVE  /\ Count \in Nat
         /\ api.watermarks \in [Records -> 0..MaxStamp]
         /\ PageSize \in Nat
         /\ api.paging # "whole" => PageSize > 0
         /\ api.paging = "whole" => PageSize = Count
         /\ api.paging \in Pagings
         /\ api.shape \in Shapes
         /\ Limit \in Nat /\ MaxPages \in Nat \ {0} /\ BatchSize \in Nat \ {0}
         /\ MaxStamp \in Nat /\ MaxRuns \in Nat /\ MaxLoads \in Nat
  <1>1. api \in Api
    BY ConstantsAssumption
  <1>2. api.watermarks \in Seq(0..MaxStamp) /\ api.paging \in Pagings
        /\ api.shape \in Shapes
    BY <1>1 DEF Api
  <1>3. Count \in Nat /\ api.watermarks \in [Records -> 0..MaxStamp]
    BY <1>2, LenProperties DEF Count, Records
  <1> QED
    BY <1>2, <1>3, ConstantsAssumption DEF PageSize

(* The records of a page are the ones that follow the page before it, and  *)
(* the last page ends with the last record.                                *)
LEMMA PageItems ==
  ASSUME api \in Apis, NEW p \in 0..Count
  PROVE  /\ Items(p) \in Seq(Records)
         /\ p + Len(Items(p)) \in 0..Count
         /\ DOMAIN Items(p) = 1..Len(Items(p))
         /\ \A i \in 1..Len(Items(p)) : Items(p)[i] = p + i
         /\ ~More(p) => p + Len(Items(p)) = Count
  <1> DEFINE n == Min({PageSize, Count - p})
  <1>1. /\ Count \in Nat /\ PageSize \in Nat /\ Count - p \in Nat
        /\ n = IF PageSize <= Count - p THEN PageSize ELSE Count - p
    BY ApiTypes, MinOfTwo
  <1>2. n \in Nat /\ p + n \in 0..Count
    BY <1>1
  <1>3. Items(p) = [i \in 1..n |-> p + i]
    BY DEF Items
  <1> HIDE DEF n
  <1>4. Items(p) \in [1..n -> Records]
    BY <1>1, <1>2, <1>3 DEF Records
  <1>5. Items(p) \in Seq(Records) /\ Len(Items(p)) = n
    BY <1>2, <1>4
  <1>6. ~More(p) => p + n = Count
    BY <1>1 DEF More
  <1> QED
    BY <1>2, <1>3, <1>5, <1>6

(* The loop's items, and its checkpoint, with one page more.               *)
LEMMA OnePageMore ==
  ASSUME api \in Apis, NEW p \in 0..Count
  PROVE  [i \in 1..p |-> i] \o Items(p) = [i \in 1..(p + Len(Items(p))) |-> i]
  <1> DEFINE s == [i \in 1..p |-> i]
             t == [i \in 1..(p + Len(Items(p))) |-> i]
  <1>1. p \in Nat /\ Count \in Nat /\ Len(Items(p)) \in Nat
    BY ApiTypes, PageItems
  <1>2. s \in Seq(Nat) /\ Len(s) = p /\ \A i \in 1..p : s[i] = i
    BY <1>1
  <1>3. Items(p) \in Seq(Nat)
    BY <1>1, PageItems, SeqMonotonic DEF Records
  <1>4. /\ t \in Seq(Nat) /\ Len(t) = p + Len(Items(p))
        /\ \A i \in 1..Len(t) : t[i] = i
    BY <1>1
  <1> HIDE DEF s, t
  <1>5. /\ s \o Items(p) \in Seq(Nat)
        /\ Len(s \o Items(p)) = p + Len(Items(p))
        /\ \A i \in 1..(p + Len(Items(p))) :
             (s \o Items(p))[i] =
               IF i <= p THEN s[i] ELSE Items(p)[i - p]
    BY <1>2, <1>3, ConcatProperties
  <1>6. \A i \in 1..(p + Len(Items(p))) : (s \o Items(p))[i] = t[i]
    <2> TAKE i \in 1..(p + Len(Items(p)))
    <2>1. CASE i <= p
      BY <1>1, <1>2, <1>4, <1>5, <2>1
    <2>2. CASE ~ (i <= p)
      <3>1. i - p \in 1..Len(Items(p)) /\ p + (i - p) = i
        BY <1>1, <2>2
      <3>2. Items(p)[i - p] = i
        BY <3>1, PageItems
      <3> QED
        BY <1>1, <1>4, <1>5, <2>2, <3>2
    <2> QED
      BY <2>1, <2>2
  <1>7. s \o Items(p) = t
    BY <1>4, <1>5, <1>6, SeqEqual
  <1> QED
    BY <1>7 DEF s, t

LEMMA SeenTypes ==
  ASSUME api \in Apis, request \in Requests, NEW p \in 0..Count
  PROVE  /\ Seen(p) \subseteq Nat /\ Seen(p) \subseteq 0..MaxStamp
         /\ 0 \notin Seen(p)
         /\ request.before \in 0..MaxStamp
         /\ request.kind \in {"plain", "first", "next"}
         /\ (request.kind = "next") <=> (request.before # 0)
  <1>1. Count \in Nat /\ MaxStamp \in Nat
    BY ApiTypes
  <1>2. \A i \in 1..p : api.watermarks[i] \in 0..MaxStamp
    BY <1>1, ApiTypes DEF Records
  <1> QED
    BY <1>1, <1>2 DEF Seen, Requests

(* The largest of the watermarks seen and the checkpoint before.           *)
LEMMA HighestIs ==
  ASSUME api \in Apis, request \in Requests, NEW p \in 0..Count
  PROVE  /\ Highest(p) \in 0..MaxStamp
         /\ request.kind # "plain" /\ Seen(p) # {} =>
              /\ Highest(p) \in Seen(p) \cup {request.before}
              /\ Highest(p) > 0
              /\ \A y \in Seen(p) \cup {request.before} : y <= Highest(p)
  <1> DEFINE S == Seen(p) \cup {request.before}
  <1>1. /\ S \subseteq Nat /\ S # {} /\ MaxStamp \in Nat
        /\ \A x \in S : x <= MaxStamp
        /\ 0 \notin Seen(p) /\ Seen(p) \subseteq Nat
    BY SeenTypes, ApiTypes
  <1>2. Max(S) \in S /\ \A y \in S : y <= Max(S)
    <2> HIDE DEF S
    <2> QED
      BY <1>1, MaxExists
  <1>3. Max(S) \in 0..MaxStamp
    BY <1>1, <1>2
  <1>4. Seen(p) # {} => Max(S) > 0
    BY <1>1, <1>2
  <1> QED
    BY <1>1, <1>2, <1>3, <1>4 DEF Highest

LEMMA CheckpointOfPage ==
  ASSUME api \in Apis, request \in Requests, NEW p \in 0..Count, NEW x,
         x.after = Highest(p)
  PROVE  Checkpoint(x, Items(p)) = Highest(p + Len(Items(p)))
  <1> DEFINE n == p + Len(Items(p))
  <1>1. n \in 0..Count /\ p \in Nat /\ Len(Items(p)) \in Nat /\ Count \in Nat
    BY ApiTypes, PageItems
  <1>2. ToSet(Items(p)) = (p + 1)..n
    <2>1. \A i \in 1..Len(Items(p)) : Items(p)[i] = p + i
      BY PageItems
    <2>2. ToSet(Items(p)) = {Items(p)[i] : i \in 1..Len(Items(p))}
      BY PageItems DEF ToSet
    <2>3. ToSet(Items(p)) \subseteq (p + 1)..n
      BY <1>1, <2>1, <2>2
    <2>4. ASSUME NEW j \in (p + 1)..n PROVE j \in ToSet(Items(p))
      <3>1. j - p \in 1..Len(Items(p)) /\ p + (j - p) = j
        BY <1>1
      <3> QED
        BY <2>1, <2>2, <3>1
    <2> QED
      BY <2>3, <2>4
  <1>3. 1..n = (1..p) \cup ToSet(Items(p))
    BY <1>1, <1>2
  <1>4. Seen(n) = Seen(p) \cup Stamps(Items(p))
    <2> HIDE DEF n
    <2> QED
      BY <1>3 DEF Seen, Stamps
  <1> HIDE DEF n
  <1>5. CASE request.kind = "plain"
    BY <1>5 DEF Checkpoint, Highest
  <1>6. CASE request.kind # "plain" /\ Stamps(Items(p)) = {}
    <2>1. Seen(n) = Seen(p)
      BY <1>4, <1>6
    <2>2. Highest(n) = Highest(p)
      BY <2>1 DEF Highest
    <2> QED
      BY <1>6, <2>2 DEF Checkpoint, n
  <1>7. CASE request.kind # "plain" /\ Stamps(Items(p)) # {}
    <2> DEFINE T == Stamps(Items(p)) \cup {request.before, x.after}
               m == Highest(n)
    <2>1. /\ m \in Seen(n) \cup {request.before} /\ m \in Nat
          /\ \A y \in Seen(n) \cup {request.before} : y <= m
      BY <1>1, <1>4, <1>7, HighestIs
    <2>2. x.after \in Nat /\ Seen(n) \subseteq Nat /\ request.before \in Nat
      BY <1>1, HighestIs, SeenTypes
    <2>3. \/ x.after = 0 /\ Seen(p) = {}
          \/ /\ x.after \in Seen(p) \cup {request.before}
             /\ \A y \in Seen(p) \cup {request.before} : y <= x.after
      BY <1>7, HighestIs DEF Highest
    <2>4. T \subseteq Nat
      BY <1>4, <2>2
    <2>5. \A y \in T : y <= m
      BY <1>4, <2>1, <2>2, <2>3
    <2>6. m \in T
      <3>1. CASE m \in Seen(p)
        <4>1. m <= x.after /\ x.after <= m
          BY <2>3, <2>5, <3>1
        <4> QED
          BY <2>1, <2>2, <4>1
      <3> QED
        BY <1>4, <2>1, <3>1
    <2>7. Max(T) = m
      <3> HIDE DEF T, m
      <3> QED
        BY <2>4, <2>5, <2>6, MaxIs
    <2> QED
      BY <1>7, <2>7 DEF Checkpoint, n
  <1> QED
    BY <1>5, <1>6, <1>7 DEF n

(* All the watermarks, with the checkpoint before: the newest of both.     *)
LEMMA HighestOfAll ==
  ASSUME api \in Apis, request \in Requests, Highest(Count) # 0
  PROVE  Highest(Count) = Newest
  <1>1. Count \in Nat /\ Count \in 0..Count
    BY ApiTypes
  <1>2. request.kind # "plain" /\ Seen(Count) # {}
    BY DEF Highest
  <1>3. ToSet(api.watermarks) \ {0} = Seen(Count)
    BY ApiTypes DEF ToSet, Seen, Records
  <1>4. /\ Highest(Count) \in Seen(Count) \cup {request.before}
        /\ \A y \in Seen(Count) \cup {request.before} : y <= Highest(Count)
        /\ Highest(Count) \in Nat
        /\ Seen(Count) \subseteq Nat /\ request.before \in Nat
    BY <1>1, <1>2, HighestIs, SeenTypes
  <1> DEFINE S == ToSet(api.watermarks) \cup {request.before}
  <1>5. S \subseteq Nat
    BY <1>3, <1>4
  <1>6. Highest(Count) \in S
    BY <1>3, <1>4
  <1>7. \A y \in S : y <= Highest(Count)
    BY <1>3, <1>4
  <1>8. Max(S) = Highest(Count)
    <2> HIDE DEF S
    <2> QED
      BY <1>5, <1>6, <1>7, MaxIs
  <1> QED
    BY <1>8 DEF Newest
-----------------------------------------------------------------------------
(* The steps of the Extractor.                                             *)

(* Of the known conventions, nothing that is not followed is taken for     *)
(* complete.                                                               *)
LEMMA LastPage ==
  ASSUME api \in Apis, NEW p \in 0..Count, ~ NextFound(p), Complete(p),
         Followed
  PROVE  ~ More(p)
  <1>1. Count \in Nat /\ p \in Nat /\ PageSize \in Nat
        /\ (api.paging = "whole" => PageSize = Count)
    BY ApiTypes
  <1>2. api.paging = "whole" => ~ More(p)
    BY <1>1 DEF More
  <1> QED
    BY <1>2 DEF NextFound, Complete, Followed, Known

(* The API and the request are what they were: Landed can be read of what  *)
(* a step makes of the extraction and of the files.                        *)
LEMMA LandedAfter ==
  ASSUME NEW r \in RunIds, UNCHANGED <<api, request>>,
         LandedOf(extraction'[r], payload'[r], manifest'[r])
  PROVE  Landed(r)'
  <1> DEFINE y == extraction'[r]
  <1>1. UNCHANGED <<Count, Records, PageSize, Content, Collection, Newest,
                    Followed>>
    BY DEF Count, Records, PageSize, Content, Rows, Collection, Newest,
           Followed
  <1>2. /\ Highest(y.at) = Highest(extraction[r].at)'
        /\ Highest(Count) = Highest(Count)'
    BY <1>1 DEF Highest, Seen
  <1>3. WholeItems(y.items) = WholeItems(extraction[r].items)'
    BY <1>1 DEF WholeItems
  <1>4. /\ Fetching(y) => Fetching(extraction[r])'
        /\ Ended(y) => Ended(extraction[r])'
        /\ Checked(y) => Checked(extraction[r])'
    BY <1>1, <1>2, <1>3 DEF Fetching, Ended, Checked
  <1> QED
    BY <1>1, <1>4 DEF Landed, LandedOf

(* What a step of one run does to the others: nothing.                     *)
LEMMA SameRun ==
  ASSUME NEW r \in RunIds, UNCHANGED <<api, request>>,
         extraction'[r] = extraction[r], payload'[r] = payload[r],
         manifest'[r] = manifest[r], Landed(r), Counted(r)
  PROVE  Landed(r)' /\ Counted(r)'
  <1>1. LandedOf(extraction'[r], payload'[r], manifest'[r])
    BY DEF Landed, LandedOf
  <1> QED
    BY <1>1, LandedAfter DEF Counted

LEMMA KeysTypes == \A p : Keys(p) \subseteq MetadataKeys
  BY DEF Keys, MetadataKeys

LEMMA FetchStep ==
  ASSUME IInv, NEW r \in RunIds, FetchPage(r)
  PROVE  /\ extraction'[r] \in Extraction
         /\ extraction' = [extraction EXCEPT ![r] = extraction'[r]]
         /\ Landed(r)' /\ Counted(r)'
  <1> DEFINE x == extraction[r]
             y == extraction'[r]
             n == x.at + Len(Items(x.at))
  <1>1. /\ api \in Apis /\ request \in Requests /\ x \in Extraction
        /\ extraction \in [RunIds -> Extraction]
        /\ x.phase = "fetch" /\ Fetching(x) /\ Counted(r)
        /\ payload[r] = None /\ manifest[r] = None
    BY DEF IInv, Types, ExtractorTypes, Landed, LandedOf, FetchPage
  <1>2. /\ x.at \in 0..Count /\ Count \in Nat /\ MaxPages \in Nat
        /\ x.pages \in Nat /\ x.pages < MaxPages
    BY <1>1, ApiTypes DEF Fetching, Extraction
  <1>3. /\ y.phase = (IF NextFound(x.at) THEN "fetch" ELSE "check")
        /\ y.at = n
        /\ y.seen = x.seen \cup {x.at}
        /\ y.pages = x.pages + 1
        /\ y.items = (IF Collection THEN x.items \o Items(x.at) ELSE <<0>>)
        /\ y.keys = Keys(x.at)
        /\ y.complete = Complete(x.at)
        /\ y.after = Checkpoint(x, Items(x.at))
        /\ y = [phase |-> y.phase, at |-> y.at, seen |-> y.seen,
                pages |-> y.pages, items |-> y.items, keys |-> y.keys,
                complete |-> y.complete, after |-> y.after]
        /\ extraction' = [extraction EXCEPT ![r] = y]
    BY <1>1 DEF FetchPage
  <1>4. /\ UNCHANGED <<api, request, payload, manifest>>
        /\ x.at \notin x.seen
        /\ NextFound(x.at) => Collection /\ ~ TooMany(x)
    BY DEF FetchPage, extractor
  <1>5. n \in 0..Count /\ n \in Nat
    <2>1. n \in 0..Count
      BY <1>1, <1>2, PageItems
    <2> QED
      BY <1>2, <2>1
  <1>6. y.after = Highest(n) /\ y.after \in 0..MaxStamp
    BY <1>1, <1>2, <1>3, <1>5, CheckpointOfPage, HighestIs DEF Fetching
  <1>7. Collection => y.items = [i \in 1..n |-> i]
    BY <1>1, <1>2, <1>3, OnePageMore DEF Fetching
  <1>8. y.items \in Rows
    <2>1. CASE Collection
      <3>1. [i \in 1..n |-> i] \in Seq(Records \cup {0})
        BY <1>2, <1>5 DEF Records
      <3> QED
        BY <1>7, <2>1, <3>1 DEF Rows
    <2>2. CASE ~ Collection
      BY <1>3, <2>2 DEF Rows
    <2> QED
      BY <2>1, <2>2
  <1>9. y \in Extraction
    <2>1. y.phase \in ExtractionPhases /\ y.keys \in SUBSET MetadataKeys
      BY <1>3, KeysTypes DEF ExtractionPhases
    <2>2. y.seen \in SUBSET Nat
      BY <1>1, <1>2, <1>3 DEF Extraction
    <2>3. y.pages \in 0..MaxPages
      BY <1>2, <1>3
    <2>4. y.complete \in BOOLEAN
      BY <1>3 DEF Complete
    <2>5. y.at \in Nat
      BY <1>3, <1>5
    <2> QED
      BY <1>3, <1>6, <1>8, <2>1, <2>2, <2>3, <2>4, <2>5 DEF Extraction
  <1>10. IsFiniteSet(y.seen) /\ Cardinality(y.seen) = y.pages
    <2>1. IsFiniteSet(x.seen) /\ Cardinality(x.seen) = x.pages
      BY <1>1 DEF Counted
    <2>2. /\ IsFiniteSet(x.seen \cup {x.at})
          /\ Cardinality(x.seen \cup {x.at}) = Cardinality(x.seen) + 1
      BY <1>4, <2>1, FS_AddElement
    <2> QED
      BY <1>3, <2>1, <2>2
  <1>11. ASSUME NextFound(x.at) PROVE Landed(r)'
    <2>1. Fetching(y)
      <3>1. y.pages < MaxPages
        BY <1>2, <1>3, <1>4, <1>11 DEF TooMany
      <3> QED
        BY <1>3, <1>4, <1>5, <1>6, <1>7, <1>11, <3>1 DEF Fetching
    <2>2. LandedOf(y, payload'[r], manifest'[r])
      BY <1>1, <1>3, <1>4, <1>11, <2>1 DEF LandedOf
    <2> QED
      BY <1>4, <2>2, LandedAfter
  <1>12. ASSUME ~ NextFound(x.at) PROVE Landed(r)'
    <2>1. ASSUME y.complete, Followed PROVE n = Count /\ ~ More(x.at)
      BY <1>1, <1>2, <1>3, <1>12, <2>1, LastPage, PageItems
    <2>2. ASSUME y.complete, Followed PROVE WholeItems(y.items)
      <3>1. CASE Collection
        BY <1>7, <2>1, <2>2, <3>1 DEF WholeItems, Records
      <3>2. CASE ~ Collection
        <4>1. x.at = 0 /\ PageSize \in Nat
          BY <1>1, <3>2, ApiTypes DEF Fetching
        <4> QED
          BY <1>2, <2>1, <2>2, <3>2, <4>1 DEF WholeItems, More
      <3> QED
        BY <3>1, <3>2
    <2>3. Ended(y)
      BY <1>6, <2>1, <2>2 DEF Ended
    <2>4. LandedOf(y, payload'[r], manifest'[r])
      BY <1>1, <1>3, <1>4, <1>12, <2>3 DEF LandedOf
    <2> QED
      BY <1>4, <2>4, LandedAfter
  <1>13. Counted(r)'
    BY <1>10 DEF Counted
  <1> QED
    BY <1>3, <1>9, <1>11, <1>12, <1>13

(* No work is an extraction, whatever its phase is called.                 *)
LEMMA EmptyExtraction ==
  ASSUME api \in Apis, NEW ph \in ExtractionPhases
  PROVE  [phase |-> ph, at |-> 0, seen |-> {}, pages |-> 0, items |-> <<>>,
          keys |-> {}, complete |-> TRUE, after |-> 0] \in Extraction
  <1>1. 0 \in 0..MaxPages /\ 0 \in 0..MaxStamp /\ 0 \in Nat
    BY ApiTypes
  <1>2. <<>> \in Rows
    BY DEF Rows
  <1>3. {} \in SUBSET Nat /\ {} \in SUBSET MetadataKeys /\ TRUE \in BOOLEAN
    OBVIOUS
  <1> QED
    BY <1>1, <1>2, <1>3 DEF Extraction

(* A refusal, wherever the work was: only a payload may be left.           *)
LEMMA RefusedStep ==
  ASSUME IInv, NEW r \in RunIds, UNCHANGED <<api, request, payload, manifest>>,
         extraction'[r] = [NoExtraction EXCEPT !.phase = "refused"],
         extraction[r].phase # "done"
  PROVE  /\ extraction'[r] \in Extraction
         /\ Landed(r)' /\ Counted(r)'
  <1> DEFINE y == extraction'[r]
  <1>1. /\ api \in Apis /\ manifest[r] = None /\ MaxPages \in Nat
        /\ MaxStamp \in Nat
    BY ApiTypes DEF IInv, Types, ExtractorTypes, Landed, LandedOf
  <1>2. y = [phase |-> "refused", at |-> 0, seen |-> {}, pages |-> 0,
             items |-> <<>>, keys |-> {}, complete |-> TRUE, after |-> 0]
    BY DEF NoExtraction
  <1>3. y \in Extraction
    BY <1>1, <1>2, EmptyExtraction DEF ExtractionPhases
  <1>4. LandedOf(y, payload'[r], manifest'[r])
    BY <1>1, <1>2 DEF LandedOf
  <1>5. Counted(r)'
    BY <1>2, FS_EmptySet DEF Counted
  <1> QED
    BY <1>3, <1>4, <1>5, LandedAfter

(* A request: the loop begins with no record and no page.                  *)
LEMMA StartStep ==
  ASSUME IInv, NEW r \in RunIds, StartRun(r)
  PROVE  /\ extraction'[r] \in Extraction
         /\ extraction' = [extraction EXCEPT ![r] = extraction'[r]]
         /\ Landed(r)' /\ Counted(r)'
  <1> DEFINE x == extraction[r]
             y == extraction'[r]
  <1>1. /\ api \in Apis /\ request \in Requests /\ x \in Extraction
        /\ extraction \in [RunIds -> Extraction] /\ MaxPages \in Nat \ {0}
        /\ x = NoExtraction /\ Counted(r)
        /\ payload[r] = None /\ manifest[r] = None
    <2>1. x = NoExtraction /\ x.phase = "none"
      BY DEF IInv, StartRun, Begun, NoExtraction
    <2>2. api \in Apis
      BY DEF IInv, Types, ExtractorTypes
    <2>3. Landed(r) /\ Counted(r)
      BY DEF IInv
    <2>4. payload[r] = None /\ manifest[r] = None
      BY <2>1, <2>3 DEF Landed, LandedOf
    <2> QED
      BY <2>1, <2>2, <2>3, <2>4, ApiTypes DEF IInv, Types, ExtractorTypes
  <1>2. /\ UNCHANGED <<api, request, payload, manifest>>
        /\ extraction' = [extraction EXCEPT ![r].phase = "fetch"]
    BY DEF StartRun
  <1>3. y = [phase |-> "fetch", at |-> 0, seen |-> {}, pages |-> 0,
             items |-> <<>>, keys |-> {}, complete |-> TRUE, after |-> 0]
    <2>1. y = [NoExtraction EXCEPT !.phase = "fetch"]
      BY <1>1, <1>2
    <2> QED
      BY <2>1 DEF NoExtraction
  <1>4. y \in Extraction
    BY <1>1, <1>3, EmptyExtraction DEF ExtractionPhases
  <1>5. Fetching(y)
    <2>1. 0 \in 0..Count /\ Seen(0) = {}
      BY <1>1, ApiTypes DEF Seen
    <2>2. <<>> = [i \in 1..0 |-> i]
      OBVIOUS
    <2> QED
      BY <1>1, <1>3, <2>1, <2>2 DEF Fetching, Highest
  <1>6. LandedOf(y, payload'[r], manifest'[r])
    BY <1>1, <1>2, <1>3, <1>5 DEF LandedOf
  <1>7. Counted(r)'
    BY <1>3, FS_EmptySet DEF Counted
  <1> QED
    BY <1>1, <1>2, <1>4, <1>6, <1>7, LandedAfter

(* Every other step changes nothing but the phase, the checkpoint and the  *)
(* files.                                                                  *)
LEMMA CheckStep ==
  ASSUME IInv, NEW r \in RunIds, CheckWatermark(r)
  PROVE  /\ extraction'[r] \in Extraction
         /\ extraction' = [extraction EXCEPT ![r] = extraction'[r]]
         /\ Landed(r)' /\ Counted(r)'
  <1> DEFINE x == extraction[r]
             y == extraction'[r]
             a == IF x.after = 0 /\ request.kind = "next" /\ Count = 0
                    THEN request.before ELSE x.after
  <1>1. /\ api \in Apis /\ request \in Requests /\ x \in Extraction
        /\ extraction \in [RunIds -> Extraction]
        /\ x.phase = "check" /\ Ended(x) /\ Counted(r)
        /\ payload[r] = None /\ manifest[r] = None
    BY DEF IInv, Types, ExtractorTypes, Landed, LandedOf, CheckWatermark
  <1>2. UNCHANGED <<api, request, payload, manifest>>
    BY DEF CheckWatermark
  <1>3. CASE request.kind # "plain" /\ a = 0
    <2>1. extraction' = [extraction EXCEPT ![r] =
                           [NoExtraction EXCEPT !.phase = "refused"]]
      BY <1>3 DEF CheckWatermark, Refused
    <2>2. extraction'[r] = [NoExtraction EXCEPT !.phase = "refused"]
      BY <1>1, <2>1
    <2> QED
      BY <1>1, <1>2, <2>1, <2>2, RefusedStep
  <1>4. CASE ~ (request.kind # "plain" /\ a = 0)
    <2>1. extraction' = [extraction EXCEPT ![r] =
                           [x EXCEPT !.phase = "payload", !.after = a]]
      BY <1>1, <1>4 DEF CheckWatermark
    <2>2. y = [x EXCEPT !.phase = "payload", !.after = a]
      BY <1>1, <2>1
    <2>3. a \in 0..MaxStamp
      BY <1>1, SeenTypes, ApiTypes DEF Extraction
    <2>4. y \in Extraction
      BY <1>1, <2>2, <2>3 DEF Extraction, ExtractionPhases
    <2>5. /\ y.phase = "payload" /\ y.after = a /\ y.items = x.items
          /\ y.complete = x.complete /\ y.seen = x.seen /\ y.pages = x.pages
      BY <1>1, <2>2 DEF Extraction
    <2>6. ASSUME x.complete, Followed, request.kind # "plain"
          PROVE  a = Newest
      <3>1. x.after = Highest(Count) /\ a # 0
        BY <1>1, <1>4, <2>6 DEF Ended
      <3>2. CASE x.after = 0
        <4>1. Count = 0 /\ a = request.before
          BY <3>1, <3>2
        <4>2. ToSet(api.watermarks) = {}
          BY <1>1, <4>1, ApiTypes DEF ToSet, Records
        <4>3. request.before \in Nat /\ Count \in 0..Count
          BY <1>1, <4>1, SeenTypes, ApiTypes
        <4> QED
          BY <4>1, <4>2, <4>3, MaxIs DEF Newest
      <3>3. CASE x.after # 0
        BY <1>1, <3>1, <3>3, HighestOfAll
      <3> QED
        BY <3>2, <3>3
    <2>7. Checked(y)
      BY <1>1, <2>5, <2>6 DEF Checked, Ended
    <2>8. LandedOf(y, payload'[r], manifest'[r])
      BY <1>1, <1>2, <2>5, <2>7 DEF LandedOf
    <2>9. Landed(r)' /\ Counted(r)'
      BY <1>1, <1>2, <2>5, <2>8, LandedAfter DEF Counted
    <2> QED
      BY <1>1, <2>1, <2>2, <2>4, <2>9
  <1> QED
    BY <1>3, <1>4

LEMMA PayloadStep ==
  ASSUME IInv, NEW r \in RunIds, PublishPayload(r)
  PROVE  /\ extraction'[r] \in Extraction
         /\ extraction' = [extraction EXCEPT ![r] = extraction'[r]]
         /\ payload'[r] \in Content
         /\ payload' = [payload EXCEPT ![r] = payload'[r]]
         /\ Landed(r)' /\ Counted(r)'
  <1> DEFINE x == extraction[r]
             y == extraction'[r]
             p == [root |-> IF api.shape = "array" THEN "array" ELSE "object",
                   shape |-> api.shape, keys |-> x.keys, items |-> x.items]
  <1>1. /\ api \in Apis /\ x \in Extraction
        /\ extraction \in [RunIds -> Extraction]
        /\ payload \in [RunIds -> Content \cup {None}]
        /\ x.phase = "payload" /\ Checked(x) /\ Counted(r)
        /\ manifest[r] = None
    BY DEF IInv, Types, ExtractorTypes, Landed, LandedOf, PublishPayload
  <1>2. /\ UNCHANGED <<api, request, manifest>>
        /\ extraction' = [extraction EXCEPT ![r].phase = "manifest"]
        /\ payload' = [payload EXCEPT ![r] = p]
    BY DEF PublishPayload
  <1>3. y = [x EXCEPT !.phase = "manifest"] /\ payload'[r] = p
    BY <1>1, <1>2
  <1>4. y \in Extraction
    BY <1>1, <1>3 DEF Extraction, ExtractionPhases
  <1>5. /\ y.phase = "manifest" /\ y.after = x.after /\ y.items = x.items
        /\ y.complete = x.complete /\ y.seen = x.seen /\ y.pages = x.pages
    BY <1>1, <1>3 DEF Extraction
  <1>6. p \in Content /\ p.items = x.items
    BY <1>1, ApiTypes DEF Content, Extraction
  <1>7. Checked(y)
    BY <1>1, <1>5 DEF Checked
  <1>8. LandedOf(y, payload'[r], manifest'[r])
    BY <1>1, <1>2, <1>3, <1>5, <1>6, <1>7 DEF LandedOf
  <1>9. Landed(r)' /\ Counted(r)'
    BY <1>1, <1>2, <1>5, <1>8, LandedAfter DEF Counted
  <1> QED
    BY <1>1, <1>2, <1>3, <1>4, <1>6, <1>9

LEMMA ManifestStep ==
  ASSUME IInv, NEW r \in RunIds, PublishManifest(r)
  PROVE  /\ extraction'[r] \in Extraction
         /\ extraction' = [extraction EXCEPT ![r] = extraction'[r]]
         /\ manifest'[r] \in Manifest
         /\ manifest' = [manifest EXCEPT ![r] = manifest'[r]]
         /\ Landed(r)' /\ Counted(r)'
  <1> DEFINE x == extraction[r]
             y == extraction'[r]
             m == [complete |-> x.complete, after |-> x.after]
  <1>1. /\ api \in Apis /\ x \in Extraction
        /\ extraction \in [RunIds -> Extraction]
        /\ manifest \in [RunIds -> Manifest \cup {None}]
        /\ x.phase = "manifest" /\ Checked(x) /\ Counted(r)
        /\ payload[r] \in Content /\ payload[r].items = x.items
    BY DEF IInv, Types, ExtractorTypes, Landed, LandedOf, PublishManifest
  <1>2. /\ UNCHANGED <<api, request, payload>>
        /\ extraction' = [extraction EXCEPT ![r].phase = "done"]
        /\ manifest' = [manifest EXCEPT ![r] = m]
    BY DEF PublishManifest
  <1>3. y = [x EXCEPT !.phase = "done"] /\ manifest'[r] = m
    BY <1>1, <1>2
  <1>4. y \in Extraction
    BY <1>1, <1>3 DEF Extraction, ExtractionPhases
  <1>5. /\ y.phase = "done" /\ y.after = x.after /\ y.items = x.items
        /\ y.complete = x.complete /\ y.seen = x.seen /\ y.pages = x.pages
    BY <1>1, <1>3 DEF Extraction
  <1>6. m \in Manifest
    BY <1>1 DEF Manifest, Extraction
  <1>7. Checked(y)
    BY <1>1, <1>5 DEF Checked
  <1>8. LandedOf(y, payload'[r], manifest'[r])
    BY <1>1, <1>2, <1>3, <1>5, <1>7 DEF LandedOf
  <1>9. Landed(r)' /\ Counted(r)'
    BY <1>1, <1>2, <1>5, <1>8, LandedAfter DEF Counted
  <1> QED
    BY <1>1, <1>2, <1>3, <1>4, <1>6, <1>9

Extracted ==
    /\ ExtractorTypes
    /\ \A r \in RunIds : Landed(r) /\ Counted(r)

LEMMA OneRun ==
  ASSUME IInv, UNCHANGED <<api, request>>, NEW r \in RunIds,
         extraction'[r] \in Extraction,
         extraction' = [extraction EXCEPT ![r] = extraction'[r]],
         \/ payload' = payload
         \/ /\ payload'[r] \in Content
            /\ payload' = [payload EXCEPT ![r] = payload'[r]],
         \/ manifest' = manifest
         \/ /\ manifest'[r] \in Manifest
            /\ manifest' = [manifest EXCEPT ![r] = manifest'[r]],
         Landed(r)', Counted(r)'
  PROVE  Extracted'
  <1>1. /\ extraction \in [RunIds -> Extraction]
        /\ payload \in [RunIds -> Content \cup {None}]
        /\ manifest \in [RunIds -> Manifest \cup {None}]
    BY DEF IInv, Types, ExtractorTypes
  <1>2. UNCHANGED <<Rows, Content, Extraction>>
    BY DEF Rows, Records, Count, Content, Extraction
  <1>3. /\ extraction' \in [RunIds -> Extraction]
        /\ payload' \in [RunIds -> Content \cup {None}]
        /\ manifest' \in [RunIds -> Manifest \cup {None}]
    BY <1>1
  <1>4. ExtractorTypes'
    BY <1>2, <1>3 DEF ExtractorTypes, IInv, Types
  <1>5. ASSUME NEW q \in RunIds, q # r
        PROVE  Landed(q)' /\ Counted(q)'
    <2>1. /\ extraction'[q] = extraction[q] /\ payload'[q] = payload[q]
          /\ manifest'[q] = manifest[q]
      BY <1>1, <1>5
    <2> QED
      BY <2>1, SameRun DEF IInv
  <1> QED
    BY <1>4, <1>5 DEF Extracted

LEMMA SameApi == [Next]_vars => UNCHANGED <<api, request>>
  BY DEF Next, vars, StartRun, ExtractorStep, RunStep, PageFails, GiveUp,
         AskByHand, ExtractorCrashes, LoaderStep, LoaderFails, FetchPage,
         PageRefused, CheckWatermark, PublishPayload, PublishManifest,
         AskForLoad, ExtractionRefused, TakeAnswer, Verify, InsertBatch,
         WriteFirstRows, WriteRows, Commit, LoadFails

LEMMA CrashStep ==
  ASSUME IInv, ExtractorCrashes
  PROVE  Extracted'
  <1>1. /\ extraction \in [RunIds -> Extraction]
        /\ UNCHANGED <<api, request, payload, manifest>>
        /\ extraction' =
             [r \in RunIds |->
                IF extraction[r].phase \in {"none", "done", "refused"}
                  THEN extraction[r]
                  ELSE [NoExtraction EXCEPT !.phase = "refused"]]
    BY DEF IInv, Types, ExtractorTypes, ExtractorCrashes
  <1>2. ASSUME NEW r \in RunIds
        PROVE  /\ extraction'[r] \in Extraction
               /\ Landed(r)' /\ Counted(r)'
    <2>1. CASE extraction[r].phase \in {"none", "done", "refused"}
      <3>1. extraction'[r] = extraction[r] /\ extraction'[r] \in Extraction
        BY <1>1, <2>1
      <3> QED
        BY <1>1, <3>1, SameRun DEF IInv
    <2>2. CASE extraction[r].phase \notin {"none", "done", "refused"}
      <3>1. extraction'[r] = [NoExtraction EXCEPT !.phase = "refused"]
        BY <1>1, <2>2
      <3> QED
        BY <1>1, <2>2, <3>1, RefusedStep
    <2> QED
      BY <2>1, <2>2
  <1>3. extraction' \in [RunIds -> Extraction]
    BY <1>1, <1>2
  <1>4. UNCHANGED <<Rows, Content, Extraction>>
    BY <1>1 DEF Rows, Records, Count, Content, Extraction
  <1>5. ExtractorTypes'
    BY <1>1, <1>3, <1>4 DEF ExtractorTypes, IInv, Types
  <1> QED
    BY <1>2, <1>5 DEF Extracted

LEMMA ExtractedNext == IInv /\ [Next]_vars => Extracted'
  <1> SUFFICES ASSUME IInv, [Next]_vars
               PROVE  Extracted'
    OBVIOUS
  <1>0. UNCHANGED <<api, request>>
    BY SameApi
  <1>1. ASSUME NEW r \in RunIds, StartRun(r) PROVE Extracted'
    <2>1. UNCHANGED <<payload, manifest>>
      BY <1>1 DEF StartRun
    <2> QED
      BY <1>0, <1>1, <2>1, StartStep, OneRun
  <1>2. ASSUME NEW r \in RunIds, FetchPage(r) PROVE Extracted'
    <2>1. UNCHANGED <<payload, manifest>>
      BY <1>2 DEF FetchPage
    <2> QED
      BY <1>0, <1>2, <2>1, FetchStep, OneRun
  <1>3. ASSUME NEW r \in RunIds, PageRefused(r) \/ PageFails(r)
        PROVE  Extracted'
    <2>1. /\ UNCHANGED <<payload, manifest>> /\ extraction[r].phase = "fetch"
          /\ extraction' = [extraction EXCEPT ![r] =
                              [NoExtraction EXCEPT !.phase = "refused"]]
      BY <1>3 DEF PageRefused, PageFails, Refused, extractor
    <2>2. extraction'[r] = [NoExtraction EXCEPT !.phase = "refused"]
      BY <2>1 DEF IInv, Types, ExtractorTypes
    <2>3. extraction'[r] \in Extraction /\ Landed(r)' /\ Counted(r)'
      BY <1>0, <2>1, <2>2, RefusedStep
    <2>4. extraction' = [extraction EXCEPT ![r] = extraction'[r]]
      BY <2>1, <2>2
    <2> QED
      BY <1>0, <2>1, <2>3, <2>4, OneRun
  <1>4. ASSUME NEW r \in RunIds, CheckWatermark(r) PROVE Extracted'
    <2>1. UNCHANGED <<payload, manifest>>
      BY <1>4 DEF CheckWatermark
    <2> QED
      BY <1>0, <1>4, <2>1, CheckStep, OneRun
  <1>5. ASSUME NEW r \in RunIds, PublishPayload(r) PROVE Extracted'
    <2>1. UNCHANGED manifest
      BY <1>5 DEF PublishPayload
    <2> QED
      BY <1>0, <1>5, <2>1, PayloadStep, OneRun
  <1>6. ASSUME NEW r \in RunIds, PublishManifest(r) PROVE Extracted'
    <2>1. UNCHANGED payload
      BY <1>6 DEF PublishManifest
    <2> QED
      BY <1>0, <1>6, <2>1, ManifestStep, OneRun
  <1>7. ASSUME UNCHANGED extractor PROVE Extracted'
    <2>1. UNCHANGED <<extraction, payload, manifest>>
      BY <1>7 DEF extractor
    <2>2. UNCHANGED <<Rows, Content, Extraction>>
      BY <1>0 DEF Rows, Records, Count, Content, Extraction
    <2>3. ExtractorTypes'
      BY <1>0, <2>1, <2>2 DEF ExtractorTypes, IInv, Types
    <2>4. \A r \in RunIds : Landed(r)' /\ Counted(r)'
      BY <1>0, <2>1, SameRun DEF IInv
    <2> QED
      BY <2>3, <2>4 DEF Extracted
  <1>8. CASE UNCHANGED vars
    BY <1>7, <1>8 DEF vars, extractor
  <1>9. ASSUME NEW r \in RunIds, RunStep(r) \/ GiveUp(r) \/ AskByHand(r)
        PROVE  Extracted'
    BY <1>7, <1>9
    DEF RunStep, GiveUp, AskByHand, AskForLoad, ExtractionRefused, TakeAnswer
  <1>10. CASE LoaderFails \/ \E l \in LoadIds : LoaderStep(l)
    BY <1>7, <1>10
    DEF LoaderStep, LoaderFails, LoadFails, Verify, InsertBatch,
        WriteFirstRows, WriteRows, Commit
  <1> QED
    BY <1>1, <1>2, <1>3, <1>4, <1>5, <1>6, <1>8, <1>9, <1>10, CrashStep
    DEF Next, ExtractorStep

-----------------------------------------------------------------------------
(* What no step undoes.                                                    *)

(* A payload that can be loaded is the work of an extraction that is over. *)
LEMMA LoadableIsLanded ==
  ASSUME IInv, NEW f \in RunIds, Loadable(f)
  PROVE  /\ extraction[f].phase = "done" /\ extraction[f].complete
         /\ Checked(extraction[f])
         /\ payload[f] \in Content /\ payload[f].items = extraction[f].items
         /\ manifest[f].after = extraction[f].after
         /\ run[f].phase # "none"
  <1>1. Landed(f) /\ Begun(f) /\ manifest[f] # None /\ manifest[f].complete
    BY DEF IInv, Loadable
  <1>2. extraction[f].phase = "done"
    BY <1>1 DEF Landed, LandedOf
  <1> QED
    BY <1>1, <1>2 DEF Landed, LandedOf, Begun, NoExtraction

LEMMA LoadableStays ==
  ASSUME IInv, [Next]_vars, NEW f \in RunIds, Loadable(f)
  PROVE  /\ UNCHANGED <<extraction[f], payload[f], manifest[f]>>
         /\ Loadable(f)'
  <1>1. extraction[f].phase = "done" /\ run[f].phase # "none"
    BY LoadableIsLanded
  <1>2. /\ extraction \in [RunIds -> Extraction]
        /\ payload \in [RunIds -> Content \cup {None}]
        /\ manifest \in [RunIds -> Manifest \cup {None}]
    BY DEF IInv, Types, ExtractorTypes
  <1>3. UNCHANGED <<extraction[f], payload[f], manifest[f]>>
    <2>1. ASSUME NEW r \in RunIds,
                 StartRun(r) \/ ExtractorStep(r) \/ PageFails(r)
          PROVE  UNCHANGED <<extraction[f], payload[f], manifest[f]>>
      <3>1. r # f
        BY <1>1, <2>1
        DEF StartRun, ExtractorStep, FetchPage, PageRefused, CheckWatermark,
            PublishPayload, PublishManifest, PageFails
      <3>2. CASE StartRun(r)
        BY <1>2, <3>1, <3>2 DEF StartRun
      <3>3. CASE FetchPage(r)
        BY <1>2, <3>1, <3>3 DEF FetchPage
      <3>4. CASE PageRefused(r) \/ PageFails(r)
        BY <1>2, <3>1, <3>4 DEF PageRefused, PageFails, Refused
      <3>5. CASE CheckWatermark(r)
        BY <1>2, <3>1, <3>5 DEF CheckWatermark, Refused
      <3>6. CASE PublishPayload(r)
        BY <1>2, <3>1, <3>6 DEF PublishPayload
      <3>7. CASE PublishManifest(r)
        BY <1>2, <3>1, <3>7 DEF PublishManifest
      <3> QED
        BY <2>1, <3>2, <3>3, <3>4, <3>5, <3>6, <3>7 DEF ExtractorStep
    <2>2. CASE ExtractorCrashes
      BY <1>1, <2>2 DEF ExtractorCrashes
    <2>3. CASE UNCHANGED extractor
      BY <2>3 DEF extractor
    <2>4. CASE UNCHANGED vars
      BY <2>4 DEF vars
    <2>5. ASSUME NEW r \in RunIds, RunStep(r) \/ GiveUp(r) \/ AskByHand(r)
          PROVE  UNCHANGED extractor
      BY <2>5
      DEF RunStep, GiveUp, AskByHand, AskForLoad, ExtractionRefused, TakeAnswer
    <2>6. CASE LoaderFails \/ \E l \in LoadIds : LoaderStep(l)
      <3>1. UNCHANGED extractor
        BY <2>6
        DEF LoaderStep, LoaderFails, LoadFails, Verify, InsertBatch,
            WriteFirstRows, WriteRows, Commit
      <3> QED
        BY <2>3, <3>1
    <2> QED
      BY <2>1, <2>2, <2>3, <2>4, <2>5, <2>6 DEF Next
  <1> QED
    BY <1>3 DEF Loadable

LEMMA RowsTypes ==
  ASSUME NEW p \in Content
  PROVE  RowsOf(p) \in Rows /\ Len(RowsOf(p)) \in Nat
  <1>1. p.items \in Rows /\ <<0>> \in Rows
    BY DEF Content, Rows
  <1> QED
    BY <1>1, LenProperties DEF RowsOf, Rows

(* What is committed stays, and only Commit adds to it.                    *)
LEMMA CommittedStays ==
  ASSUME IInv, [Next]_vars, NEW k \in LoadIds, batches[k] # None
  PROVE  batches'[k] = batches[k]
  <1>1. load[k].phase = "answered"
    BY DEF IInv, Stored
  <1>2. CASE UNCHANGED batches
    BY <1>2
  <1>3. ASSUME NEW l \in LoadIds, Commit(l)
        PROVE  batches'[k] = batches[k]
    <2>1. l # k
      BY <1>1, <1>3 DEF Commit
    <2> QED
      BY <1>3, <2>1 DEF Commit, IInv, Types, LoaderTypes
  <1>4. ASSUME NEW l \in LoadIds, LoaderStep(l), ~ Commit(l)
        PROVE  UNCHANGED batches
    BY <1>4
    DEF LoaderStep, Verify, InsertBatch, WriteFirstRows, WriteRows
  <1>5. ASSUME NEW r \in RunIds,
               \/ StartRun(r) \/ ExtractorStep(r) \/ PageFails(r)
               \/ RunStep(r) \/ GiveUp(r) \/ AskByHand(r)
        PROVE  UNCHANGED batches
    BY <1>5
    DEF StartRun, ExtractorStep, PageFails, FetchPage, PageRefused,
        CheckWatermark, PublishPayload, PublishManifest, RunStep, GiveUp,
        AskByHand, AskForLoad, ExtractionRefused, TakeAnswer, loader
  <1>6. CASE ExtractorCrashes \/ LoaderFails \/ UNCHANGED vars
    BY <1>2, <1>6 DEF ExtractorCrashes, LoaderFails, LoadFails, loader, vars
  <1> QED
    BY <1>2, <1>3, <1>4, <1>5, <1>6 DEF Next

(* A session that does nothing keeps what is said of it.                   *)
LEMMA SessionKept ==
  ASSUME IInv, [Next]_vars, NEW k \in LoadIds, load'[k] = load[k],
         load[k].phase \in {"ensure", "rows"} =>
           Committed(load[k].file)' = {}
  PROVE  Session(k)'
  <1> DEFINE f == load[k].file
  <1>1. Session(k)
    BY DEF IInv
  <1>2. load[k].phase \in {"insert", "ensure", "rows", "answered"} =>
          /\ f \in RunIds /\ Loadable(f)'
          /\ UNCHANGED payload[f]
    BY <1>1, LoadableStays DEF Session
  <1>3. load[k].phase = "answered" =>
          /\ load[k].answer \in LoadIds
          /\ batches'[load[k].answer] = batches[load[k].answer]
    BY <1>1, CommittedStays DEF Session
  <1> QED
    BY <1>1, <1>2, <1>3 DEF Session

(* Steps that commit nothing.                                              *)
LEMMA NoCommit ==
  ASSUME IInv, [Next]_vars, UNCHANGED batches,
         \A k \in LoadIds : \/ load'[k] = load[k]
                            \/ batches[k] = None /\ Session(k)'
  PROVE  \A k \in LoadIds : Session(k)' /\ Stored(k)'
  <1>1. \A f : Committed(f)' = Committed(f)
    BY DEF Committed
  <1> TAKE k \in LoadIds
  <1>2. Session(k)'
    <2>1. CASE load'[k] = load[k]
      <3>1. load[k].phase \in {"ensure", "rows"} =>
              Committed(load[k].file) = {}
        BY DEF IInv, Session
      <3>2. Committed(load[k].file)' = Committed(load[k].file)
        BY <2>1 DEF Committed
      <3> QED
        BY <2>1, <3>1, <3>2, SessionKept
    <2> QED
      BY <2>1
  <1>3. Stored(k)'
    <2>1. CASE batches[k] = None
      BY <2>1 DEF Stored
    <2>2. CASE batches[k] # None
      <3>1. /\ Stored(k) /\ Session(k) /\ load'[k] = load[k]
            /\ batches'[k] = batches[k]
        BY <2>2 DEF IInv
      <3>2. batches[k].file \in RunIds /\ Loadable(batches[k].file)
        BY <2>2, <3>1 DEF Stored, Session
      <3>3. UNCHANGED <<payload[batches[k].file], manifest[batches[k].file]>>
        BY <3>2, LoadableStays
      <3> QED
        BY <1>1, <2>2, <3>1, <3>3 DEF Stored
    <2> QED
      BY <2>1, <2>2
  <1> QED
    BY <1>2, <1>3

-----------------------------------------------------------------------------
(* The steps of the Loader.                                                *)

Loaded ==
    /\ load \in [LoadIds -> Load]
    /\ batches \in [LoadIds -> Batch \cup {None}]
    /\ \A l \in LoadIds : Session(l) /\ Stored(l)
    /\ OneSession

LEMMA OneLoad ==
  ASSUME IInv, [Next]_vars, NEW l \in LoadIds, UNCHANGED batches,
         load'[l] \in Load, load' = [load EXCEPT ![l] = load'[l]],
         load[l].phase # "answered", Session(l)',
         load'[l].phase \in {"ensure", "rows"} =>
           \A k \in Open \ {l} : load[k].file # load'[l].file
  PROVE  Loaded'
  <1>1. /\ load \in [LoadIds -> Load]
        /\ batches \in [LoadIds -> Batch \cup {None}]
    BY DEF IInv, Types, LoaderTypes
  <1>2. UNCHANGED <<Load, Batch>>
    BY SameApi DEF Load, Rows, Records, Count, Batch
  <1>3. load' \in [LoadIds -> Load]
    BY <1>1
  <1>4. \A k \in LoadIds : k # l => load'[k] = load[k]
    BY <1>1
  <1>5. batches[l] = None
    BY DEF IInv, Stored
  <1>6. \A k \in LoadIds : Session(k)' /\ Stored(k)'
    BY <1>4, <1>5, NoCommit
  <1>7. ASSUME NEW j \in Open', NEW k \in Open', load'[j].file = load'[k].file
        PROVE  j = k
    <2>1. CASE j = l
      BY <1>4, <1>7, <2>1 DEF Open
    <2>2. CASE k = l
      BY <1>4, <1>7, <2>2 DEF Open
    <2>3. CASE j # l /\ k # l
      BY <1>4, <1>7, <2>3 DEF Open, IInv, OneSession
    <2> QED
      BY <2>1, <2>2, <2>3
  <1>8. OneSession'
    BY <1>7 DEF OneSession
  <1> QED
    BY <1>1, <1>2, <1>3, <1>6, <1>8 DEF Loaded

LEMMA SameLoader ==
  ASSUME IInv, [Next]_vars, UNCHANGED loader
  PROVE  Loaded'
  <1>1. UNCHANGED <<load, batches>>
    BY DEF loader
  <1>2. UNCHANGED <<Load, Batch>>
    BY SameApi DEF Load, Rows, Records, Count, Batch
  <1>3. \A k \in LoadIds : Session(k)' /\ Stored(k)'
    BY <1>1, NoCommit
  <1>4. OneSession'
    BY <1>1 DEF IInv, OneSession, Open
  <1> QED
    BY <1>1, <1>2, <1>3, <1>4 DEF Loaded, IInv, Types, LoaderTypes

LEMMA NewLoadStep ==
  ASSUME IInv, [Next]_vars, UNCHANGED batches, NEW f \in RunIds,
         NEW by \in {"run", "hand"}, NewLoad(f, by)
  PROVE  Loaded'
  <1>1. load \in [LoadIds -> Load]
    BY DEF IInv, Types, LoaderTypes
  <1>2. PICK l \in LoadIds :
          /\ load[l].phase = "none"
          /\ load' = [load EXCEPT ![l] =
                        [NoLoad EXCEPT !.phase = "verify", !.file = f,
                                       !.by = by]]
    BY DEF NewLoad
  <1>3. load'[l] = [phase |-> "verify", file |-> f, by |-> by, rows |-> <<>>,
                    answer |-> 0]
    BY <1>1, <1>2 DEF NoLoad
  <1>4. load'[l] \in Load
    BY <1>3 DEF Load, LoadPhases, Rows
  <1>5. load' = [load EXCEPT ![l] = load'[l]]
    BY <1>1, <1>2
  <1>6. Session(l)'
    BY <1>3 DEF Session
  <1>7. /\ load'[l].phase \notin {"ensure", "rows"}
        /\ load[l].phase # "answered"
    BY <1>2, <1>3
  <1> QED
    BY <1>4, <1>5, <1>6, <1>7, OneLoad

LEMMA VerifyStep ==
  ASSUME IInv, [Next]_vars, NEW l \in LoadIds, Verify(l)
  PROVE  Loaded'
  <1>0. PICK f \in RunIds : f = load[l].file
    BY DEF IInv, Session, Verify
  <1> DEFINE ph == IF Loadable(f) THEN "insert" ELSE "refused"
  <1>1. /\ load \in [LoadIds -> Load] /\ load[l] \in Load
        /\ load[l].phase = "verify" /\ UNCHANGED batches
        /\ load' = [load EXCEPT ![l].phase = ph]
        /\ load[l].rows = <<>>
    BY <1>0 DEF IInv, Types, LoaderTypes, Verify, Session
  <1>2. load'[l] = [load[l] EXCEPT !.phase = ph]
    BY <1>1
  <1>3. /\ load'[l].phase = ph /\ load'[l].file = f /\ load'[l].rows = <<>>
        /\ load'[l] \in Load
    BY <1>0, <1>1, <1>2 DEF Load, LoadPhases
  <1>4. Loadable(f) => Loadable(f)'
    BY <1>1, LoadableStays
  <1>5. Session(l)'
    BY <1>1, <1>3, <1>4 DEF Session, Loadable
  <1>6. load' = [load EXCEPT ![l] = load'[l]]
    BY <1>1, <1>2
  <1>7. /\ load'[l].phase \notin {"ensure", "rows"}
        /\ load[l].phase # "answered"
    BY <1>1, <1>3
  <1> QED
    BY <1>1, <1>3, <1>5, <1>6, <1>7, OneLoad

LEMMA InsertStep ==
  ASSUME IInv, [Next]_vars, NEW l \in LoadIds, InsertBatch(l)
  PROVE  Loaded'
  <1>0. PICK f \in RunIds : f = load[l].file
    BY DEF IInv, Session, InsertBatch
  <1>1. /\ load \in [LoadIds -> Load] /\ load[l] \in Load
        /\ load[l].phase = "insert" /\ UNCHANGED batches
        /\ Rivals(f) = {}
        /\ load[l].rows = <<>> /\ Loadable(f)
    BY <1>0 DEF IInv, Types, LoaderTypes, InsertBatch, Session
  <1>2. Loadable(f)'
    BY <1>1, LoadableStays
  <1>3. \A k \in Open \ {l} : load[k].file # f
    BY <1>1 DEF Rivals
  <1>4. CASE Committed(f) = {}
    <2>1. /\ load' = [load EXCEPT ![l].phase = "ensure"]
          /\ load'[l] = [load[l] EXCEPT !.phase = "ensure"]
      BY <1>0, <1>1, <1>4 DEF InsertBatch
    <2>2. /\ load'[l].phase = "ensure" /\ load'[l].file = f
          /\ load'[l].rows = <<>> /\ load'[l] \in Load
      BY <1>0, <1>1, <2>1 DEF Load, LoadPhases
    <2>3. Committed(load[l].file)' = {}
      BY <1>1, <1>4, <2>2 DEF Committed
    <2>4. Session(l)'
      BY <1>1, <1>2, <2>2, <2>3 DEF Session, Loadable
    <2>5. load' = [load EXCEPT ![l] = load'[l]]
      BY <1>1, <2>1
    <2> QED
      BY <1>1, <1>3, <2>2, <2>4, <2>5, OneLoad
  <1>5. CASE Committed(f) # {}
    <2> DEFINE b == BatchOf(l, f)
    <2>1. b \in Committed(f)
      BY <1>5 DEF BatchOf
    <2>2. b \in LoadIds /\ batches[b] # None /\ batches[b].file = f
      BY <2>1 DEF Committed
    <2>3. load' = [load EXCEPT ![l] =
                     [load[l] EXCEPT !.phase = "answered", !.answer = b]]
      BY <1>0, <1>1, <1>5 DEF InsertBatch
    <2>4. load'[l] = [load[l] EXCEPT !.phase = "answered", !.answer = b]
      BY <1>1, <2>3
    <2> HIDE DEF b
    <2>5. /\ load'[l].phase = "answered" /\ load'[l].file = f
          /\ load'[l].answer = b /\ load'[l] \in Load
      BY <1>0, <1>1, <2>2, <2>4 DEF Load, LoadPhases
    <2>6. Session(l)'
      BY <1>1, <1>2, <2>2, <2>5 DEF Session, Loadable
    <2>7. load' = [load EXCEPT ![l] = load'[l]]
      BY <2>3, <2>4
    <2> QED
      BY <1>1, <2>5, <2>6, <2>7, OneLoad
  <1> QED
    BY <1>4, <1>5

(* The rows written so far are the first of the file; a group of rows is   *)
(* what comes next.                                                        *)
LEMMA WrittenRows ==
  ASSUME IInv, NEW l \in LoadIds, load[l].phase \in {"ensure", "rows"}
  PROVE  /\ Written(l) \in Rows
         /\ Len(Written(l)) <= Len(RowsOf(payload[load[l].file]))
         /\ \A i \in 1..Len(Written(l)) :
              Written(l)[i] = RowsOf(payload[load[l].file])[i]
         /\ Len(load[l].rows) <= Len(RowsOf(payload[load[l].file]))
         /\ Group(l) = 0 =>
              load[l].rows = RowsOf(payload[load[l].file])
  <1> DEFINE s == load[l].rows
             R == RowsOf(payload[load[l].file])
             g == Group(l)
             n == Len(s)
             D == Records \cup {0}
  <1>1. Session(l) /\ load[l] \in Load /\ api \in Apis
    BY DEF IInv, Types, LoaderTypes, ExtractorTypes
  <1>2. load[l].file \in RunIds /\ Loadable(load[l].file)
    BY <1>1 DEF Session
  <1>3. R \in Seq(D)
    BY <1>2, LoadableIsLanded, RowsTypes DEF Rows
  <1>4. s \in Seq(D)
    BY <1>1 DEF Load, Rows
  <1>5. Len(R) \in Nat /\ n \in Nat
    BY <1>3, <1>4, LenProperties
  <1>6. n <= Len(R) /\ \A i \in 1..n : s[i] = R[i]
    <2>1. CASE load[l].phase = "ensure"
      <3>1. s = <<>>
        BY <1>1, <2>1 DEF Session
      <3> QED
        BY <1>5, <3>1
    <2>2. CASE load[l].phase = "rows"
      BY <1>1, <2>2 DEF Session
    <2> QED
      BY <2>1, <2>2
  <1>7. /\ g = IF Len(R) - n <= BatchSize THEN Len(R) - n ELSE BatchSize
        /\ BatchSize \in Nat \ {0}
    <2>1. Len(R) - n \in Nat /\ BatchSize \in Nat \ {0}
      BY <1>1, <1>5, <1>6, ApiTypes
    <2>2. g = Min({Len(R) - n, BatchSize})
      BY DEF Group
    <2> HIDE DEF g, R, s
    <2> QED
      BY <2>1, <2>2, MinOfTwo
  <1>8. Written(l) = s \o SubSeq(R, n + 1, n + g)
    BY DEF Written
  <1> HIDE DEF s, R, g, D
  <1>9. g \in Nat /\ n + g <= Len(R) /\ (g = 0 => n = Len(R))
    BY <1>5, <1>6, <1>7
  <1> DEFINE t == SubSeq(R, n + 1, n + g)
  <1>10. t \in Seq(D) /\ Len(t) = g /\ \A i \in 1..g : t[i] = R[n + i]
    <2>1. \A i \in (n + 1)..(n + g) : R[i] \in D
      BY <1>3, <1>5, <1>9, ElementOfSeq
    <2>2. /\ t \in Seq(D)
          /\ Len(t) = IF n + 1 <= n + g THEN (n + g) - (n + 1) + 1 ELSE 0
          /\ \A i \in 1..((n + g) - (n + 1) + 1) : t[i] = R[(n + 1) + i - 1]
      BY <1>5, <1>9, <2>1, SubSeqProperties
    <2>3. /\ (n + g) - (n + 1) + 1 = g
          /\ \A i \in 1..g : (n + 1) + i - 1 = n + i
      BY <1>5, <1>9
    <2> QED
      BY <1>5, <1>9, <2>2, <2>3
  <1> HIDE DEF t
  <1>11. /\ s \o t \in Seq(D) /\ Len(s \o t) = n + g
         /\ \A i \in 1..(n + g) :
              (s \o t)[i] = IF i <= n THEN s[i] ELSE t[i - n]
    BY <1>4, <1>10, ConcatProperties
  <1>12. \A i \in 1..(n + g) : (s \o t)[i] = R[i]
    <2> TAKE i \in 1..(n + g)
    <2>1. CASE i <= n
      BY <1>5, <1>6, <1>11, <2>1
    <2>2. CASE ~ (i <= n)
      <3>1. i - n \in 1..g /\ n + (i - n) = i
        BY <1>5, <1>9, <2>2
      <3> QED
        BY <1>10, <1>11, <2>2, <3>1
    <2> QED
      BY <2>1, <2>2
  <1>13. g = 0 => s = R
    BY <1>3, <1>4, <1>5, <1>6, <1>9, SeqEqual
  <1>14. Written(l) = s \o t
    BY <1>8 DEF t
  <1> QED
    BY <1>6, <1>9, <1>11, <1>12, <1>13, <1>14 DEF s, R, g, D, Rows

LEMMA RowsStep ==
  ASSUME IInv, [Next]_vars, NEW l \in LoadIds,
         WriteFirstRows(l) \/ WriteRows(l)
  PROVE  Loaded'
  <1>0. PICK f \in RunIds : f = load[l].file
    BY DEF IInv, Session, WriteFirstRows, WriteRows
  <1> DEFINE w == Written(l)
  <1>1. /\ load \in [LoadIds -> Load] /\ load[l] \in Load
        /\ load[l].phase \in {"ensure", "rows"} /\ UNCHANGED batches
        /\ load' = [load EXCEPT ![l] = [load[l] EXCEPT !.phase = "rows",
                                                       !.rows = w]]
    <2>1. /\ load \in [LoadIds -> Load] /\ load[l] \in Load
          /\ load[l].phase \in {"ensure", "rows"} /\ UNCHANGED batches
      BY DEF IInv, Types, LoaderTypes, WriteFirstRows, WriteRows
    <2>2. CASE WriteFirstRows(l)
      BY <2>1, <2>2 DEF WriteFirstRows
    <2>3. CASE WriteRows(l)
      <3>1. load[l].phase = "rows" /\ load' = [load EXCEPT ![l].rows = w]
        BY <2>3 DEF WriteRows
      <3>2. [load[l] EXCEPT !.rows = w]
              = [load[l] EXCEPT !.phase = "rows", !.rows = w]
        BY <2>1, <3>1 DEF Load
      <3> QED
        BY <2>1, <3>1, <3>2
    <2> QED
      BY <2>1, <2>2, <2>3
  <1>2. load'[l] = [load[l] EXCEPT !.phase = "rows", !.rows = w]
    BY <1>1
  <1>3. Session(l) /\ Loadable(f) /\ Committed(f) = {}
    BY <1>0, <1>1 DEF IInv, Session
  <1>4. Loadable(f)' /\ UNCHANGED payload[f]
    BY <1>3, LoadableStays
  <1>5. /\ w \in Rows /\ Len(w) <= Len(RowsOf(payload[f]))
        /\ \A i \in 1..Len(w) : w[i] = RowsOf(payload[f])[i]
    BY <1>0, <1>1, WrittenRows
  <1> HIDE DEF w
  <1>6. /\ load'[l].phase = "rows" /\ load'[l].file = f /\ load'[l].rows = w
        /\ load'[l] \in Load
    BY <1>0, <1>1, <1>2, <1>5 DEF Load, LoadPhases
  <1>7. Committed(load[l].file)' = {}
    BY <1>1, <1>3, <1>6 DEF Committed
  <1>8. Session(l)'
    BY <1>1, <1>3, <1>4, <1>5, <1>6, <1>7 DEF Session, Loadable
  <1>9. \A k \in Open \ {l} : load[k].file # f
    BY <1>0, <1>1 DEF IInv, OneSession, Open
  <1>10. load' = [load EXCEPT ![l] = load'[l]]
    BY <1>1, <1>2
  <1> QED
    BY <1>1, <1>6, <1>8, <1>9, <1>10, OneLoad

LEMMA CommitStep ==
  ASSUME IInv, [Next]_vars, NEW l \in LoadIds, Commit(l)
  PROVE  Loaded'
  <1>0. PICK f \in RunIds : f = load[l].file
    BY DEF IInv, Session, Commit
  <1> DEFINE b == [file |-> f, rows |-> load[l].rows,
                   after |-> manifest[f].after]
  <1>1. /\ load \in [LoadIds -> Load] /\ load[l] \in Load
        /\ batches \in [LoadIds -> Batch \cup {None}]
        /\ load[l].phase = "rows" /\ Group(l) = 0
        /\ batches' = [batches EXCEPT ![l] = b]
        /\ load' = [load EXCEPT ![l] =
                      [load[l] EXCEPT !.phase = "answered", !.answer = l]]
        /\ Loadable(f) /\ Committed(f) = {}
    BY <1>0 DEF IInv, Types, LoaderTypes, Commit, Session
  <1>2. load[l].rows = RowsOf(payload[f])
    BY <1>0, <1>1, WrittenRows
  <1>3. Loadable(f)' /\ UNCHANGED <<payload[f], manifest[f]>>
    BY <1>1, LoadableStays
  <1>4. b \in Batch
    <2>1. load[l].rows \in Seq(Nat)
      <3>1. load[l].rows \in Seq(Records \cup {0})
        BY <1>1 DEF Load, Rows
      <3>2. Records \cup {0} \subseteq Nat
        BY ApiTypes DEF Records, IInv, Types, ExtractorTypes
      <3> QED
        BY <3>1, <3>2, SeqMonotonic
    <2>2. manifest[f].after \in 0..MaxStamp
      BY <1>1 DEF Loadable, IInv, Types, ExtractorTypes, Manifest
    <2> QED
      BY <2>1, <2>2 DEF Batch
  <1>5. b # None /\ b.file = f
    BY <1>4, NoneAssumption
  <1>6. /\ load'[l] = [load[l] EXCEPT !.phase = "answered", !.answer = l]
        /\ batches'[l] = b
        /\ \A k \in LoadIds : k # l => /\ load'[k] = load[k]
                                       /\ batches'[k] = batches[k]
    BY <1>1
  <1>7. /\ load'[l].phase = "answered" /\ load'[l].file = f
        /\ load'[l].answer = l /\ load'[l] \in Load
    BY <1>0, <1>1, <1>6 DEF Load, LoadPhases
  <1>8. UNCHANGED <<Load, Batch>>
    BY SameApi DEF Load, Rows, Records, Count, Batch
  <1>9. /\ load' \in [LoadIds -> Load]
        /\ batches' \in [LoadIds -> Batch \cup {None}]
    <2> HIDE DEF b
    <2>1. load' = [load EXCEPT ![l] = load'[l]]
      BY <1>1, <1>6
    <2> QED
      BY <1>1, <1>4, <1>7, <2>1
  <1>10. \A g : Committed(g)' = Committed(g) \cup (IF g = f THEN {l} ELSE {})
    <2> HIDE DEF b
    <2>1. batches[l] = None
      BY <1>1 DEF IInv, Stored
    <2> QED
      BY <1>5, <1>6, <2>1 DEF Committed
  <1>11. Session(l)' /\ Stored(l)'
    <2>1. Session(l)'
      <3> HIDE DEF b
      <3> QED
        BY <1>3, <1>5, <1>6, <1>7 DEF Session
    <2>2. Committed(f)' = {l}
      BY <1>1, <1>10
    <2>3. /\ b.rows = RowsOf(payload'[f]) /\ b.after = manifest'[f].after
      BY <1>2, <1>3
    <2>4. Stored(l)'
      <3> HIDE DEF b
      <3> QED
        BY <1>5, <1>6, <1>7, <2>2, <2>3 DEF Stored
    <2> QED
      BY <2>1, <2>4
  <1>12. ASSUME NEW k \in LoadIds, k # l
         PROVE  Session(k)' /\ Stored(k)'
    <2>1. load'[k] = load[k] /\ batches'[k] = batches[k]
      BY <1>6, <1>12
    <2>2. Session(k)'
      <3>1. ASSUME load[k].phase \in {"ensure", "rows"}
            PROVE  Committed(load[k].file)' = {}
        <4>1. PICK g \in RunIds : g = load[k].file
          BY <3>1 DEF IInv, Session
        <4>2. g # f /\ Committed(g) = {}
          BY <1>0, <1>1, <1>12, <3>1, <4>1
          DEF IInv, OneSession, Open, Session
        <4>3. Committed(g)' = {}
          BY <1>10, <4>2
        <4> QED
          BY <2>1, <4>1, <4>3
      <3> QED
        BY <2>1, <3>1, SessionKept
    <2>3. Stored(k)'
      <3>1. CASE batches[k] = None
        BY <2>1, <3>1 DEF Stored
      <3>2. CASE batches[k] # None
        <4>1. PICK g : g = batches[k].file
          OBVIOUS
        <4>2. /\ Stored(k) /\ Session(k) /\ Committed(g) = {k}
          BY <3>2, <4>1 DEF IInv, Stored
        <4>3. g \in RunIds /\ Loadable(g)
          BY <3>2, <4>1, <4>2 DEF Stored, Session
        <4>4. UNCHANGED <<payload[g], manifest[g]>>
          BY <4>3, LoadableStays
        <4>5. g # f
          BY <1>1, <4>2
        <4>6. Committed(g)' = {k}
          BY <1>10, <4>2, <4>5
        <4> QED
          BY <2>1, <3>2, <4>1, <4>2, <4>4, <4>6 DEF Stored
      <3> QED
        BY <3>1, <3>2
    <2> QED
      BY <2>2, <2>3
  <1>13. OneSession'
    <2>1. \A k \in Open' : k \in Open /\ load'[k] = load[k]
      BY <1>6, <1>7 DEF Open
    <2> QED
      BY <2>1 DEF IInv, OneSession
  <1> QED
    BY <1>8, <1>9, <1>11, <1>12, <1>13 DEF Loaded

LEMMA FailStep ==
  ASSUME IInv, [Next]_vars, LoaderFails
  PROVE  Loaded'
  <1>1. PICK S \in {Busy} \cup {{l} : l \in Busy} : LoadFails(S)
    BY DEF LoaderFails
  <1>2. /\ load \in [LoadIds -> Load]
        /\ batches \in [LoadIds -> Batch \cup {None}]
        /\ UNCHANGED batches /\ S \subseteq Busy
        /\ load' = [l \in LoadIds |-> IF l \in S THEN RolledBack(l)
                                                 ELSE load[l]]
    BY <1>1 DEF IInv, Types, LoaderTypes, LoadFails
  <1>3. ASSUME NEW l \in S
        PROVE  /\ l \in LoadIds /\ load'[l] \in Load
               /\ load'[l].phase = "refused"
               /\ batches[l] = None /\ Session(l)'
    <2>1. /\ l \in LoadIds /\ load[l] \in Load
          /\ load[l].phase \in {"verify", "insert", "ensure", "rows"}
      BY <1>2 DEF Busy
    <2>2. load'[l] = [load[l] EXCEPT !.phase = "refused", !.rows = <<>>]
      BY <1>2, <2>1 DEF RolledBack
    <2>3. /\ load'[l].phase = "refused" /\ load'[l].file = load[l].file
          /\ load'[l] \in Load
      <3>1. <<>> \in Rows
        BY DEF Rows
      <3> QED
        BY <2>1, <2>2, <3>1 DEF Load, LoadPhases
    <2>4. load[l].file \in RunIds /\ batches[l] = None
      BY <2>1 DEF IInv, Session, Stored
    <2>5. Session(l)'
      BY <2>3, <2>4 DEF Session
    <2> QED
      BY <2>1, <2>3, <2>4, <2>5
  <1>4. \A k \in LoadIds : k \notin S => load'[k] = load[k]
    BY <1>2
  <1>5. load' \in [LoadIds -> Load]
    <2>1. \A k \in LoadIds : load'[k] \in Load
      BY <1>2, <1>3, <1>4
    <2> QED
      BY <1>2, <2>1
  <1>6. UNCHANGED <<Load, Batch>>
    BY SameApi DEF Load, Rows, Records, Count, Batch
  <1>7. \A k \in LoadIds : Session(k)' /\ Stored(k)'
    BY <1>2, <1>3, <1>4, NoCommit
  <1>8. OneSession'
    <2>1. \A k \in Open' : k \in Open /\ load'[k] = load[k]
      BY <1>3, <1>4 DEF Open
    <2> QED
      BY <2>1 DEF IInv, OneSession
  <1> QED
    BY <1>2, <1>5, <1>6, <1>7, <1>8 DEF Loaded

LEMMA LoadedNext == IInv /\ [Next]_vars => Loaded'
  <1> SUFFICES ASSUME IInv, [Next]_vars
               PROVE  Loaded'
    OBVIOUS
  <1>1. ASSUME NEW r \in RunIds,
               \/ StartRun(r) \/ ExtractorStep(r) \/ PageFails(r)
               \/ GiveUp(r) \/ ExtractionRefused(r)
               \/ \E l \in LoadIds : TakeAnswer(r, l)
        PROVE  Loaded'
    <2>1. UNCHANGED loader
      BY <1>1
      DEF StartRun, ExtractorStep, PageFails, FetchPage, PageRefused,
          CheckWatermark, PublishPayload, PublishManifest, GiveUp,
          ExtractionRefused, TakeAnswer
    <2> QED
      BY <2>1, SameLoader
  <1>2. CASE ExtractorCrashes \/ UNCHANGED vars
    <2>1. UNCHANGED loader
      BY <1>2 DEF ExtractorCrashes, vars, loader
    <2> QED
      BY <2>1, SameLoader
  <1>3. ASSUME NEW r \in RunIds, AskForLoad(r) PROVE Loaded'
    <2>1. UNCHANGED batches /\ (NewLoad(r, "run") \/ UNCHANGED load)
      BY <1>3 DEF AskForLoad
    <2> QED
      BY <2>1, NewLoadStep, SameLoader DEF loader
  <1>4. ASSUME NEW r \in RunIds, AskByHand(r) PROVE Loaded'
    BY <1>4, NewLoadStep DEF AskByHand
  <1>5. ASSUME NEW l \in LoadIds, LoaderStep(l) PROVE Loaded'
    BY <1>5, VerifyStep, InsertStep, RowsStep, CommitStep DEF LoaderStep
  <1> QED
    BY <1>1, <1>2, <1>3, <1>4, <1>5, FailStep DEF Next, RunStep

-----------------------------------------------------------------------------
(* The runs, and everything together.                                      *)

LEMMA RunsNext ==
  IInv /\ [Next]_vars =>
    /\ run' \in [RunIds -> Run] /\ failures' \in 0..MaxFailures
    /\ \A r \in RunIds : Begun(r)' /\ Taken(r)'
  <1> SUFFICES ASSUME IInv, [Next]_vars
               PROVE  /\ run' \in [RunIds -> Run]
                      /\ failures' \in 0..MaxFailures
                      /\ \A r \in RunIds : Begun(r)' /\ Taken(r)'
    OBVIOUS
  <1>0. /\ run \in [RunIds -> Run] /\ extraction \in [RunIds -> Extraction]
        /\ failures \in 0..MaxFailures /\ MaxFailures \in Nat
        /\ load \in [LoadIds -> Load]
    BY ConstantsAssumption
    DEF IInv, Types, LoaderTypes, ExtractorTypes
  <1>1. failures' \in 0..MaxFailures
    <2>1. UNCHANGED failures \/ Fault
      BY DEF Next, vars, StartRun, ExtractorStep, RunStep, PageFails, GiveUp,
         AskByHand, ExtractorCrashes, LoaderStep, LoaderFails, FetchPage,
         PageRefused, CheckWatermark, PublishPayload, PublishManifest,
         AskForLoad, ExtractionRefused, TakeAnswer, Verify, InsertBatch,
         WriteFirstRows, WriteRows, Commit, LoadFails
    <2> QED
      BY <1>0, <2>1 DEF Fault
  <1>2. ASSUME NEW r \in RunIds,
               \/ StartRun(r) \/ AskForLoad(r) \/ ExtractionRefused(r)
               \/ GiveUp(r) \/ \E l \in LoadIds : TakeAnswer(r, l)
        PROVE  /\ run' \in [RunIds -> Run]
               /\ \A q \in RunIds : q # r => run'[q] = run[q]
               /\ run[r].phase # "none" \/ StartRun(r)
               /\ run'[r].phase # "none"
               /\ run'[r].phase = "loaded" =>
                    \E l \in LoadIds :
                       /\ load[l].phase = "answered" /\ load[l].file = r
                       /\ run'[r].batch = load[l].answer
                       /\ UNCHANGED batches
    <2>1. PICK ph \in {"extract", "load", "failed"} :
            \/ run' = [run EXCEPT ![r].phase = ph]
            \/ \E l \in LoadIds :
                 /\ load[l].phase = "answered" /\ load[l].file = r
                 /\ run' = [run EXCEPT ![r] = [phase |-> "loaded",
                                               batch |-> load[l].answer]]
                 /\ UNCHANGED batches
      BY <1>2
      DEF StartRun, AskForLoad, ExtractionRefused, GiveUp, TakeAnswer, loader
    <2>2. run[r].phase # "none" \/ StartRun(r)
      BY <1>2 DEF AskForLoad, ExtractionRefused, GiveUp, TakeAnswer
    <2>3. CASE run' = [run EXCEPT ![r].phase = ph]
      <3>1. run'[r] = [run[r] EXCEPT !.phase = ph]
        BY <1>0, <2>3
      <3>2. run'[r] \in Run /\ run'[r].phase = ph
        BY <1>0, <3>1 DEF Run
      <3>3. run' = [run EXCEPT ![r] = run'[r]]
        BY <2>3, <3>1
      <3> QED
        BY <1>0, <2>2, <3>2, <3>3
    <2>4. ASSUME NEW l \in LoadIds, load[l].phase = "answered",
                 load[l].file = r, UNCHANGED batches,
                 run' = [run EXCEPT ![r] = [phase |-> "loaded",
                                            batch |-> load[l].answer]]
          PROVE  /\ run' \in [RunIds -> Run]
                 /\ run'[r] = [phase |-> "loaded", batch |-> load[l].answer]
                 /\ \A q \in RunIds : q # r => run'[q] = run[q]
      <3>1. load[l].answer \in LoadIds \cup {0}
        BY <1>0 DEF Load
      <3>2. [phase |-> "loaded", batch |-> load[l].answer] \in Run
        BY <3>1 DEF Run
      <3> QED
        BY <1>0, <2>4, <3>2
    <2> QED
      BY <2>1, <2>2, <2>3, <2>4
  <1>3. ASSUME NEW q \in RunIds, UNCHANGED run[q],
               run[q].phase = "none" => UNCHANGED extraction[q]
        PROVE  Begun(q)' /\ Taken(q)'
    <2>1. Begun(q)'
      BY <1>3 DEF IInv, Begun
    <2>2. run[q].phase = "loaded" =>
            /\ run[q].batch \in LoadIds
            /\ batches'[run[q].batch] = batches[run[q].batch]
      BY CommittedStays DEF IInv, Taken
    <2>3. Taken(q)'
      BY <1>3, <2>2 DEF IInv, Taken
    <2> QED
      BY <2>1, <2>3
  <1>4. ASSUME NEW q \in RunIds, run[q].phase = "none", ~ StartRun(q)
        PROVE  UNCHANGED extraction[q]
    <2>1. extraction[q].phase = "none"
      BY <1>4 DEF IInv, Begun, NoExtraction
    <2>2. CASE ExtractorCrashes
      BY <1>0, <2>1, <2>2 DEF ExtractorCrashes
    <2>3. ASSUME NEW r \in RunIds,
                 StartRun(r) \/ ExtractorStep(r) \/ PageFails(r)
          PROVE  UNCHANGED extraction[q]
      <3>1. r # q
        BY <1>4, <2>1, <2>3
        DEF ExtractorStep, FetchPage, PageRefused, CheckWatermark,
            PublishPayload, PublishManifest, PageFails
      <3>2. CASE StartRun(r)
        BY <1>0, <3>1, <3>2 DEF StartRun
      <3>3. CASE FetchPage(r)
        BY <1>0, <3>1, <3>3 DEF FetchPage
      <3>4. CASE PageRefused(r) \/ PageFails(r)
        BY <1>0, <3>1, <3>4 DEF PageRefused, PageFails, Refused
      <3>5. CASE CheckWatermark(r)
        BY <1>0, <3>1, <3>5 DEF CheckWatermark, Refused
      <3>6. CASE PublishPayload(r) \/ PublishManifest(r)
        BY <1>0, <3>1, <3>6 DEF PublishPayload, PublishManifest
      <3> QED
        BY <2>3, <3>2, <3>3, <3>4, <3>5, <3>6 DEF ExtractorStep
    <2>4. CASE UNCHANGED extraction
      BY <2>4
    <2>5. CASE \/ UNCHANGED vars \/ LoaderFails
               \/ \E l \in LoadIds : LoaderStep(l)
               \/ \E r \in RunIds : RunStep(r) \/ GiveUp(r) \/ AskByHand(r)
      BY <2>5
      DEF vars, extractor, RunStep, GiveUp, AskByHand, AskForLoad,
          ExtractionRefused, TakeAnswer, LoaderStep, LoaderFails, LoadFails,
          Verify, InsertBatch, WriteFirstRows, WriteRows, Commit
    <2> QED
      BY <2>2, <2>3, <2>5 DEF Next
  <1>5. ASSUME NEW r \in RunIds,
               \/ StartRun(r) \/ AskForLoad(r) \/ ExtractionRefused(r)
               \/ GiveUp(r) \/ \E l \in LoadIds : TakeAnswer(r, l)
        PROVE  /\ run' \in [RunIds -> Run]
               /\ \A q \in RunIds : Begun(q)' /\ Taken(q)'
    <2>1. ASSUME NEW q \in RunIds, q # r PROVE Begun(q)' /\ Taken(q)'
      <3>1. UNCHANGED run[q]
        BY <1>2, <1>5, <2>1
      <3>2. StartRun(q) => run'[q].phase = "extract" /\ run[q].phase = "none"
        BY <1>0 DEF StartRun, Run
      <3> QED
        BY <1>3, <1>4, <3>1, <3>2
    <2>2. Begun(r)'
      BY <1>2, <1>5 DEF Begun
    <2>3. Taken(r)'
      <3>1. CASE run'[r].phase # "loaded"
        BY <3>1 DEF Taken
      <3>2. CASE run'[r].phase = "loaded"
        <4>1. PICK l \in LoadIds :
                /\ load[l].phase = "answered" /\ load[l].file = r
                /\ run'[r].batch = load[l].answer /\ UNCHANGED batches
          BY <1>2, <1>5, <3>2
        <4>2. Session(l)
          BY DEF IInv
        <4> QED
          BY <4>1, <4>2 DEF Taken, Session
      <3> QED
        BY <3>1, <3>2
    <2> QED
      BY <1>2, <1>5, <2>1, <2>2, <2>3
  <1>6. ASSUME UNCHANGED run
        PROVE  /\ run' \in [RunIds -> Run]
               /\ \A q \in RunIds : Begun(q)' /\ Taken(q)'
    <2>1. \A q \in RunIds : StartRun(q) => run'[q].phase = "extract"
                                           /\ run[q].phase = "none"
      BY <1>0 DEF StartRun, Run
    <2> QED
      BY <1>0, <1>3, <1>4, <1>6, <2>1
  <1>7. \/ UNCHANGED run
        \/ \E r \in RunIds :
             \/ StartRun(r) \/ AskForLoad(r) \/ ExtractionRefused(r)
             \/ GiveUp(r) \/ \E l \in LoadIds : TakeAnswer(r, l)
    BY DEF Next, vars, ExtractorStep, RunStep, PageFails, AskByHand,
       ExtractorCrashes, LoaderStep, LoaderFails, FetchPage, PageRefused,
       CheckWatermark, PublishPayload, PublishManifest, Verify, InsertBatch,
       WriteFirstRows, WriteRows, Commit, LoadFails
  <1> QED
    BY <1>1, <1>5, <1>6, <1>7

LEMMA IInvNext == IInv /\ [Next]_vars => IInv'
  <1> SUFFICES ASSUME IInv, [Next]_vars
               PROVE  IInv'
    OBVIOUS
  <1>1. Extracted' /\ Loaded'
    BY ExtractedNext, LoadedNext
  <1>2. /\ run' \in [RunIds -> Run] /\ failures' \in 0..MaxFailures
        /\ \A r \in RunIds : Begun(r)' /\ Taken(r)'
    BY RunsNext
  <1> QED
    BY <1>1, <1>2 DEF IInv, Types, LoaderTypes, Extracted, Loaded, Run

LEMMA IInvInit == Init => IInv
  <1> SUFFICES ASSUME Init
               PROVE  IInv
    OBVIOUS
  <1>1. /\ api \in Apis /\ MaxFailures \in Nat
        /\ NoExtraction \in Extraction
        /\ extraction = [r \in RunIds |-> NoExtraction]
    BY EmptyExtraction, ConstantsAssumption
    DEF Init, NoExtraction, ExtractionPhases
  <1>2. NoLoad \in Load
    BY DEF NoLoad, Load, LoadPhases, Rows
  <1>3. Types
    BY <1>1, <1>2
    DEF Init, Types, ExtractorTypes, LoaderTypes, Run
  <1>4. ASSUME NEW r \in RunIds
        PROVE  Landed(r) /\ Counted(r) /\ Begun(r) /\ Taken(r)
    <2>1. /\ extraction[r] = NoExtraction /\ extraction[r].phase = "none"
          /\ extraction[r].seen = {} /\ extraction[r].pages = 0
          /\ payload[r] = None /\ manifest[r] = None
          /\ run[r].phase = "none"
      BY <1>1 DEF Init, NoExtraction
    <2>2. Landed(r)
      BY <2>1 DEF Landed, LandedOf
    <2>3. Counted(r)
      BY <2>1, FS_EmptySet DEF Counted
    <2> QED
      BY <2>1, <2>2, <2>3 DEF Begun, Taken
  <1>5. ASSUME NEW l \in LoadIds
        PROVE  load[l].phase = "none" /\ batches[l] = None
    BY DEF Init, NoLoad
  <1>6. \A l \in LoadIds : Session(l) /\ Stored(l)
    BY <1>5 DEF Session, Stored
  <1>7. OneSession
    BY <1>5 DEF OneSession, Open
  <1> QED
    BY <1>3, <1>4, <1>6, <1>7 DEF IInv

(* Types, what is landed, what the sessions have done and what is stored.  *)
THEOREM Invariance == Spec => []IInv
  <1> QED
    BY IInvInit, IInvNext, PTL DEF Spec

(* The variables always have their types.                                  *)
THEOREM TypeCorrect == Spec => []TypeOK
  <1>1. IInv => TypeOK
    <2> SUFFICES ASSUME IInv
                 PROVE  TypeOK
      OBVIOUS
    <2>1. /\ api \in Apis /\ request \in Requests
          /\ run \in [RunIds -> Run] /\ failures \in 0..MaxFailures
          /\ extraction \in [RunIds -> Extraction]
          /\ payload \in [RunIds -> Content \cup {None}]
          /\ manifest \in [RunIds -> Manifest \cup {None}]
          /\ load \in [LoadIds -> Load]
          /\ batches \in [LoadIds -> Batch \cup {None}]
      BY DEF IInv, Types, ExtractorTypes, LoaderTypes
    <2>2. ASSUME NEW r \in RunIds
          PROVE  /\ extraction[r].phase \in {"none", "fetch", "check",
                      "payload", "manifest", "done", "refused"}
                 /\ extraction[r].items \in Rows
                 /\ extraction[r].pages \in 0..MaxPages
                 /\ Cardinality(extraction[r].seen) = extraction[r].pages
      <3>1. extraction[r] \in Extraction
        BY <2>1
      <3> QED
        BY <3>1 DEF Extraction, ExtractionPhases, IInv, Counted
    <2>3. ASSUME NEW r \in RunIds
          PROVE  /\ payload[r] \in Content \cup {None}
                 /\ manifest[r] \in [complete : BOOLEAN, after : 0..MaxStamp]
                                    \cup {None}
      BY <2>1 DEF Manifest
    <2>4. ASSUME NEW l \in LoadIds
          PROVE  /\ load[l].phase \in {"none", "verify", "insert", "ensure",
                                       "rows", "answered", "refused"}
                 /\ load[l].rows \in Rows
                 /\ load[l].answer \in LoadIds \cup {0}
      <3>1. load[l] \in Load
        BY <2>1
      <3> QED
        BY <3>1 DEF Load, LoadPhases
    <2>5. ASSUME NEW l \in LoadIds, batches[l] # None
          PROVE  batches[l] \in [file : RunIds, rows : Rows,
                                 after : 0..MaxStamp]
      <3>1. batches[l] \in Batch
        BY <2>1, <2>5
      <3>2. /\ batches[l].file \in RunIds /\ Loadable(batches[l].file)
            /\ batches[l].rows = RowsOf(payload[batches[l].file])
        BY <2>5 DEF IInv, Stored, Session
      <3>3. batches[l].rows \in Rows
        BY <3>2, LoadableIsLanded, RowsTypes
      <3> QED
        BY <3>1, <3>3 DEF Batch
    <2> QED
      BY <2>1, <2>2, <2>3, <2>4, <2>5 DEF TypeOK, Run
  <1> QED
    BY <1>1, Invariance, PTL

(* extractor/app/main.py, the page loop, and loader/app/main.py, the check *)
(* of the manifest: whichever of the conventions it knows the API has,     *)
(* whoever asks for a load and whenever a part stops, what is committed is *)
(* the whole collection.                                                   *)
THEOREM CommittedIsWhole == Spec => []OnlyWholePayloads
  <1>1. IInv => OnlyWholePayloads
    <2> SUFFICES ASSUME IInv, NEW l \in LoadIds, batches[l] # None,
                        Followed
                 PROVE  Whole(batches[l].file)
      BY DEF OnlyWholePayloads
    <2>1. batches[l].file \in RunIds /\ Loadable(batches[l].file)
      BY DEF IInv, Stored, Session
    <2> QED
      BY <2>1, LoadableIsLanded DEF Checked, WholeItems, Whole
  <1> QED
    BY <1>1, Invariance, PTL

(* loader/app/db.py, insert_raw_batch and one transaction per load: a file *)
(* has at most one batch, with each of its rows once, however requests for *)
(* it overlap, fail or are repeated.                                       *)
THEOREM FilesAreLoadedOnce == Spec => []OneBatchPerFile
  <1>1. IInv => OneBatchPerFile
    BY DEF IInv, Stored, OneBatchPerFile
  <1> QED
    BY <1>1, Invariance, PTL

(* orchestrator/app/pipeline.py, the answer of the Loader: a run publishes *)
(* a batch that is committed, of its own file, with the checkpoint that it *)
(* will save.                                                              *)
THEOREM AnswersAreCommitted == Spec => []AnswerIsCommitted
  <1>1. IInv => AnswerIsCommitted
    <2> SUFFICES ASSUME IInv, NEW r \in RunIds, run[r].phase = "loaded"
                 PROVE  \E l \in LoadIds :
                          /\ run[r].batch = l
                          /\ batches[l] # None
                          /\ batches[l].file = r
                          /\ batches[l].after = extraction[r].after
      BY DEF AnswerIsCommitted
    <2> DEFINE b == run[r].batch
    <2>1. b \in LoadIds /\ batches[b] # None /\ batches[b].file = r
      BY DEF IInv, Taken
    <2>2. Loadable(r) /\ batches[b].after = manifest[r].after
      BY <2>1 DEF IInv, Stored, Session
    <2> QED
      BY <2>1, <2>2, LoadableIsLanded
  <1> QED
    BY <1>1, Invariance, PTL

(* extractor/app/main.py, _checkpoint_after over the pages: the checkpoint *)
(* that is stored is the largest of the watermarks and the one before.     *)
THEOREM CheckpointsAreNewest == Spec => []CheckpointIsNewest
  <1>1. IInv => CheckpointIsNewest
    <2> SUFFICES ASSUME IInv, NEW l \in LoadIds, batches[l] # None,
                        Followed, request.kind # "plain"
                 PROVE  batches[l].after = Newest
      BY DEF CheckpointIsNewest, Newest
    <2>1. /\ batches[l].file \in RunIds /\ Loadable(batches[l].file)
          /\ batches[l].after = manifest[batches[l].file].after
      BY DEF IInv, Stored, Session
    <2> QED
      BY <2>1, LoadableIsLanded DEF Checked
  <1> QED
    BY <1>1, Invariance, PTL
=============================================================================
