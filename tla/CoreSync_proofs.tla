--------------------------- MODULE CoreSync_proofs ---------------------------
(***************************************************************************)
(* Theorems about core.sync_from_staging, for every set of records, every  *)
(* key configuration and every number of synchronizations.                 *)
(***************************************************************************)
EXTENDS CoreSync, Scd2_proofs

(* OneCurrentPerKey alone is not inductive: that a closed version leaves   *)
(* the current ones needs the shape of the versions.                       *)
IInv ==
    /\ \A t \in Tables : AllVersions(dims[t])
    /\ OneCurrentPerKey

LEMMA InitInvariant == Init => IInv
  BY DEF Init, IInv, AllVersions, OneCurrentPerKey, OneCurrent, Current

(* What SyncBatch does to the dimension of one table.                      *)
LEMMA SyncBatchOnTable ==
  ASSUME SyncBatch, NEW t \in Tables
  PROVE  \/ /\ t \notin Processed(batch.payload)
            /\ dims'[t] = dims[t]
         \/ /\ t \in Processed(batch.payload)
            /\ \E L \in LatestSets(Keyed(t, Rows(batch.payload, t))) :
                 dims'[t] = SyncRows(dims[t], L, Closing(batch), clock')
  <1>1. PICK latest \in [Processed(batch.payload) ->
                           UNION {LatestSets(Keyed(u, Rows(batch.payload, u)))
                                    : u \in Tables}] :
          /\ \A u \in DOMAIN latest :
               latest[u] \in LatestSets(Keyed(u, Rows(batch.payload, u)))
          /\ dims' = [u \in Tables |->
                        IF u \in DOMAIN latest
                          THEN SyncTable(u, latest[u], clock') ELSE dims[u]]
    BY DEF SyncBatch
  <1>2. DOMAIN latest = Processed(batch.payload)
    BY <1>1
  <1>3. CASE t \in DOMAIN latest
    <2>1. dims'[t] = SyncRows(dims[t], latest[t], Closing(batch), clock')
      BY <1>1, <1>3 DEF SyncTable
    <2>2. latest[t] \in LatestSets(Keyed(t, Rows(batch.payload, t)))
      BY <1>1, <1>3
    <2> QED
      BY <1>2, <1>3, <2>1, <2>2
  <1>4. CASE t \notin DOMAIN latest
    BY <1>1, <1>2, <1>4
  <1> QED
    BY <1>3, <1>4

(* The same, of the rows and the versions that have a key.                 *)
LEMMA SyncBatchWithKey ==
  ASSUME SyncBatch, NEW t \in Tables, t \in Processed(batch.payload),
         AllVersions(dims[t])
  PROVE  LET rows == WithKey(Keyed(t, Rows(batch.payload, t)))
         IN  \E L \in LatestSets(rows) :
               /\ HaveKeys(L) /\ OnePerKey(L)
               /\ WithKey(dims'[t]) =
                    SyncRows(WithKey(dims[t]), L, MayClose(batch), clock')
  <1> DEFINE all == Keyed(t, Rows(batch.payload, t))
  <1>1. PICK A \in LatestSets(all) :
          dims'[t] = SyncRows(dims[t], A, Closing(batch), clock')
    BY SyncBatchOnTable
  <1>2. Closing(batch) = MayClose(batch) /\ Closing(batch) \in BOOLEAN
    BY DEF Closing, MayClose
  <1> HIDE DEF all
  <1>3. WithKey(A) \in LatestSets(WithKey(all)) /\ HaveKeys(WithKey(A))
    BY <1>1, LatestWithKey DEF WithKey, HaveKeys
  <1>4. OnePerKey(WithKey(A))
    BY <1>3, LatestIsOnePerKey
  <1>5. WithKey(dims'[t]) =
          SyncRows(WithKey(dims[t]), WithKey(A), MayClose(batch), clock')
    BY <1>1, <1>2, SyncWithKey
  <1> QED
    BY <1>3, <1>4, <1>5 DEF all

LEMMA ClosingIsBoolean == Closing(batch) \in BOOLEAN
  BY DEF Closing

LEMMA NextInvariant == IInv /\ [Next]_vars => IInv'
  <1> SUFFICES ASSUME IInv, [Next]_vars
               PROVE  IInv'
    OBVIOUS
  <1>1. CASE SyncBatch
    <2>1. ASSUME NEW t \in Tables
          PROVE  AllVersions(dims'[t]) /\ OneCurrent(dims'[t])
      <3>1. AllVersions(dims[t]) /\ OneCurrent(dims[t])
        BY DEF IInv, OneCurrentPerKey
      <3>2. CASE dims'[t] = dims[t]
        BY <3>1, <3>2
      <3>3. CASE dims'[t] # dims[t]
        <4>1. PICK L \in LatestSets(Keyed(t, Rows(batch.payload, t))) :
                dims'[t] = SyncRows(dims[t], L, Closing(batch), clock')
          BY <1>1, <3>3, SyncBatchOnTable
        <4> QED
          BY <3>1, <4>1, SyncKeepsOneCurrent, ClosingIsBoolean
      <3> QED
        BY <3>2, <3>3
    <2> QED
      BY <2>1 DEF IInv, OneCurrentPerKey
  <1>2. CASE UNCHANGED dims
    BY <1>2 DEF IInv, OneCurrentPerKey
  <1>3. SyncBatch \/ UNCHANGED dims
    BY DEF Next, LoadBatch, SyncAborts, vars
  <1> QED
    BY <1>1, <1>2, <1>3

(* The versions in every dimension have the shape the sync gives them, and *)
(* one per key is current, after any sequence of batches.                  *)
THEOREM Invariance == Spec => []IInv
  <1> QED
    BY InitInvariant, NextInvariant, PTL DEF Spec

(* No order of snapshots, upserts, repeated records and aborted batches    *)
(* leaves two current versions of one business key in any dimension.       *)
THEOREM CurrentIsUnique == Spec => []OneCurrentPerKey
  <1>1. IInv => OneCurrentPerKey
    BY DEF IInv
  <1> QED
    BY <1>1, Invariance, PTL

(* A synchronization never removes a version or changes a closed one.      *)
THEOREM HistoryIsKept == Spec => HistoryKept
  <1>1. IInv /\ [Next]_vars
          => [\A t \in Tables : Extends(dims'[t], dims[t])]_vars
    <2> SUFFICES ASSUME IInv, [Next]_vars, NEW t \in Tables
                 PROVE  Extends(dims'[t], dims[t])
      OBVIOUS
    <2>1. CASE dims'[t] = dims[t]
      BY <2>1 DEF Extends
    <2>2. CASE dims'[t] # dims[t]
      <3>1. SyncBatch
        BY <2>2 DEF Next, LoadBatch, SyncAborts, vars
      <3>2. PICK L \in LatestSets(Keyed(t, Rows(batch.payload, t))) :
              dims'[t] = SyncRows(dims[t], L, Closing(batch), clock')
        BY <2>2, <3>1, SyncBatchOnTable
      <3> QED
        BY <3>2, SyncExtends, ClosingIsBoolean DEF IInv
    <2> QED
      BY <2>1, <2>2
  <1> QED
    BY <1>1, Invariance, PTL DEF Spec, HistoryKept

-----------------------------------------------------------------------------
(* Keys.  A batch that waits is made of the source's records, the child    *)
(* table has no column that could be a key field, and every version has    *)
(* the key of its content.                                                 *)
KInv ==
    /\ IInv
    /\ StoredUnderOwnKey
    /\ source \in Sources
    /\ columns["child"] \subseteq {"value"}
    /\ batch # Null => batch.payload \in Payloads /\ "root" \in exists

Root == WithKey(Keyed("root", RootRows(batch.payload)))

LEMMA PayloadRecords ==
  ASSUME NEW p \in Payloads, NEW i \in DOMAIN p
  PROVE  i \in Nat /\ p[i] \in source.records
  <1>1. PICK n \in 0..MaxRecords : p \in [1..n -> source.records]
    BY DEF Payloads
  <1> QED
    BY <1>1, CoreAssumption

(* A row of the root table, under the only rule that does not raise.       *)
LEMMA RootRowsOwnKey ==
  ASSUME KInv, batch # Null, ~Raises(batch.payload),
         NEW q \in Keyed("root", RootRows(batch.payload))
  PROVE  q.bk = OwnKey(q.hash)
  <1> DEFINE p == batch.payload
             rows == RootRows(p)
             content(r) == [c \in columns["root"] |-> Cell(r, c)]
  <1>1. PICK r \in rows :
          /\ q.bk = BusinessKey(KeyRule("root", rows), r)
          /\ q.hash = content(r)
    BY DEF Keyed, Hash
  <1>2. "root" \in Processed(p) /\ KeyRule("root", rows) # "error"
    BY DEF KInv, Processed, BatchTables, Raises, Rows
  <1>3. rows # {} /\ \A x \in rows : x.parent = Null
    BY <1>1 DEF RootRows
  <1>4. ~ParentsComplete(rows)
    BY <1>3 DEF ParentsComplete
  <1>5. \A c : Cell([data |-> content(r)], c) =
                 IF c \in columns["root"] THEN Cell(r, c) ELSE Null
    BY DEF Cell
  <1>6. CASE KeyFields = {}
    <2>1. "id" \in columns["root"] /\ KeyRule("root", rows) = "id"
      BY <1>2, <1>3, <1>4, <1>6 DEF KeyRule
    <2>2. q.bk = Cell(r, "id")
      BY <1>1, <2>1 DEF BusinessKey
    <2> QED
      BY <1>1, <1>5, <1>6, <2>1, <2>2 DEF OwnKey
  <1>7. CASE KeyFields # {}
    <2>1. PICK t \in Processed(p) : KeyRule(t, Rows(p, t)) = "fields"
      BY <1>2, <1>3, <1>7 DEF Raises, Rows
    <2>2. KeyFields \subseteq columns[t] /\ t \in Tables
      BY <2>1 DEF KeyRule, Processed, BatchTables, Tables
    <2>3. ~(KeyFields \subseteq columns["child"])
      BY <1>7, CoreAssumption DEF KInv, KeyFields
    <2>4. KeyFields \subseteq columns["root"]
      BY <2>2, <2>3 DEF Tables
    <2>5. q.bk = FieldsKey(r)
      BY <1>1, <1>7, <2>4 DEF KeyRule, BusinessKey
    <2>6. FieldsKey([data |-> content(r)]) = FieldsKey(r)
      <3>1. \A c \in KeyFields : Cell([data |-> content(r)], c) = Cell(r, c)
        BY <1>5, <2>4
      <3>2. (CHOOSE c \in KeyFields : TRUE) \in KeyFields
        BY <1>7
      <3> HIDE DEF content
      <3> QED
        BY <3>1, <3>2 DEF FieldsKey
    <2> QED
      BY <1>1, <1>7, <2>5, <2>6 DEF OwnKey
  <1> QED
    BY <1>6, <1>7

(* A row of the child table has the key of its parent and its position, or *)
(* the batch is rejected.                                                  *)
LEMMA ChildKey ==
  ASSUME KInv, batch # Null, ~Raises(batch.payload),
         "child" \in Processed(batch.payload),
         NEW q \in Keyed("child", ChildRows(batch.payload))
  PROVE  \E i \in DOMAIN batch.payload :
           /\ HasTags(batch.payload[i]) /\ batch.payload[i].id # Null
           /\ \E j \in DOMAIN batch.payload[i].tags :
                /\ q.bk = <<<<"root", batch.payload[i].id>>, j>>
                /\ q.hash = [c \in columns["child"] |->
                               IF c = "value"
                                 THEN batch.payload[i].tags[j] ELSE Null]
  <1> DEFINE p == batch.payload
             rows == ChildRows(p)
  <1>1. KeyRule("child", rows) # "error"
    BY DEF Raises, Rows
  <1>2. "id" \notin columns["child"]
    BY DEF KInv
  <1>3. ~(KeyFields # {} /\ KeyFields \subseteq columns["child"])
    BY CoreAssumption DEF KInv, KeyFields
  <1>4. PICK r \in rows :
          q = [bk |-> BusinessKey(KeyRule("child", rows), r),
               hash |-> Hash("child", r), index |-> r.index, id |-> r.id]
    BY DEF Keyed
  <1>5. rows # {}
    BY <1>4
  <1>6. PICK i \in {k \in DOMAIN p : HasTags(p[k])} :
          \E j \in DOMAIN p[i].tags :
            r = [index |-> j, parent |-> RowKey(p[i]), id |-> <<i, j>>,
                 data |-> [c \in {"value"} |-> p[i].tags[j]]]
    BY <1>4 DEF rows, ChildRows
  <1>7. PICK j \in DOMAIN p[i].tags :
          r = [index |-> j, parent |-> RowKey(p[i]), id |-> <<i, j>>,
               data |-> [c \in {"value"} |-> p[i].tags[j]]]
    BY <1>6
  <1> HIDE DEF rows
  <1>8. KeyRule("child", rows) = "parent" /\ ParentsComplete(rows)
    BY <1>1, <1>2, <1>3, <1>5 DEF KeyRule
  <1>9. r.parent # Null
    BY <1>4, <1>8 DEF ParentsComplete
  <1>10. p[i].id # Null /\ r.parent = <<"root", p[i].id>> /\ r.index = j
    BY <1>7, <1>9 DEF RowKey
  <1>11. q.bk = <<<<"root", p[i].id>>, j>>
    BY <1>4, <1>8, <1>10 DEF BusinessKey
  <1>12. r.data = [c \in {"value"} |-> p[i].tags[j]]
    BY <1>7
  <1>13. Hash("child", r) = [c \in columns["child"] |->
                               IF c = "value" THEN p[i].tags[j] ELSE Null]
    BY <1>12 DEF Hash, Cell
  <1>14. q.hash = Hash("child", r)
    BY <1>4
  <1> QED
    BY <1>6, <1>10, <1>11, <1>13, <1>14

(* Whatever is new in a dimension has the key of its content.              *)
LEMMA SyncedOwnKeys ==
  ASSUME KInv, SyncBatch
  PROVE  StoredUnderOwnKey'
  <1>0. /\ batch # Null /\ ~Raises(batch.payload) /\ source' = source
        /\ \A t \in Tables : AllVersions(dims[t])
    BY DEF SyncBatch, KInv, IInv
  <1>1. ASSUME NEW t \in Tables, NEW w \in dims'[t]
        PROVE  \/ \E v \in dims[t] : w.bk = v.bk /\ w.hash = v.hash
               \/ /\ t \in Processed(batch.payload)
                  /\ \E q \in Keyed(t, Rows(batch.payload, t)) :
                       w.bk = q.bk /\ w.hash = q.hash
    <2>1. CASE dims'[t] = dims[t]
      BY <1>1, <2>1
    <2>2. CASE dims'[t] # dims[t]
      <3>1. t \in Processed(batch.payload)
        BY <2>2, SyncBatchOnTable
      <3>2. PICK L \in LatestSets(Keyed(t, Rows(batch.payload, t))) :
              dims'[t] = SyncRows(dims[t], L, Closing(batch), clock')
        BY <2>2, SyncBatchOnTable
      <3>3. CASE \E v \in dims[t] :
                   w = Renewed(v, L, Closing(batch), clock')
        BY <1>0, <3>3, RenewedVersion DEF AllVersions
      <3>4. CASE \E r \in L : w = NewVersion(r, clock')
        <4>1. PICK r \in L : w = NewVersion(r, clock')
          BY <3>4
        <4>2. r \in Keyed(t, Rows(batch.payload, t))
          BY <3>2 DEF LatestSets, LastPosition
        <4>3. w.bk = r.bk /\ w.hash = r.hash
          BY <4>1 DEF NewVersion
        <4> QED
          BY <3>1, <4>2, <4>3
      <3> QED
        BY <1>0, <1>1, <3>2, <3>3, <3>4, SyncInOnePass, ClosingIsBoolean
    <2> QED
      BY <2>1, <2>2
  <1>2. ASSUME NEW w \in dims'["root"]
        PROVE  w.bk = OwnKey(w.hash)
    <2>1. CASE \E v \in dims["root"] : w.bk = v.bk /\ w.hash = v.hash
      BY <2>1 DEF KInv, StoredUnderOwnKey
    <2>2. CASE \E q \in Keyed("root", RootRows(batch.payload)) :
                 w.bk = q.bk /\ w.hash = q.hash
      BY <1>0, <2>2, RootRowsOwnKey
    <2> QED
      BY <1>1, <1>2, <2>1, <2>2 DEF Tables, Rows
  <1>3. ASSUME NEW w \in dims'["child"]
        PROVE  \E r \in source.records :
                 /\ r.id # Null /\ HasTags(r)
                 /\ \E j \in DOMAIN r.tags :
                      /\ w.bk = <<RowKey(r), j>>
                      /\ \A c \in DOMAIN w.hash : w.hash[c] = r.tags[j]
    <2>1. CASE \E v \in dims["child"] : w.bk = v.bk /\ w.hash = v.hash
      BY <2>1 DEF KInv, StoredUnderOwnKey
    <2>2. CASE /\ "child" \in Processed(batch.payload)
               /\ \E q \in Keyed("child", ChildRows(batch.payload)) :
                    w.bk = q.bk /\ w.hash = q.hash
      <3>1. PICK q \in Keyed("child", ChildRows(batch.payload)) :
              w.bk = q.bk /\ w.hash = q.hash
        BY <2>2
      <3>2. PICK i \in DOMAIN batch.payload :
              /\ HasTags(batch.payload[i]) /\ batch.payload[i].id # Null
              /\ \E j \in DOMAIN batch.payload[i].tags :
                   /\ q.bk = <<<<"root", batch.payload[i].id>>, j>>
                   /\ q.hash = [c \in columns["child"] |->
                                  IF c = "value"
                                    THEN batch.payload[i].tags[j] ELSE Null]
        BY <1>0, <2>2, ChildKey
      <3> DEFINE r == batch.payload[i]
      <3>3. r \in source.records
        BY <1>0, PayloadRecords DEF KInv
      <3>4. PICK j \in DOMAIN r.tags :
              /\ q.bk = <<<<"root", r.id>>, j>>
              /\ q.hash = [c \in columns["child"] |->
                             IF c = "value" THEN r.tags[j] ELSE Null]
        BY <3>2
      <3>5. w.bk = <<RowKey(r), j>>
        BY <3>1, <3>2, <3>4 DEF RowKey
      <3>6. \A c \in DOMAIN w.hash : w.hash[c] = r.tags[j]
        BY <3>1, <3>4 DEF KInv
      <3> QED
        BY <3>2, <3>3, <3>5, <3>6
    <2> QED
      BY <1>1, <1>3, <2>1, <2>2 DEF Tables, Rows
  <1> QED
    BY <1>0, <1>2, <1>3
    DEF StoredUnderOwnKey, OwnKey, KeyFields, FieldsKey

LEMMA KInvInit == Init => KInv
  BY InitInvariant DEF Init, KInv, StoredUnderOwnKey, Tables

LEMMA KInvNext == KInv /\ [Next]_vars => KInv'
  <1> SUFFICES ASSUME KInv, [Next]_vars
               PROVE  KInv'
    OBVIOUS
  <1>1. IInv'
    BY NextInvariant DEF KInv
  <1>2. ASSUME NEW p \in Payloads, NEW m \in Modes, NEW q \in Policies,
               LoadBatch(p, m, q)
        PROVE  KInv'
    <2>1. UNCHANGED <<source, dims>>
      BY <1>2 DEF LoadBatch
    <2>2. p \in Payloads'
      BY <2>1 DEF Payloads
    <2>3. columns'["child"] \subseteq {"value"}
      <3>1. columns'["child"] =
              columns["child"] \cup UNION {DOMAIN r.data : r \in ChildRows(p)}
        BY <1>2 DEF LoadBatch, Tables, Rows
      <3>2. \A r \in ChildRows(p) : DOMAIN r.data = {"value"}
        BY DEF ChildRows
      <3> QED
        BY <3>1, <3>2 DEF KInv
    <2>4. batch'.payload = p /\ "root" \in exists'
      BY <1>2 DEF LoadBatch, BatchTables
    <2>5. StoredUnderOwnKey'
      BY <2>1
      DEF KInv, StoredUnderOwnKey, OwnKey, KeyFields, FieldsKey
    <2> QED
      BY <1>1, <2>1, <2>2, <2>3, <2>4, <2>5 DEF KInv
  <1>3. CASE SyncBatch
    BY <1>1, <1>3, SyncedOwnKeys DEF KInv, SyncBatch
  <1>4. CASE SyncAborts \/ UNCHANGED vars
    <2>1. /\ UNCHANGED <<source, columns, exists, dims>>
          /\ batch' \in {batch, Null}
      BY <1>4 DEF SyncAborts, vars
    <2>2. StoredUnderOwnKey'
      BY <2>1
      DEF KInv, StoredUnderOwnKey, OwnKey, KeyFields, FieldsKey
    <2> QED
      BY <1>1, <2>1, <2>2 DEF KInv, Payloads
  <1> QED
    BY <1>2, <1>3, <1>4 DEF Next

(* Batches are made of the source's records, and every version is stored   *)
(* under the key of its own content.                                       *)
THEOREM KeyInvariance == Spec => []KInv
  <1> QED
    BY KInvInit, KInvNext, PTL DEF Spec

(* procedures.sql:258-345, README.md:91-97: whatever records come, with or *)
(* without their key, in whatever order of batches, no version is stored   *)
(* under anything but the key its own content has.                         *)
THEOREM KeysAreOwn == Spec => []StoredUnderOwnKey
  <1>1. KInv => StoredUnderOwnKey
    BY DEF KInv
  <1> QED
    BY <1>1, KeyInvariance, PTL

-----------------------------------------------------------------------------
(* Times.  All versions are stamped by earlier synchronizations, and only  *)
(* as many batches are loaded as may be synchronized.                      *)
TInv ==
    /\ KInv
    /\ clock \in 0..MaxSyncs
    /\ batch # Null => clock < MaxSyncs
    /\ \A t \in Tables : Stamped(dims[t], clock)
    /\ Timelines

LEMMA TInvInit == Init => TInv
  BY KInvInit, CoreAssumption
  DEF Init, TInv, Stamped, Timelines, Timeline, Tables

LEMMA SyncTimes ==
  ASSUME TInv, SyncBatch, NEW t \in Tables
  PROVE  Stamped(dims'[t], clock') /\ Timeline(dims'[t])
  <1>1. clock \in Nat /\ clock' = clock + 1
    BY CoreAssumption DEF TInv, SyncBatch
  <1>2. /\ AllVersions(dims[t]) /\ OneCurrent(dims[t])
        /\ Stamped(dims[t], clock) /\ Timeline(dims[t])
    BY DEF TInv, KInv, IInv, OneCurrentPerKey, Timelines
  <1>3. CASE dims'[t] = dims[t]
    <2>1. Stamped(dims[t], clock')
      BY <1>1, <1>2 DEF Stamped
    <2> QED
      BY <1>2, <1>3, <2>1
  <1>4. CASE dims'[t] # dims[t]
    <2> DEFINE rows == Keyed(t, Rows(batch.payload, t))
    <2>1. PICK L \in LatestSets(rows) :
            dims'[t] = SyncRows(dims[t], L, Closing(batch), clock')
      BY <1>4, SyncBatchOnTable
    <2>2. clock' \in Nat /\ clock < clock'
      BY <1>1
    <2> HIDE DEF rows
    <2>3. Stamped(dims'[t], clock')
      BY <1>1, <1>2, <2>1, <2>2, SyncStamps, ClosingIsBoolean
    <2>4. Timeline(dims'[t])
      BY <1>1, <1>2, <2>1, <2>2, SyncKeepsTimeline, ClosingIsBoolean
    <2> QED
      BY <2>3, <2>4
  <1> QED
    BY <1>3, <1>4

LEMMA TInvNext == TInv /\ [Next]_vars => TInv'
  <1> SUFFICES ASSUME TInv, [Next]_vars
               PROVE  TInv'
    OBVIOUS
  <1>1. KInv'
    BY KInvNext DEF TInv
  <1>2. CASE SyncBatch
    <2>1. clock' \in 0..MaxSyncs /\ batch' = Null
      BY <1>2, CoreAssumption DEF TInv, SyncBatch
    <2> QED
      BY <1>1, <1>2, <2>1, SyncTimes DEF TInv, Timelines
  <1>3. CASE UNCHANGED <<dims, clock>> /\ (batch' # Null => clock < MaxSyncs)
    BY <1>1, <1>3 DEF TInv, Timelines
  <1> QED
    BY <1>2, <1>3 DEF Next, LoadBatch, SyncAborts, TInv, vars

(* Every version is stamped by an earlier sync, and the versions of a key  *)
(* follow each other in time.                                              *)
THEOREM TimesInvariance == Spec => []TInv
  <1> QED
    BY TInvInit, TInvNext, PTL DEF Spec

(* procedures.sql, the three statements: whatever batches are loaded,      *)
(* aborted and repeated, the validity intervals of each key follow each    *)
(* other without overlap.                                                  *)
THEOREM TimelinesHold == Spec => []Timelines
  <1>1. TInv => Timelines
    BY DEF TInv
  <1> QED
    BY <1>1, TimesInvariance, PTL

-----------------------------------------------------------------------------
(* Types.                                                                  *)

LEMMA LoadedTypes ==
  ASSUME TypeOK, NEW p \in Payloads, NEW m \in Modes, NEW q \in Policies,
         LoadBatch(p, m, q)
  PROVE  /\ columns' \in [Tables -> SUBSET {"id", "key", "val", "value"}]
         /\ exists' \subseteq Tables
         /\ batch' \in Batch
         /\ \A t \in Tables : columns[t] \subseteq columns'[t]
  <1>1. ASSUME NEW t \in Tables, NEW r \in Rows(p, t)
        PROVE  DOMAIN r.data \subseteq {"id", "key", "val", "value"}
    <2>1. CASE t = "root"
      <3>1. PICK i \in DOMAIN p :
              r = [index |-> i, parent |-> Null, id |-> <<i>>,
                   data |-> [c \in Fields(p[i]) |-> p[i][c]]]
        BY <2>1 DEF Rows, RootRows
      <3>2. r.data = [c \in Fields(p[i]) |-> p[i][c]]
        BY <3>1
      <3> QED
        BY <3>2 DEF Fields
    <2>2. CASE t = "child"
      BY <2>2 DEF Rows, ChildRows
    <2> QED
      BY <2>1, <2>2 DEF Tables
  <1>2. \A t \in Tables : UNION {DOMAIN r.data : r \in Rows(p, t)}
                            \subseteq {"id", "key", "val", "value"}
    BY <1>1
  <1>3. columns' = [t \in Tables |->
                      columns[t] \cup UNION {DOMAIN r.data : r \in Rows(p, t)}]
    BY DEF LoadBatch
  <1>4. /\ columns' \in [Tables -> SUBSET {"id", "key", "val", "value"}]
        /\ \A t \in Tables : columns[t] \subseteq columns'[t]
    BY <1>2, <1>3 DEF TypeOK
  <1>5. exists' \subseteq Tables
    BY DEF LoadBatch, BatchTables, TypeOK, Tables
  <1>6. batch' \in Batch
    BY DEF LoadBatch, Batch
  <1> QED
    BY <1>4, <1>5, <1>6

(* What is new in a dimension was hashed over the columns of its table.    *)
LEMMA SyncHashes ==
  ASSUME TypeOK, KInv, SyncBatch, NEW t \in Tables, NEW w \in dims'[t]
  PROVE  DOMAIN w.hash \subseteq columns[t]
  <1>1. CASE dims'[t] = dims[t]
    BY <1>1 DEF TypeOK
  <1>2. CASE dims'[t] # dims[t]
    <2>1. PICK L \in LatestSets(Keyed(t, Rows(batch.payload, t))) :
            dims'[t] = SyncRows(dims[t], L, Closing(batch), clock')
      BY <1>2, SyncBatchOnTable
    <2>2. AllVersions(dims[t])
      BY DEF KInv, IInv
    <2>3. ASSUME NEW v \in dims[t],
                 w = Renewed(v, L, Closing(batch), clock')
          PROVE  DOMAIN w.hash \subseteq columns[t]
      <3>1. IsVersion(v) /\ DOMAIN v.hash \subseteq columns[t]
        BY <2>2 DEF AllVersions, TypeOK
      <3>2. Renewed(v, L, Closing(batch), clock').hash = v.hash
        BY <3>1, RenewedVersion
      <3> QED
        BY <2>3, <3>1, <3>2
    <2>4. ASSUME NEW r \in L, w = NewVersion(r, clock')
          PROVE  DOMAIN w.hash \subseteq columns[t]
      <3>1. r \in Keyed(t, Rows(batch.payload, t))
        BY DEF LatestSets, LastPosition
      <3>2. PICK row \in Rows(batch.payload, t) : r.hash = Hash(t, row)
        BY <3>1 DEF Keyed
      <3>3. w.hash = r.hash
        BY <2>4 DEF NewVersion
      <3> QED
        BY <3>2, <3>3 DEF Hash
    <2> QED
      BY <2>1, <2>2, <2>3, <2>4, SyncInOnePass, ClosingIsBoolean
  <1> QED
    BY <1>1, <1>2

(* What the invariant says of the versions, as types.                      *)
StampTypes ==
    \A t \in Tables : \A v \in dims[t] :
        /\ v.from \in 1..MaxSyncs /\ v.to \in 1..MaxSyncs \cup {Null}
        /\ v.current = (v.to = Null)

LEMMA StampedTypes == TInv => StampTypes
  <1> SUFFICES ASSUME TInv, NEW t \in Tables, NEW v \in dims[t]
               PROVE  /\ v.from \in 1..MaxSyncs
                      /\ v.to \in 1..MaxSyncs \cup {Null}
                      /\ v.current = (v.to = Null)
    BY DEF StampTypes
  <1>1. /\ v.from \in Nat \ {0} /\ v.from <= clock
        /\ v.to # Null => v.to \in Nat /\ v.from < v.to /\ v.to <= clock
        /\ clock \in Nat /\ clock <= MaxSyncs /\ MaxSyncs \in Nat
    BY CoreAssumption DEF TInv, Stamped
  <1>2. v.current \in BOOLEAN /\ (v.current <=> v.to = Null)
    BY DEF TInv, KInv, IInv, AllVersions, Stamped
  <1>3. v.current = (v.to = Null)
    BY <1>2
  <1> QED
    BY <1>1, <1>3

LEMMA TypeNext == TInv /\ TInv' /\ TypeOK /\ [Next]_vars => TypeOK'
  <1> SUFFICES ASSUME TInv, TInv', TypeOK, [Next]_vars
               PROVE  TypeOK'
    OBVIOUS
  <1>1. source' = source /\ Batch' = Batch
    BY DEF Next, LoadBatch, SyncBatch, SyncAborts, vars, Batch, Payloads
  <1>2. clock' \in 0..MaxSyncs
    BY DEF TInv
  <1>3. StampTypes'
    BY StampedTypes, PTL
  <1>4. CASE SyncBatch
    <2>1. UNCHANGED <<source, columns, exists>> /\ DOMAIN dims' = Tables
          /\ batch' = Null /\ last'.batch = batch /\ batch # Null
      BY <1>4 DEF SyncBatch
    <2>2. \A t \in Tables : \A v \in dims'[t] :
            DOMAIN v.hash \subseteq columns[t]
      BY <1>4, SyncHashes DEF TInv
    <2> QED
      BY <1>1, <1>2, <1>3, <2>1, <2>2 DEF TypeOK, StampTypes
  <1>5. ASSUME NEW p \in Payloads, NEW m \in Modes, NEW q \in Policies,
               LoadBatch(p, m, q)
        PROVE  TypeOK'
    <2>1. UNCHANGED <<source, dims, last>>
      BY <1>5 DEF LoadBatch
    <2> QED
      BY <1>1, <1>2, <1>3, <1>5, <2>1, LoadedTypes DEF TypeOK, StampTypes
  <1>6. CASE SyncAborts \/ UNCHANGED vars
    <2>1. UNCHANGED <<source, columns, exists, dims, last>>
          /\ batch' \in {batch, Null}
      BY <1>6 DEF SyncAborts, vars
    <2> QED
      BY <1>1, <1>2, <1>3, <2>1 DEF TypeOK, StampTypes
  <1> QED
    BY <1>4, <1>5, <1>6 DEF Next

(* The variables always have their types.                                  *)
THEOREM TypeCorrect == Spec => []TypeOK
  <1>1. Init => TypeOK
    BY CoreAssumption DEF Init, TypeOK
  <1> QED
    BY <1>1, TimesInvariance, TypeNext, PTL DEF Spec

-----------------------------------------------------------------------------
(* CoreSync implements KeyedTable: what the three statements do to         *)
(* versions is, seen through the current ones, one replacement or one      *)
(* upsert of a table with one row per key.                                 *)

(* The positions of a payload are distinct, so DISTINCT ON has no choice.  *)
LEMMA PositionsDiffer ==
  ASSUME KInv, batch # Null, NEW q \in Root, NEW r \in Root,
         q.index <= r.index, r.index <= q.index
  PROVE  q = r
  <1> DEFINE p == batch.payload
             rows == RootRows(p)
             Key(x) == [bk |-> BusinessKey(KeyRule("root", rows), x),
                        hash |-> Hash("root", x),
                        index |-> x.index, id |-> x.id]
             At(i) == [index |-> i, parent |-> Null, id |-> <<i>>,
                       data |-> [c \in Fields(p[i]) |-> p[i][c]]]
  <1>1. PICK x \in rows : q = Key(x)
    BY DEF Root, Keyed, WithKey
  <1>2. PICK y \in rows : r = Key(y)
    BY DEF Root, Keyed, WithKey
  <1>3. PICK i \in DOMAIN p : x = At(i)
    BY DEF RootRows
  <1>4. PICK j \in DOMAIN p : y = At(j)
    BY DEF RootRows
  <1>5. q.index = i /\ r.index = j
    BY <1>1, <1>2, <1>3, <1>4
  <1>6. i \in Nat /\ j \in Nat
    BY PayloadRecords DEF KInv
  <1>7. i = j
    BY <1>5, <1>6
  <1> QED
    BY <1>1, <1>2, <1>3, <1>4, <1>7

LEMMA DeliveredIsLast == Delivered = Pairs(LastPosition(Root))
  BY DEF Delivered, Pairs, LastPosition, Root

LEMMA DeliveredHasOneRowPerKey ==
  KInv /\ batch # Null => Table!OneRowPerKey(Delivered)
  <1> SUFFICES ASSUME KInv, batch # Null,
                      NEW x \in Delivered, NEW y \in Delivered, x[1] = y[1]
               PROVE  x = y
    BY DEF Table!OneRowPerKey
  <1>1. PICK q \in LastPosition(Root) : x = <<q.bk, q.hash>>
    BY DeliveredIsLast DEF Pairs
  <1>2. PICK r \in LastPosition(Root) : y = <<r.bk, r.hash>>
    BY DeliveredIsLast DEF Pairs
  <1>3. q.bk = r.bk
    BY <1>1, <1>2
  <1>4. /\ q \in Root /\ r \in Root
        /\ q.index <= r.index /\ r.index <= q.index
    BY <1>3 DEF LastPosition
  <1> QED
    BY <1>1, <1>2, <1>4, PositionsDiffer

LEMMA LatestIsDelivered ==
  ASSUME KInv, batch # Null, NEW L \in LatestSets(Root)
  PROVE  Pairs(L) = Delivered /\ L \subseteq Root
  <1>1. L \subseteq LastPosition(Root)
    BY DEF LatestSets
  <1>2. ASSUME NEW r \in LastPosition(Root)
        PROVE  r \in L
    <2>1. r \in Root
      BY DEF LastPosition
    <2>2. PICK q \in L : q.bk = r.bk
      BY <2>1 DEF LatestSets
    <2>3. q \in Root /\ q.index <= r.index /\ r.index <= q.index
      BY <1>1, <2>1, <2>2 DEF LastPosition
    <2> QED
      BY <2>1, <2>2, <2>3, PositionsDiffer
  <1>3. L = LastPosition(Root)
    BY <1>1, <1>2
  <1> QED
    BY <1>3, DeliveredIsLast DEF LastPosition

-----------------------------------------------------------------------------
(* Every step of CoreSync is a step of KeyedTable or changes nothing in it.*)

LEMMA RootOfSync ==
  ASSUME KInv, SyncBatch
  PROVE  View(WithKey(dims'["root"])) =
           Delivered \cup
           (IF MayClose(batch) THEN {}
            ELSE {x \in View(WithKey(dims["root"])) :
                    \A y \in Delivered : x[1] # y[1]})
  <1>1. batch # Null /\ "root" \in Processed(batch.payload)
    BY DEF SyncBatch, KInv, Processed, BatchTables
  <1>2. AllVersions(dims["root"])
    BY DEF KInv, IInv, Tables
  <1>3. PICK L \in LatestSets(Root) :
          /\ HaveKeys(L) /\ OnePerKey(L)
          /\ WithKey(dims'["root"]) =
               SyncRows(WithKey(dims["root"]), L, MayClose(batch), clock')
    BY <1>1, <1>2, SyncBatchWithKey DEF Root, Rows, Tables
  <1>4. Pairs(L) = Delivered
    BY <1>1, LatestIsDelivered
  <1>5. AllVersions(WithKey(dims["root"])) /\ HaveKeys(WithKey(dims["root"]))
    BY <1>2, WithKeyFacts
  <1>6. MayClose(batch) \in BOOLEAN
    BY DEF MayClose
  <1> QED
    BY <1>3, <1>4, <1>5, <1>6, ViewAfterSync DEF Merged

LEMMA TableInit == Init => Table!Init
  BY DEF Init, Table!Init, View, WithKey, Current, Tables

LEMMA TableStep == KInv /\ KInv' /\ [Next]_vars => [Table!Next]_(Table!vars)
  <1> SUFFICES ASSUME KInv, KInv', [Next]_vars
               PROVE  Table!Next \/ UNCHANGED Table!vars
    OBVIOUS
  <1> DEFINE d == [rows |-> Delivered, closing |-> MayClose(batch)]
             pending == IF batch = Null THEN {} ELSE {d}
  <1>1. ASSUME NEW p \in Payloads, NEW m \in Modes, NEW q \in Policies,
               LoadBatch(p, m, q)
        PROVE  Table!Next \/ UNCHANGED Table!vars
    <2>1. pending = {} /\ UNCHANGED View(WithKey(dims["root"]))
      BY <1>1 DEF LoadBatch
    <2>2. CASE batch' = Null
      BY <2>1, <2>2 DEF Table!vars
    <2>3. CASE batch' # Null
      <3>1. (KInv /\ batch # Null => Table!OneRowPerKey(Delivered))'
        BY DeliveredHasOneRowPerKey, PTL
      <3>2. Table!OneRowPerKey(Delivered)' /\ pending' = {d'}
        BY <2>3, <3>1
      <3>3. d'.rows = Delivered'
        OBVIOUS
      <3>4. Table!Deliver
        BY <2>1, <3>2, <3>3 DEF Table!Deliver, Table!OneRowPerKey
      <3> QED
        BY <3>4 DEF Table!Next
    <2> QED
      BY <2>2, <2>3
  <1>2. CASE SyncBatch
    <2>1. pending = {d} /\ pending' = {}
      BY <1>2 DEF SyncBatch
    <2>2. View(WithKey(dims["root"]))' =
            d.rows \cup (IF d.closing THEN {} ELSE Table!Untouched(d))
      BY <1>2, RootOfSync DEF Table!Untouched
    <2>3. Table!Apply
      BY <2>1, <2>2 DEF Table!Apply
    <2> QED
      BY <2>3 DEF Table!Next
  <1>3. CASE SyncAborts
    <2>1. /\ pending # {} /\ pending' = {}
          /\ UNCHANGED View(WithKey(dims["root"]))
      BY <1>3 DEF SyncAborts
    <2> QED
      BY <2>1 DEF Table!Next, Table!Discard
  <1>4. CASE UNCHANGED vars
    <2>1. UNCHANGED <<View(WithKey(dims["root"])), pending>>
      BY <1>4 DEF vars, Delivered, Keyed, Hash, KeyRule, BusinessKey,
                  KeyFields, FieldsKey, MayClose
    <2> QED
      BY <2>1 DEF Table!vars
  <1> QED
    BY <1>1, <1>2, <1>3, <1>4 DEF Next

(* The current rows of the root dimension that have a key are those of a   *)
(* table with one row per key, to which batches are applied as a whole or  *)
(* not at all, whatever rows without a key come with them.                 *)
THEOREM Implementation == Spec => ImplementsKeyedTable
  <1> QED
    BY KeyInvariance, TableInit, TableStep, PTL
       DEF Spec, ImplementsKeyedTable, Table!Spec

-----------------------------------------------------------------------------
(* A batch that is repeated.  A dimension shows what a batch said when the *)
(* last row of every key is current, and, if the batch closes, nothing but *)
(* these.  rows are those of the batch; a key is determined when the rows  *)
(* among which DISTINCT ON may choose have one content.                    *)
Determined(rows) ==
    \A q, r \in LastPosition(rows) : q.bk = r.bk => q.hash = r.hash

Shows(dim, rows, closing) ==
    /\ \A r \in LastPosition(rows) : <<r.bk, r.hash>> \in View(dim)
    /\ closing => \A v \in Current(dim) : \E r \in rows : r.bk = v.bk

LEMMA SyncShows ==
  ASSUME NEW dim, AllVersions(dim), HaveKeys(dim),
         NEW rows, HaveKeys(rows), Determined(rows),
         NEW L \in LatestSets(rows), NEW closing \in BOOLEAN, NEW now
  PROVE  Shows(SyncRows(dim, L, closing, now), rows, closing)
  <1> DEFINE new == SyncRows(dim, L, closing, now)
  <1>1. /\ L \subseteq LastPosition(rows) /\ LastPosition(rows) \subseteq rows
        /\ \A r \in rows : \E q \in L : q.bk = r.bk
    BY DEF LatestSets, LastPosition
  <1>2. HaveKeys(L) /\ OnePerKey(L)
    BY <1>1, LatestIsOnePerKey DEF HaveKeys
  <1>3. View(new) = Merged(View(dim), L, closing)
    BY <1>2, ViewAfterSync
  <1> HIDE DEF new
  <1>4. ASSUME NEW r \in LastPosition(rows)
        PROVE  <<r.bk, r.hash>> \in View(new)
    <2>1. PICK q \in L : q.bk = r.bk
      BY <1>1
    <2>2. q.hash = r.hash
      BY <1>1, <2>1 DEF Determined
    <2> QED
      BY <1>3, <2>1, <2>2 DEF Merged, Pairs
  <1>5. ASSUME closing, NEW v \in Current(new)
        PROVE  \E r \in rows : r.bk = v.bk
    <2>1. <<v.bk, v.hash>> \in Pairs(L)
      BY <1>3, <1>5 DEF Merged, View
    <2>2. PICK q \in L : <<v.bk, v.hash>> = <<q.bk, q.hash>>
      BY <2>1 DEF Pairs
    <2> QED
      BY <1>1, <2>2
  <1> QED
    BY <1>4, <1>5 DEF Shows, new

LEMMA ShownIsKept ==
  ASSUME NEW dim, AllVersions(dim), OneCurrent(dim),
         NEW rows, HaveKeys(rows),
         NEW L \in LatestSets(rows), NEW closing \in BOOLEAN, NEW now,
         NEW closed \in BOOLEAN, closing => closed, Shows(dim, rows, closed)
  PROVE  SyncRows(dim, L, closing, now) = dim
  <1>1. /\ L \subseteq LastPosition(rows) /\ LastPosition(rows) \subseteq rows
        /\ \A r \in rows : \E q \in L : q.bk = r.bk
    BY DEF LatestSets, LastPosition
  <1>2. ASSUME NEW r \in L
        PROVE  \E v \in Current(dim) : v.bk = r.bk /\ v.hash = r.hash
    <2>1. <<r.bk, r.hash>> \in View(dim)
      BY <1>1 DEF Shows
    <2>2. PICK v \in Current(dim) : <<r.bk, r.hash>> = <<v.bk, v.hash>>
      BY <2>1 DEF View
    <2> QED
      BY <2>2
  <1>3. \A r \in L : r.bk # Null
    BY <1>1 DEF HaveKeys
  <1>4. \A v \in dim : ~Changed(v, L)
    <2> SUFFICES ASSUME NEW v \in dim, v.current,
                        NEW r \in L, r.bk = v.bk, r.hash # v.hash
                 PROVE  FALSE
      BY DEF Changed, SqlEq
    <2>1. PICK w \in Current(dim) : w.bk = r.bk /\ w.hash = r.hash
      BY <1>2
    <2>2. w = v
      BY <1>3, <2>1 DEF OneCurrent, Current
    <2> QED
      BY <2>1, <2>2
  <1>5. CloseChanged(dim, L, now) = dim
    BY <1>4 DEF CloseChanged
  <1>6. closing => \A v \in dim : ~Absent(v, L)
    <2> SUFFICES ASSUME closing, NEW v \in dim, v.current
                 PROVE  \E r \in L : SqlEq(r.bk, v.bk)
      BY DEF Absent
    <2>1. PICK r \in rows : r.bk = v.bk
      BY DEF Shows, Current
    <2>2. PICK q \in L : q.bk = r.bk
      BY <1>1
    <2> QED
      BY <1>3, <2>1, <2>2 DEF SqlEq
  <1>7. closing => CloseAbsent(dim, L, now) = dim
    BY <1>6 DEF CloseAbsent
  <1>8. \A r \in L : ~Fresh(r, dim)
    <2> SUFFICES ASSUME NEW r \in L
                 PROVE  \E v \in dim : v.current /\ SqlEq(v.bk, r.bk)
      BY DEF Fresh
    <2> QED
      BY <1>2, <1>3 DEF Current, SqlEq
  <1>9. InsertFresh(dim, L, now) = dim
    BY <1>8 DEF InsertFresh
  <1> QED
    BY <1>5, <1>7, <1>9 DEF SyncRows

-----------------------------------------------------------------------------
(* The rows of one position have one content.  Those of the root are one   *)
(* row; rows of the child table are of one position when a payload repeats *)
(* a record, and have one content if the records of one id agree on it.    *)
ArraysAgree ==
    \A s \in Sources : \A r, q \in s.records :
        r.id # Null /\ r.id = q.id /\ HasTags(r) /\ HasTags(q) =>
            \A j \in (DOMAIN r.tags) \cap (DOMAIN q.tags) :
                r.tags[j] = q.tags[j]

LEMMA RootIsDetermined ==
  ASSUME KInv, batch # Null
  PROVE  Determined(Root)
  <1> SUFFICES ASSUME NEW q \in LastPosition(Root),
                      NEW r \in LastPosition(Root), q.bk = r.bk
               PROVE  q.hash = r.hash
    BY DEF Determined
  <1>1. /\ q \in Root /\ r \in Root
        /\ q.index <= r.index /\ r.index <= q.index
    BY DEF LastPosition
  <1> QED
    BY <1>1, PositionsDiffer

LEMMA ChildIsDetermined ==
  ASSUME ArraysAgree, KInv, batch # Null, ~Raises(batch.payload),
         "child" \in Processed(batch.payload)
  PROVE  Determined(WithKey(Keyed("child", ChildRows(batch.payload))))
  <1> DEFINE p == batch.payload
             content(i, j) ==
               [c \in columns["child"] |->
                  IF c = "value" THEN p[i].tags[j] ELSE Null]
             rows == WithKey(Keyed("child", ChildRows(p)))
  <1> SUFFICES ASSUME NEW q \in LastPosition(rows),
                      NEW r \in LastPosition(rows), q.bk = r.bk
               PROVE  q.hash = r.hash
    BY DEF Determined
  <1>1. /\ q \in Keyed("child", ChildRows(p))
        /\ r \in Keyed("child", ChildRows(p))
    BY DEF LastPosition, WithKey
  <1>2. PICK i \in DOMAIN p :
          /\ HasTags(p[i]) /\ p[i].id # Null
          /\ \E j \in DOMAIN p[i].tags :
               q.bk = <<<<"root", p[i].id>>, j>> /\ q.hash = content(i, j)
    BY <1>1, ChildKey
  <1>3. PICK j \in DOMAIN p[i].tags :
          q.bk = <<<<"root", p[i].id>>, j>> /\ q.hash = content(i, j)
    BY <1>2
  <1>4. PICK k \in DOMAIN p :
          /\ HasTags(p[k]) /\ p[k].id # Null
          /\ \E m \in DOMAIN p[k].tags :
               r.bk = <<<<"root", p[k].id>>, m>> /\ r.hash = content(k, m)
    BY <1>1, ChildKey
  <1>5. PICK m \in DOMAIN p[k].tags :
          r.bk = <<<<"root", p[k].id>>, m>> /\ r.hash = content(k, m)
    BY <1>4
  <1> HIDE DEF content
  <1>6. p[i].id = p[k].id /\ j = m
    <2> DEFINE a == <<"root", p[i].id>>
               b == <<"root", p[k].id>>
    <2>1. <<a, j>> = <<b, m>>
      BY <1>3, <1>5
    <2>2. a = b /\ j = m
      BY <2>1
    <2> QED
      BY <2>2
  <1>7. source \in Sources /\ p[i] \in source.records
        /\ p[k] \in source.records
    BY PayloadRecords DEF KInv
  <1>8. p[i].tags[j] = p[k].tags[m]
    BY <1>2, <1>3, <1>4, <1>5, <1>6, <1>7 DEF ArraysAgree
  <1>9. content(i, j) = content(k, m)
    BY <1>8 DEF content
  <1> QED
    BY <1>3, <1>5, <1>9

-----------------------------------------------------------------------------
(* Until columns are added the dimensions show the batch committed last,   *)
(* and the tables of a batch exist since it was loaded.                    *)
LastRows(t) == WithKey(Keyed(t, Rows(last.batch.payload, t)))

SInv ==
    /\ KInv
    /\ batch # Null => BatchTables(batch.payload) \subseteq exists
    /\ last # Null =>
         /\ \A t \in Tables : last.columns[t] \subseteq columns[t]
         /\ (\A t \in Tables : columns[t] = last.columns[t]) =>
              \A t \in BatchTables(last.batch.payload) :
                Shows(WithKey(dims[t]), LastRows(t), MayClose(last.batch))

LEMMA TablesOfBatch ==
  ASSUME SInv, batch # Null, NEW t
  PROVE  /\ t \in BatchTables(batch.payload) <=> t \in Processed(batch.payload)
         /\ t \in Processed(batch.payload) => t \in Tables
  BY DEF SInv, Processed, BatchTables, Tables

LEMMA KeyedAfter ==
  ASSUME NEW t, NEW rows, columns'[t] = columns[t], source' = source
  PROVE  WithKey(Keyed(t, rows))' = WithKey(Keyed(t, rows))
  BY DEF WithKey, Keyed, Hash, KeyRule, BusinessKey, FieldsKey, KeyFields

LEMMA SInvSync ==
  ASSUME ArraysAgree, SInv, KInv', SyncBatch
  PROVE  SInv'
  <1>1. /\ batch # Null /\ ~Raises(batch.payload)
        /\ UNCHANGED <<source, columns, exists>>
        /\ last' = [batch |-> batch, columns |-> columns] /\ batch' = Null
    BY DEF SyncBatch
  <1>2. last'.batch = batch /\ last'.columns = columns
    BY <1>1
  <1>3. MayClose(batch) \in BOOLEAN
    BY DEF MayClose
  <1>4. ASSUME NEW t \in BatchTables(batch.payload)
        PROVE  Shows(WithKey(dims'[t]),
                     WithKey(Keyed(t, Rows(batch.payload, t))),
                     MayClose(batch))
    <2> DEFINE rows == WithKey(Keyed(t, Rows(batch.payload, t)))
    <2>1. t \in Tables /\ t \in Processed(batch.payload)
      BY <1>1, TablesOfBatch
    <2>2. Determined(rows)
      <3>1. CASE t = "root"
        BY <1>1, <3>1, RootIsDetermined DEF SInv, Root, Rows
      <3>2. CASE t = "child"
        BY <1>1, <2>1, <3>2, ChildIsDetermined DEF SInv, Rows
      <3> QED
        BY <2>1, <3>1, <3>2 DEF Tables
    <2>3. AllVersions(dims[t])
      BY <2>1 DEF SInv, KInv, IInv
    <2>4. PICK L \in LatestSets(rows) :
            WithKey(dims'[t]) =
              SyncRows(WithKey(dims[t]), L, MayClose(batch), clock')
      BY <2>1, <2>3, SyncBatchWithKey
    <2>5. /\ AllVersions(WithKey(dims[t])) /\ HaveKeys(WithKey(dims[t]))
          /\ HaveKeys(rows)
      BY <2>3, WithKeyFacts
    <2> HIDE DEF rows
    <2>6. Shows(WithKey(dims'[t]), rows, MayClose(batch))
      BY <1>3, <2>2, <2>4, <2>5, SyncShows
    <2> QED
      BY <2>6 DEF rows
  <1>5. ASSUME NEW t
        PROVE  LastRows(t)' = WithKey(Keyed(t, Rows(batch.payload, t)))
    <2>1. PICK rows : rows = Rows(batch.payload, t)
      OBVIOUS
    <2>2. Rows(last.batch.payload, t)' = rows
      BY <1>2, <2>1 DEF Rows, RootRows, ChildRows
    <2>3. LastRows(t)' = WithKey(Keyed(t, rows))'
      BY <2>2 DEF LastRows, Keyed, WithKey
    <2>4. WithKey(Keyed(t, rows))' = WithKey(Keyed(t, rows))
      BY <1>1, KeyedAfter
    <2> QED
      BY <2>1, <2>3, <2>4
  <1>6. ASSUME NEW t \in BatchTables(batch.payload)
        PROVE  Shows(WithKey(dims[t]), LastRows(t), MayClose(last.batch))'
    <2>1. WithKey(dims[t])' = WithKey(dims'[t])
      BY DEF WithKey
    <2>2. MayClose(last.batch)' = MayClose(batch)
      BY <1>2 DEF MayClose
    <2> QED
      BY <1>4, <1>5, <2>1, <2>2 DEF Shows
  <1> QED
    BY <1>1, <1>2, <1>6 DEF SInv

(* A batch that is loaded adds columns, and then what was shown under the  *)
(* former ones counts no more, or it adds none.                            *)
LEMMA SInvLoad ==
  ASSUME SInv, KInv', NEW p \in Payloads, NEW m \in Modes, NEW q \in Policies,
         LoadBatch(p, m, q)
  PROVE  SInv'
  <1>1. /\ UNCHANGED <<source, dims, last>>
        /\ exists' = exists \cup BatchTables(p)
        /\ batch' = [payload |-> p, mode |-> m, policy |-> q]
        /\ \A t \in Tables : columns[t] \subseteq columns'[t]
    BY DEF LoadBatch
  <1>2. BatchTables(batch'.payload) \subseteq exists'
    BY <1>1
  <1>3. ASSUME last # Null
        PROVE  /\ \A t \in Tables : last.columns[t] \subseteq columns'[t]
               /\ (\A t \in Tables : columns'[t] = last.columns[t]) =>
                    \A t \in BatchTables(last.batch.payload) :
                      Shows(WithKey(dims[t]), LastRows(t)',
                            MayClose(last.batch))
    <2>1. \A t \in Tables : last.columns[t] \subseteq columns[t]
      BY <1>3 DEF SInv
    <2>2. ASSUME \A t \in Tables : columns'[t] = last.columns[t],
                 NEW t \in BatchTables(last.batch.payload)
          PROVE  Shows(WithKey(dims[t]), LastRows(t)', MayClose(last.batch))
      <3>1. \A u \in Tables : columns[u] = last.columns[u]
        BY <1>1, <2>1, <2>2
      <3>2. Shows(WithKey(dims[t]), LastRows(t), MayClose(last.batch))
        BY <1>3, <3>1 DEF SInv
      <3>3. t \in Tables /\ columns'[t] = columns[t]
        BY <2>2, <3>1 DEF BatchTables, Tables
      <3>4. LastRows(t)' = LastRows(t)
        <4>1. PICK rows : rows = Rows(last.batch.payload, t)
          OBVIOUS
        <4>2. Rows(last.batch.payload, t)' = rows
          BY <1>1, <4>1 DEF Rows, RootRows, ChildRows
        <4>3. LastRows(t)' = WithKey(Keyed(t, rows))'
          BY <4>2 DEF LastRows, Keyed, WithKey
        <4>4. WithKey(Keyed(t, rows))' = WithKey(Keyed(t, rows))
          BY <1>1, <3>3, KeyedAfter
        <4> QED
          BY <4>1, <4>3, <4>4 DEF LastRows
      <3> QED
        BY <3>2, <3>4
    <2> QED
      BY <1>1, <2>1, <2>2
  <1> QED
    BY <1>1, <1>2, <1>3 DEF SInv

LEMMA SInvNext ==
  ASSUME ArraysAgree, SInv, KInv', [Next]_vars
  PROVE  SInv'
  <1>1. CASE SyncBatch
    BY <1>1, SInvSync
  <1>2. ASSUME NEW p \in Payloads, NEW m \in Modes, NEW q \in Policies,
               LoadBatch(p, m, q)
        PROVE  SInv'
    BY <1>2, SInvLoad
  <1>3. CASE SyncAborts \/ UNCHANGED vars
    <2>1. UNCHANGED <<source, columns, exists, dims, last>>
          /\ batch' \in {batch, Null}
      BY <1>3 DEF SyncAborts, vars
    <2>2. \A t : LastRows(t)' = LastRows(t)
      BY <2>1 DEF LastRows, WithKey, Keyed, Hash, KeyRule, BusinessKey,
                  FieldsKey, KeyFields
    <2> QED
      BY <2>1, <2>2 DEF SInv
  <1> QED
    BY <1>1, <1>2, <1>3 DEF Next

(* The tables are one by one as they were.                                 *)
LEMMA RepeatedBatch ==
  ASSUME SInv, SyncBatch, last # Null,
         batch.payload = last.batch.payload, columns = last.columns,
         MayClose(batch) => MayClose(last.batch)
  PROVE  \A t \in Tables : WithKey(dims'[t]) = WithKey(dims[t])
  <1>1. batch # Null
    BY DEF SyncBatch
  <1>2. MayClose(batch) \in BOOLEAN /\ MayClose(last.batch) \in BOOLEAN
    BY DEF MayClose
  <1>3. ASSUME NEW t \in Tables, t \in Processed(batch.payload)
        PROVE  WithKey(dims'[t]) = WithKey(dims[t])
    <2> DEFINE rows == WithKey(Keyed(t, Rows(batch.payload, t)))
    <2>1. AllVersions(dims[t]) /\ OneCurrent(dims[t])
      BY DEF SInv, KInv, IInv, OneCurrentPerKey
    <2>2. PICK L \in LatestSets(rows) :
            WithKey(dims'[t]) =
              SyncRows(WithKey(dims[t]), L, MayClose(batch), clock')
      BY <1>3, <2>1, SyncBatchWithKey
    <2>3. Shows(WithKey(dims[t]), rows, MayClose(last.batch))
      <3>1. t \in BatchTables(last.batch.payload)
        BY <1>1, <1>3, TablesOfBatch
      <3>2. rows = LastRows(t)
        BY DEF LastRows
      <3> QED
        BY <3>1, <3>2 DEF SInv
    <2>4. /\ AllVersions(WithKey(dims[t])) /\ OneCurrent(WithKey(dims[t]))
          /\ HaveKeys(rows)
      BY <2>1, WithKeyFacts
    <2> HIDE DEF rows
    <2> QED
      BY <1>2, <2>2, <2>3, <2>4, ShownIsKept
  <1> QED
    BY <1>3, SyncBatchOnTable

(* The dimensions show the batch committed last, as long as no column is   *)
(* added to Staging.                                                       *)
THEOREM ShownInvariance ==
  ASSUME ArraysAgree PROVE Spec => []SInv
  <1>1. Init => SInv
    BY KInvInit DEF Init, SInv
  <1>2. SInv /\ KInv' /\ [Next]_vars => SInv'
    BY SInvNext
  <1> QED
    BY <1>1, <1>2, KeyInvariance, PTL DEF Spec

(* A run whose outcome was lost after core committed is repeated: the same *)
(* payload, over the same columns, changes no version that has a key, in   *)
(* any table, if the arrays of a record that a payload repeats agree on    *)
(* their positions.                                                        *)
THEOREM RepetitionIsHarmless ==
  ASSUME ArraysAgree PROVE Spec => ResyncChangesNothing
  <1>1. ASSUME SInv, [Next]_vars
        PROVE  /\ Committed /\ last # Null
               /\ batch.payload = last.batch.payload
               /\ columns = last.columns
               /\ MayClose(batch) => MayClose(last.batch)
               => \A t \in Tables : WithKey(dims'[t]) = WithKey(dims[t])
    <2>1. Committed => SyncBatch
      BY <1>1 DEF Committed, Next, LoadBatch, SyncAborts, vars
    <2> QED
      BY <1>1, <2>1, RepeatedBatch
  <1> QED
    BY <1>1, ShownInvariance, PTL DEF Spec, ResyncChangesNothing
=============================================================================
