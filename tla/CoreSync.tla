------------------------------ MODULE CoreSync ------------------------------
(***************************************************************************)
(* core.sync_from_staging for one source: which tables a batch touches,    *)
(* which business key each table gets, and the SCD2 statements on each     *)
(* dimension (postgres/core/procedures.sql, with the rows and columns that *)
(* loader/app/flatten.py and loader/app/db.py leave in staging).           *)
(*                                                                         *)
(* The source delivers records with the optional fields id, key and tags   *)
(* and a field val.  tags is an array, flattened to a child table.  The    *)
(* runs of one source never overlap (Orchestrator!OneRunPerName), so       *)
(* batches arrive one after the other here.                                *)
(***************************************************************************)
EXTENDS Sequences, FiniteSets, Scd2

CONSTANTS
    Sources,     \* the sources that are considered: the records each may
                 \* deliver and its configured key_fields, a set of columns
    MaxRecords,  \* bound: records in one payload
    MaxSyncs     \* bound: committed synchronizations

Tables == {"root", "child"}
Modes == {"full_snapshot", "incremental_upsert"}
Policies == {"close_on_full_snapshot", "never_close"}

(* Nothing is assumed of the fields a record has: it may lack the ones the *)
(* key is made of.                                                         *)
ASSUME CoreAssumption ==
    /\ MaxSyncs \in Nat /\ MaxRecords \in Nat
    /\ \A s \in Sources :
         /\ s.keyFields \subseteq {"id", "key", "val"}
         /\ \A r \in s.records : DOMAIN r = {"id", "key", "val", "tags"}

VARIABLES
    source,   \* the source, which is not edited here
    columns,  \* data columns of the staging tables; they are only ever added
    exists,   \* the staging tables that exist
    dims,     \* table -> its dimension
    batch,    \* the batch that is loaded and not yet synchronized, or Null
    last,     \* history: the batch committed last and the columns it was
              \* hashed over, or Null
    clock     \* transaction time: number of committed synchronizations

vars == <<source, columns, exists, dims, batch, last, clock>>

KeyFields == source.keyFields
Payloads == UNION {[1..n -> source.records] : n \in 0..MaxRecords}
Batch == [payload : Payloads, mode : Modes, policy : Policies]

TypeOK ==
    /\ source \in Sources
    /\ columns \in [Tables -> SUBSET {"id", "key", "val", "value"}]
    /\ exists \subseteq Tables
    /\ DOMAIN dims = Tables
    /\ \A t \in Tables : \A v \in dims[t] :
         /\ v.from \in 1..MaxSyncs /\ v.to \in 1..MaxSyncs \cup {Null}
         /\ v.current = (v.to = Null)
         /\ DOMAIN v.hash \subseteq columns[t]
    /\ batch \in Batch \cup {Null}
    /\ last = Null \/ last.batch \in Batch
    /\ clock \in 0..MaxSyncs

Init ==
    /\ source \in Sources
    /\ columns = [t \in Tables |-> {}]
    /\ exists = {}
    /\ dims = [t \in Tables |-> {}]
    /\ batch = Null
    /\ last = Null
    /\ clock = 0

-----------------------------------------------------------------------------
(* The loader: what flatten_record leaves in staging.                      *)

(* row_key of a root record: its id, if it has one.                        *)
RowKey(record) == IF record.id = Null THEN Null ELSE <<"root", record.id>>

HasTags(record) == record.tags # Null

Fields(record) == {c \in {"id", "key", "val"} : record[c] # Null}

(* _row_index, _parent_key and the data columns of each row of a table.    *)
RootRows(p) ==
    {[index |-> i, parent |-> Null, id |-> <<i>>,
      data |-> [c \in Fields(p[i]) |-> p[i][c]]] : i \in DOMAIN p}

ChildRows(p) ==
    UNION {{[index |-> j, parent |-> RowKey(p[i]), id |-> <<i, j>>,
             data |-> [c \in {"value"} |-> p[i].tags[j]]]
              : j \in DOMAIN p[i].tags}
             : i \in {k \in DOMAIN p : HasTags(p[k])}}

Rows(p, t) == IF t = "root" THEN RootRows(p) ELSE ChildRows(p)

(* table_names of the batch: the root table always, the child table when   *)
(* some record has the array, be it empty.                                 *)
BatchTables(p) ==
    {"root"} \cup (IF \E i \in DOMAIN p : HasTags(p[i]) THEN {"child"} ELSE {})

(* ensure_table and ensure_columns, then the insert, in one transaction.   *)
LoadBatch(p, mode, policy) ==
    /\ batch = Null
    /\ clock < MaxSyncs
    /\ exists' = exists \cup BatchTables(p)
    /\ columns' = [t \in Tables |->
                     columns[t] \cup UNION {DOMAIN r.data : r \in Rows(p, t)}]
    /\ batch' = [payload |-> p, mode |-> mode, policy |-> policy]
    /\ UNCHANGED <<source, dims, last, clock>>

-----------------------------------------------------------------------------
(* core.sync_from_staging.                                                 *)

Processed(p) == exists \cap (BatchTables(p) \cup {"root"})

ParentsComplete(rows) == rows # {} /\ \A r \in rows : r.parent # Null

(* Faulty: nobody asks whether the table has the configured columns.       *)
FieldsAlways(t, rows) ==
    IF KeyFields # {} THEN "fields"
    ELSE IF "id" \in columns[t] THEN "id"
    ELSE IF ParentsComplete(rows) THEN "parent"
    ELSE IF rows = {} THEN "none"
    ELSE "error"

(* The choice of bk_expr for table t: which columns make the key.          *)
KeyRule(t, rows) ==
    IF KeyFields # {} /\ KeyFields \subseteq columns[t] THEN "fields"
    ELSE IF KeyFields # {} /\ rows = {} THEN "none"
    ELSE IF "id" \in columns[t] THEN "id"
    ELSE IF ParentsComplete(rows) THEN "parent"
    ELSE IF rows = {} THEN "none"
    ELSE "error"

(* A column the row has no value for is NULL.                              *)
Cell(row, c) == IF c \in DOMAIN row.data THEN row.data[c] ELSE Null

(* One key field is cast to text and may be NULL; row(...)::text of        *)
(* several never is.                                                       *)
FieldsKey(row) ==
    IF Cardinality(KeyFields) = 1 THEN Cell(row, CHOOSE c \in KeyFields : TRUE)
    ELSE [c \in KeyFields |-> Cell(row, c)]

BusinessKey(rule, row) ==
    CASE rule = "fields" -> FieldsKey(row)
      [] rule = "id"     -> Cell(row, "id")
      [] rule = "parent" -> <<row.parent, row.index>>
      [] OTHER           -> Null

(* hash_expr covers every data column the staging table has by now.        *)
Hash(t, row) == [c \in columns[t] |-> Cell(row, c)]

Keyed(t, rows) ==
    {[bk |-> BusinessKey(KeyRule(t, rows), r), hash |-> Hash(t, r),
      index |-> r.index, id |-> r.id] : r \in rows}

(* Where the function raises: a table without a usable key, or configured  *)
(* keys that no table of a non-empty batch has.                            *)
Raises(p) ==
    \/ \E t \in Processed(p) : KeyRule(t, Rows(p, t)) = "error"
    \/ /\ KeyFields # {}
       /\ \E t \in Processed(p) : Rows(p, t) # {}
       /\ \A t \in Processed(p) : KeyRule(t, Rows(p, t)) # "fields"

(* The condition of step 2.                                                *)
Closing(b) ==
    b.policy = "close_on_full_snapshot" /\ b.mode = "full_snapshot"

SyncTable(t, latest, now) ==
    SyncRows(dims[t], latest, Closing(batch), now)

(* The whole transaction: every processed table, and commit.               *)
SyncBatch ==
    /\ batch # Null
    /\ ~Raises(batch.payload)
    /\ clock' = clock + 1
    /\ \E latest \in [Processed(batch.payload) ->
                        UNION {LatestSets(Keyed(t, Rows(batch.payload, t)))
                                 : t \in Tables}] :
         /\ \A t \in DOMAIN latest :
              latest[t] \in LatestSets(Keyed(t, Rows(batch.payload, t)))
         /\ dims' = [t \in Tables |->
                       IF t \in DOMAIN latest
                         THEN SyncTable(t, latest[t], clock') ELSE dims[t]]
    /\ last' = [batch |-> batch, columns |-> columns]
    /\ batch' = Null
    /\ UNCHANGED <<source, columns, exists>>

(* The function raises, or the transaction is lost: everything rolls back. *)
SyncAborts ==
    /\ batch # Null
    /\ batch' = Null
    /\ UNCHANGED <<source, columns, exists, dims, last, clock>>

Next ==
    \/ \E p \in Payloads, m \in Modes, q \in Policies : LoadBatch(p, m, q)
    \/ SyncBatch
    \/ SyncAborts

Spec == Init /\ [][Next]_vars

-----------------------------------------------------------------------------
(* Properties.                                                             *)

(* Step 3 of sync_from_staging and the missing unique constraint: no       *)
(* sequence of snapshots, upserts, duplicate records and aborted batches   *)
(* leaves two current versions of one business key.                        *)
OneCurrentPerKey == \A t \in Tables : OneCurrent(dims[t])

(* The versions of a key are intervals that follow each other: valid_to of *)
(* a closed version is after its valid_from and not after the next one's.  *)
Timelines == \A t \in Tables : Timeline(dims[t])

(* History is kept: a synchronization adds versions and closes current     *)
(* ones; it neither removes a version nor touches a closed one.            *)
HistoryKept == [][\A t \in Tables : Extends(dims'[t], dims[t])]_vars

Committed == clock' # clock

(* README.md:271: the only batches whose absent keys are closed.           *)
MayClose(b) ==
    b.mode = "full_snapshot" /\ b.policy = "close_on_full_snapshot"

(* What the batch says of the root table: the last record of each key.     *)
Delivered ==
    LET rows == WithKey(Keyed("root", RootRows(batch.payload)))
    IN {<<r.bk, r.hash>> :
          r \in {q \in rows :
                  \A p \in rows : p.bk = q.bk => p.index <= q.index}}

(* README.md:262-275: whatever batches are loaded, aborted and repeated,   *)
(* and whatever records without a key come with the others, the current    *)
(* rows of the root dimension that have a key are those of a table with    *)
(* one row per key, of which a closing full snapshot leaves nothing but    *)
(* itself and any other batch replaces the rows whose keys it has.         *)
Table == INSTANCE KeyedTable WITH
    table <- View(WithKey(dims["root"])),
    pending <- IF batch = Null THEN {}
               ELSE {[rows |-> Delivered, closing |-> MayClose(batch)]}

ImplementsKeyedTable == Table!Spec

(* A run whose outcome was lost after core committed is repeated: the same *)
(* payload, over the same columns, changes no version that has a key.      *)
ResyncChangesNothing ==
    [][/\ Committed /\ last # Null
       /\ batch.payload = last.batch.payload
       /\ columns = last.columns
       /\ MayClose(batch) => MayClose(last.batch)
       => \A t \in Tables : WithKey(dims'[t]) = WithKey(dims[t])]_vars

(* postgres/core/init.sql:42 "when a business key present as               *)
(* is_current=true in a dimension no longer appears in the source, the     *)
(* sync procedures CLOSE the current version": after a full snapshot under *)
(* close_on_full_snapshot no table keeps a current key the payload lacks.  *)
SnapshotClosesAbsent ==
    [][Committed /\ MayClose(batch)
       => \A t \in Tables : \A v \in Current(dims'[t]) :
            \E r \in Keyed(t, Rows(batch.payload, t)) : r.bk = v.bk]_vars

(* The key field of a version's own content, or its id.                    *)
OwnKey(content) ==
    LET row == [data |-> content]
    IN IF KeyFields = {} THEN Cell(row, "id") ELSE FieldsKey(row)

(* README.md:91-97: a version is stored under the key that its own content *)
(* has, and a version of an array element under its parent's id and its    *)
(* position.  The key rule looks at the columns of the staging table,      *)
(* which grow with every batch: no order of batches with and without ids   *)
(* and key fields makes it fall back to another column.  A row without a   *)
(* value in the column is not rejected, as README.md:94 says, but stored   *)
(* under NULL: its own content has no key.                                 *)
StoredUnderOwnKey ==
    /\ \A v \in dims["root"] : v.bk = OwnKey(v.hash)
    /\ \A v \in dims["child"] : \E r \in source.records :
         /\ r.id # Null /\ HasTags(r)
         /\ \E j \in DOMAIN r.tags :
              /\ v.bk = <<RowKey(r), j>>
              /\ \A c \in DOMAIN v.hash : v.hash[c] = r.tags[j]

=============================================================================
