-------------------------------- MODULE Scd2 --------------------------------
(***************************************************************************)
(* One slowly changing dimension of type 2 as core.sync_from_staging and   *)
(* core.sync_users maintain it (postgres/core/procedures.sql).             *)
(*                                                                         *)
(* A dimension is a set of versions.  A version is told apart by its key   *)
(* and the transaction time it was inserted at, so the surrogate _sk is    *)
(* left out.  A staging row that is about to be synchronized is a record   *)
(* with its business key, the hash of its data columns and its _row_index. *)
(***************************************************************************)
EXTENDS Naturals

CONSTANT Null   \* SQL NULL

ASSUME NullAssumption == Null \notin Nat

(* The SQL operator =, which is never true of NULL.                        *)
SqlEq(x, y) == x # Null /\ x = y

NewVersion(row, now) ==
    [bk |-> row.bk, hash |-> row.hash, from |-> now, to |-> Null,
     current |-> TRUE]

(* Faulty: valid_to is forgotten.                                          *)
ClosedWithoutTime(v, now) == [v EXCEPT !.current = FALSE]

(* SET valid_to = now(), is_current = false.                               *)
Closed(v, now) == [v EXCEPT !.to = now, !.current = FALSE]

Current(dim) == {v \in dim : v.current}

(* Faulty: the first position wins.                                        *)
FirstPosition(rows) ==
    {r \in rows : \A q \in rows : q.bk = r.bk => q.index >= r.index}

(* DISTINCT ON (bk) ... ORDER BY bk, _row_index DESC, _row_id DESC: one    *)
(* row per key, NULLs being one group, the last position first.  _row_id   *)
(* is a random UUID, so that rows of one position tie in either order.     *)
LastPosition(rows) ==
    {r \in rows : \A q \in rows : q.bk = r.bk => q.index <= r.index}

(* Faulty: no DISTINCT ON.                                                 *)
EveryRow(rows) == {rows}

LatestSets(rows) ==
    {L \in SUBSET LastPosition(rows) :
        \A r \in rows : \E q \in L :
            q.bk = r.bk /\ \A p \in L : p.bk = r.bk => p = q}

(* Faulty: closed versions are closed again.                               *)
ChangedEver(v, latest) ==
    \E r \in latest : SqlEq(r.bk, v.bk) /\ r.hash # v.hash

(* Faulty: every version whose key comes again is closed.                  *)
Repeated(v, latest) == v.current /\ \E r \in latest : SqlEq(r.bk, v.bk)

(* Step 1: close the current versions whose content changed.               *)
Changed(v, latest) ==
    v.current /\ \E r \in latest : SqlEq(r.bk, v.bk) /\ r.hash # v.hash

CloseChanged(dim, latest, now) ==
    {IF Changed(v, latest) THEN Closed(v, now) ELSE v : v \in dim}

(* Step 2: close the current versions whose key disappeared.               *)
Absent(v, latest) == v.current /\ \A r \in latest : ~SqlEq(r.bk, v.bk)

CloseAbsent(dim, latest, now) ==
    {IF Absent(v, latest) THEN Closed(v, now) ELSE v : v \in dim}

(* Step 3: insert a version for every row that has no current one.         *)
Fresh(r, dim) == \A v \in dim : v.current => ~SqlEq(v.bk, r.bk)

InsertFresh(dim, latest, now) ==
    dim \cup {NewVersion(r, now) : r \in {x \in latest : Fresh(x, dim)}}

(* The three statements in their order.  closing: a full snapshot under    *)
(* the policy close_on_full_snapshot.                                      *)
SyncRows(dim, latest, closing, now) ==
    LET changed == CloseChanged(dim, latest, now)
        kept == IF closing THEN CloseAbsent(changed, latest, now) ELSE changed
    IN InsertFresh(kept, latest, now)

-----------------------------------------------------------------------------
(* What the dimension says.                                                *)

(* Rows or versions with a business key.  A NULL key equals no other, so   *)
(* that what is stored under it is never found, nor replaced, again.       *)
WithKey(rows) == {r \in rows : r.bk # Null}

(* At most one current version of a business key.                          *)
OneCurrent(dim) ==
    \A v, w \in Current(dim) : v.bk # Null /\ v.bk = w.bk => v = w

(* The business keys that are current, with their content.                 *)
View(dim) == {<<v.bk, v.hash>> : v \in Current(dim)}

(* The validity intervals of one key do not overlap and are not negative.  *)
Disjoint(v, w) ==
    \/ v.to # Null /\ v.to <= w.from
    \/ w.to # Null /\ w.to <= v.from

Timeline(dim) ==
    /\ \A v \in dim : v.to # Null => v.from < v.to
    /\ \A v, w \in dim : SqlEq(v.bk, w.bk) /\ v # w => Disjoint(v, w)

(* new is a later state of old: versions are only added and closed, and    *)
(* what is closed stays as it is.                                          *)
Extends(new, old) ==
    \A v \in old :
        \/ v \in new
        \/ v.current /\ \E w \in new : ~w.current /\ w = Closed(v, w.to)
=============================================================================
