----------------------------- MODULE Scd2_proofs -----------------------------
(***************************************************************************)
(* What the three SCD2 statements preserve, for any dimension and batch.   *)
(***************************************************************************)
EXTENDS Scd2, TLAPS

(* A version has exactly the columns NewVersion gives it.                  *)
IsVersion(v) ==
    v \in [bk : {v.bk}, hash : {v.hash}, from : {v.from}, to : {v.to},
           current : {v.current}]

AllVersions(dim) == \A v \in dim : IsVersion(v) /\ v.current \in BOOLEAN

(* Rows that DISTINCT ON has left: one per business key.                   *)
OnePerKey(rows) == \A p, q \in rows : p.bk = q.bk => p = q

LEMMA LatestIsOnePerKey ==
  ASSUME NEW rows, NEW L \in LatestSets(rows)
  PROVE  OnePerKey(L)
  <1> SUFFICES ASSUME NEW p \in L, NEW q \in L, p.bk = q.bk
               PROVE  p = q
    BY DEF OnePerKey
  <1>1. L \subseteq rows
    BY DEF LatestSets, LastPosition
  <1>2. PICK r \in L : r.bk = p.bk /\ \A x \in L : x.bk = p.bk => x = r
    BY <1>1 DEF LatestSets
  <1> QED
    BY <1>2

LEMMA ClosedVersion ==
  ASSUME NEW v, IsVersion(v), NEW now
  PROVE  /\ Closed(v, now).bk = v.bk
         /\ Closed(v, now).hash = v.hash
         /\ Closed(v, now).from = v.from
         /\ Closed(v, now).to = now
         /\ Closed(v, now).current = FALSE
         /\ IsVersion(Closed(v, now))
  BY DEF Closed, IsVersion

LEMMA NewVersionIsVersion ==
  ASSUME NEW r, NEW now
  PROVE  /\ IsVersion(NewVersion(r, now))
         /\ NewVersion(r, now).current = TRUE
         /\ NewVersion(r, now).bk = r.bk
  BY DEF NewVersion, IsVersion

(* Closing versions makes none current and changes no other.               *)
LEMMA CloseChangedShrinks ==
  ASSUME NEW dim, AllVersions(dim), NEW L, NEW now
  PROVE  /\ AllVersions(CloseChanged(dim, L, now))
         /\ Current(CloseChanged(dim, L, now)) \subseteq Current(dim)
         /\ Extends(CloseChanged(dim, L, now), dim)
  <1>1. ASSUME NEW w \in CloseChanged(dim, L, now)
        PROVE  /\ IsVersion(w) /\ w.current \in BOOLEAN
               /\ w.current => w \in dim
    <2>1. PICK v \in dim :
            w = IF Changed(v, L) THEN Closed(v, now) ELSE v
      BY <1>1 DEF CloseChanged
    <2> QED
      BY <2>1, ClosedVersion DEF AllVersions
  <1>2. ASSUME NEW v \in dim
        PROVE  \/ v \in CloseChanged(dim, L, now)
               \/ v.current /\ \E w \in CloseChanged(dim, L, now) :
                                 ~w.current /\ w = Closed(v, w.to)
    <2>1. CASE Changed(v, L)
      <3>1. Closed(v, now) \in CloseChanged(dim, L, now)
        BY <2>1 DEF CloseChanged
      <3>2. Closed(v, now).to = now /\ Closed(v, now).current = FALSE
        BY ClosedVersion DEF AllVersions
      <3>3. v.current
        BY <2>1 DEF Changed
      <3> QED
        BY <3>1, <3>2, <3>3
    <2>2. CASE ~Changed(v, L)
      BY <2>2 DEF CloseChanged
    <2> QED
      BY <2>1, <2>2
  <1> QED
    BY <1>1, <1>2 DEF AllVersions, Current, Extends

LEMMA CloseAbsentShrinks ==
  ASSUME NEW dim, AllVersions(dim), NEW L, NEW now
  PROVE  /\ AllVersions(CloseAbsent(dim, L, now))
         /\ Current(CloseAbsent(dim, L, now)) \subseteq Current(dim)
         /\ Extends(CloseAbsent(dim, L, now), dim)
  <1>1. ASSUME NEW w \in CloseAbsent(dim, L, now)
        PROVE  /\ IsVersion(w) /\ w.current \in BOOLEAN
               /\ w.current => w \in dim
    <2>1. PICK v \in dim :
            w = IF Absent(v, L) THEN Closed(v, now) ELSE v
      BY <1>1 DEF CloseAbsent
    <2> QED
      BY <2>1, ClosedVersion DEF AllVersions
  <1>2. ASSUME NEW v \in dim
        PROVE  \/ v \in CloseAbsent(dim, L, now)
               \/ v.current /\ \E w \in CloseAbsent(dim, L, now) :
                                 ~w.current /\ w = Closed(v, w.to)
    <2>1. CASE Absent(v, L)
      <3>1. Closed(v, now) \in CloseAbsent(dim, L, now)
        BY <2>1 DEF CloseAbsent
      <3>2. Closed(v, now).to = now /\ Closed(v, now).current = FALSE
        BY ClosedVersion DEF AllVersions
      <3>3. v.current
        BY <2>1 DEF Absent
      <3> QED
        BY <3>1, <3>2, <3>3
    <2>2. CASE ~Absent(v, L)
      BY <2>2 DEF CloseAbsent
    <2> QED
      BY <2>1, <2>2
  <1> QED
    BY <1>1, <1>2 DEF AllVersions, Current, Extends

(* A version is inserted only for a key without a current one, and DISTINCT *)
(* ON leaves one row per key.                                              *)
LEMMA InsertKeepsOneCurrent ==
  ASSUME NEW dim, AllVersions(dim), OneCurrent(dim), NEW L, OnePerKey(L),
         NEW now
  PROVE  /\ OneCurrent(InsertFresh(dim, L, now))
         /\ AllVersions(InsertFresh(dim, L, now))
  <1>1. ASSUME NEW w \in InsertFresh(dim, L, now)
        PROVE  \/ w \in dim
               \/ \E r \in L : Fresh(r, dim) /\ w = NewVersion(r, now)
    BY DEF InsertFresh
  <1>2. AllVersions(InsertFresh(dim, L, now))
    <2>1. ASSUME NEW w \in InsertFresh(dim, L, now)
          PROVE  IsVersion(w) /\ w.current \in BOOLEAN
      <3>1. CASE w \in dim
        BY <3>1 DEF AllVersions
      <3>2. CASE w \notin dim
        <4>1. PICK r \in L : w = NewVersion(r, now)
          BY <1>1, <3>2
        <4> QED
          BY <4>1, NewVersionIsVersion
      <3> QED
        BY <3>1, <3>2
    <2> QED
      BY <2>1 DEF AllVersions
  <1>3. ASSUME NEW v \in InsertFresh(dim, L, now),
               NEW w \in InsertFresh(dim, L, now),
               v.current, w.current, v.bk # Null, v.bk = w.bk
        PROVE  v = w
    <2>1. CASE v \in dim /\ w \in dim
      BY <1>3, <2>1 DEF OneCurrent, Current
    <2>2. ASSUME NEW p \in dim, p.current, NEW r \in L, Fresh(r, dim)
          PROVE  p.bk # NewVersion(r, now).bk \/ p.bk = Null
      BY <2>2, NewVersionIsVersion DEF Fresh, SqlEq
    <2>3. CASE v \notin dim /\ w \in dim
      BY <1>1, <1>3, <2>2, <2>3
    <2>4. CASE v \in dim /\ w \notin dim
      BY <1>1, <1>3, <2>2, <2>4
    <2>5. CASE v \notin dim /\ w \notin dim
      <3>1. PICK p \in L : v = NewVersion(p, now)
        BY <1>1, <2>5
      <3>2. PICK q \in L : w = NewVersion(q, now)
        BY <1>1, <2>5
      <3>3. p.bk = q.bk
        BY <1>3, <3>1, <3>2, NewVersionIsVersion
      <3> QED
        BY <3>1, <3>2, <3>3 DEF OnePerKey
    <2> QED
      BY <2>1, <2>3, <2>4, <2>5
  <1> QED
    BY <1>2, <1>3 DEF OneCurrent, Current

(* The current versions of a dimension shrank: no key got a second one.    *)
LEMMA ShrinkKeepsOneCurrent ==
  ASSUME NEW dim, OneCurrent(dim), NEW new, Current(new) \subseteq Current(dim)
  PROVE  OneCurrent(new)
  BY DEF OneCurrent

(* sync_from_staging on one table leaves at most one current version of    *)
(* each business key, in every mode and under every policy.                *)
THEOREM SyncKeepsOneCurrent ==
  ASSUME NEW dim, AllVersions(dim), OneCurrent(dim),
         NEW rows, NEW L \in LatestSets(rows), NEW closing \in BOOLEAN, NEW now
  PROVE  /\ OneCurrent(SyncRows(dim, L, closing, now))
         /\ AllVersions(SyncRows(dim, L, closing, now))
  <1> DEFINE changed == CloseChanged(dim, L, now)
             kept == IF closing THEN CloseAbsent(changed, L, now) ELSE changed
  <1>1. AllVersions(changed) /\ OneCurrent(changed)
    BY CloseChangedShrinks, ShrinkKeepsOneCurrent
  <1>2. AllVersions(kept) /\ OneCurrent(kept)
    <2>1. CASE closing
      BY <1>1, <2>1, CloseAbsentShrinks, ShrinkKeepsOneCurrent
    <2>2. CASE ~closing
      BY <1>1, <2>2
    <2> QED
      BY <2>1, <2>2
  <1>3. SyncRows(dim, L, closing, now) = InsertFresh(kept, L, now)
    BY DEF SyncRows
  <1> HIDE DEF changed, kept
  <1> QED
    BY <1>2, <1>3, LatestIsOnePerKey, InsertKeepsOneCurrent

(* History is only extended: closing twice in one synchronization closes   *)
(* each version once, because step 2 looks at current versions only.       *)
THEOREM SyncExtends ==
  ASSUME NEW dim, AllVersions(dim), NEW L, NEW closing \in BOOLEAN, NEW now
  PROVE  Extends(SyncRows(dim, L, closing, now), dim)
  <1> DEFINE changed == CloseChanged(dim, L, now)
             kept == IF closing THEN CloseAbsent(changed, L, now) ELSE changed
             new == SyncRows(dim, L, closing, now)
  <1>1. AllVersions(changed) /\ Extends(changed, dim)
    BY CloseChangedShrinks
  <1>2. Extends(kept, changed)
    <2>1. CASE closing
      BY <1>1, <2>1, CloseAbsentShrinks
    <2>2. CASE ~closing
      BY <2>2 DEF Extends
    <2> QED
      BY <2>1, <2>2
  <1>3. kept \subseteq new
    BY DEF SyncRows, InsertFresh
  <1> HIDE DEF changed, kept, new
  <1>4. ASSUME NEW v \in dim
        PROVE  \/ v \in new
               \/ v.current /\ \E w \in new : ~w.current /\ w = Closed(v, w.to)
    <2>1. CASE v \in changed
      BY <1>2, <1>3, <2>1 DEF Extends
    <2>2. CASE v \notin changed
      <3>1. PICK w \in changed : ~w.current /\ w = Closed(v, w.to)
        BY <1>1, <2>2 DEF Extends
      <3>2. w \in kept
        BY <1>2, <3>1 DEF Extends
      <3> QED
        BY <1>1, <1>3, <2>2, <3>1, <3>2 DEF Extends
    <2> QED
      BY <2>1, <2>2
  <1> QED
    BY <1>4 DEF Extends, new

-----------------------------------------------------------------------------
(* What the three statements do to the current rows.                       *)

Pairs(rows) == {<<r.bk, r.hash>> : r \in rows}

HaveKeys(rows) == \A r \in rows : r.bk # Null

(* Each of steps 1 and 2 leaves current what it does not close.            *)
LEMMA CurrentAfterChanged ==
  ASSUME NEW dim, AllVersions(dim), NEW L, NEW now
  PROVE  Current(CloseChanged(dim, L, now))
           = {v \in Current(dim) : ~Changed(v, L)}
  <1>1. ASSUME NEW w \in Current(CloseChanged(dim, L, now))
        PROVE  w \in Current(dim) /\ ~Changed(w, L)
    <2>1. PICK v \in dim :
            w = IF Changed(v, L) THEN Closed(v, now) ELSE v
      BY DEF Current, CloseChanged
    <2>2. ~Changed(v, L)
      BY <2>1, ClosedVersion DEF AllVersions, Current
    <2> QED
      BY <2>1, <2>2 DEF Current
  <1>2. ASSUME NEW v \in Current(dim), ~Changed(v, L)
        PROVE  v \in Current(CloseChanged(dim, L, now))
    BY <1>2 DEF Current, CloseChanged
  <1> QED
    BY <1>1, <1>2

LEMMA CurrentAfterAbsent ==
  ASSUME NEW dim, AllVersions(dim), NEW L, NEW now
  PROVE  Current(CloseAbsent(dim, L, now))
           = {v \in Current(dim) : ~Absent(v, L)}
  <1>1. ASSUME NEW w \in Current(CloseAbsent(dim, L, now))
        PROVE  w \in Current(dim) /\ ~Absent(w, L)
    <2>1. PICK v \in dim :
            w = IF Absent(v, L) THEN Closed(v, now) ELSE v
      BY DEF Current, CloseAbsent
    <2>2. ~Absent(v, L)
      BY <2>1, ClosedVersion DEF AllVersions, Current
    <2> QED
      BY <2>1, <2>2 DEF Current
  <1>2. ASSUME NEW v \in Current(dim), ~Absent(v, L)
        PROVE  v \in Current(CloseAbsent(dim, L, now))
    BY <1>2 DEF Current, CloseAbsent
  <1> QED
    BY <1>1, <1>2

(* Versions that neither changed nor, when closing, are absent; in whatever *)
(* order the two steps were taken.                                         *)
Kept(dim, L, closing) ==
    {v \in Current(dim) : /\ ~Changed(v, L)
                          /\ closing => ~Absent(v, L)}

(* The current rows after a synchronization: the batch, and unless it      *)
(* closes, the rows whose keys it lacks.                                   *)
Merged(view, L, closing) ==
    Pairs(L) \cup
    (IF closing THEN {}
     ELSE {x \in view : \A y \in Pairs(L) : x[1] # y[1]})

LEMMA ViewAfterInsert ==
  ASSUME NEW dim, AllVersions(dim), HaveKeys(dim), NEW L, HaveKeys(L),
         NEW closing \in BOOLEAN, NEW now,
         NEW kept, Current(kept) = Kept(dim, L, closing)
  PROVE  View(InsertFresh(kept, L, now)) = Merged(View(dim), L, closing)
  <1> DEFINE new == InsertFresh(kept, L, now)
             rest == IF closing THEN {}
                     ELSE {x \in View(dim) : \A y \in Pairs(L) : x[1] # y[1]}
  <1>1. new = kept \cup {NewVersion(r, now) : r \in {x \in L : Fresh(x, kept)}}
    BY DEF InsertFresh
  <1> HIDE DEF new
  <1>2. ASSUME NEW v \in Current(new)
        PROVE  <<v.bk, v.hash>> \in Pairs(L) \cup rest
    <2>1. CASE v \in kept
      <3>1. v \in Current(dim) /\ ~Changed(v, L) /\ (closing => ~Absent(v, L))
        BY <1>2, <2>1 DEF Current, Kept
      <3>2. CASE Absent(v, L)
        <4>1. \A r \in L : r.bk # v.bk
          BY <3>2 DEF Absent, SqlEq, HaveKeys
        <4>2. <<v.bk, v.hash>> \in View(dim)
          BY <3>1 DEF View
        <4> QED
          BY <3>1, <3>2, <4>1, <4>2 DEF Pairs
      <3>3. CASE ~Absent(v, L)
        <4>1. PICK r \in L : SqlEq(r.bk, v.bk)
          BY <3>1, <3>3 DEF Absent, Current
        <4>2. r.hash = v.hash /\ r.bk = v.bk
          BY <3>1, <4>1 DEF Changed, Current, SqlEq
        <4> QED
          BY <4>2 DEF Pairs
      <3> QED
        BY <3>2, <3>3
    <2>2. CASE v \notin kept
      <3>1. PICK r \in L : v = NewVersion(r, now)
        BY <1>1, <1>2, <2>2 DEF Current
      <3>2. v.bk = r.bk /\ v.hash = r.hash
        BY <3>1 DEF NewVersion
      <3> QED
        BY <3>2 DEF Pairs
    <2> QED
      BY <2>1, <2>2
  <1>3. ASSUME NEW r \in L
        PROVE  <<r.bk, r.hash>> \in View(new)
    <2>1. CASE Fresh(r, kept)
      <3>1. NewVersion(r, now) \in Current(new)
        BY <1>1, <2>1, NewVersionIsVersion DEF Current
      <3>2. NewVersion(r, now).bk = r.bk /\ NewVersion(r, now).hash = r.hash
        BY DEF NewVersion
      <3> QED
        BY <3>1, <3>2 DEF View
    <2>2. CASE ~Fresh(r, kept)
      <3>1. PICK v \in kept : v.current /\ SqlEq(v.bk, r.bk)
        BY <2>2 DEF Fresh
      <3>2. v \in Current(kept)
        BY <3>1 DEF Current
      <3>3. v \in Current(new)
        BY <1>1, <3>1 DEF Current
      <3>4. ~Changed(v, L)
        BY <3>2 DEF Kept
      <3>5. v.bk = r.bk /\ v.hash = r.hash
        BY <3>1, <3>4 DEF Changed, SqlEq, HaveKeys
      <3> QED
        BY <3>3, <3>5 DEF View
    <2> QED
      BY <2>1, <2>2
  <1>4. ASSUME NEW x \in rest
        PROVE  x \in View(new)
    <2>1. /\ ~closing
          /\ x \in View(dim)
          /\ \A y \in Pairs(L) : x[1] # y[1]
      BY <1>4
    <2>2. PICK v \in Current(dim) : x = <<v.bk, v.hash>>
      BY <2>1 DEF View
    <2>3. ASSUME NEW r \in L
          PROVE  r.bk # v.bk
      <3>1. <<r.bk, r.hash>> \in Pairs(L)
        BY DEF Pairs
      <3>2. x[1] # <<r.bk, r.hash>>[1]
        BY <2>1, <3>1
      <3> QED
        BY <2>2, <3>2
    <2>4. v \in Current(kept)
      BY <2>1, <2>3 DEF Kept, Changed, SqlEq
    <2>5. v \in Current(new)
      BY <1>1, <2>4 DEF Current
    <2> QED
      BY <2>2, <2>5 DEF View
  <1>5. View(new) = Pairs(L) \cup rest
    <2>1. View(new) \subseteq Pairs(L) \cup rest
      BY <1>2 DEF View
    <2>2. Pairs(L) \subseteq View(new)
      BY <1>3 DEF Pairs
    <2>3. rest \subseteq View(new)
      BY <1>4
    <2> QED
      BY <2>1, <2>2, <2>3
  <1> QED
    BY <1>5 DEF new, Merged

(* core.sync_from_staging on one table.                                    *)
THEOREM ViewAfterSync ==
  ASSUME NEW dim, AllVersions(dim), HaveKeys(dim),
         NEW L, HaveKeys(L), OnePerKey(L),
         NEW closing \in BOOLEAN, NEW now
  PROVE  View(SyncRows(dim, L, closing, now)) = Merged(View(dim), L, closing)
  <1> DEFINE changed == CloseChanged(dim, L, now)
             kept == IF closing THEN CloseAbsent(changed, L, now) ELSE changed
  <1>1. /\ AllVersions(changed)
        /\ Current(changed) = {v \in Current(dim) : ~Changed(v, L)}
    BY CloseChangedShrinks, CurrentAfterChanged
  <1> HIDE DEF changed
  <1>2. Current(kept) = Kept(dim, L, closing)
    BY <1>1, CurrentAfterAbsent DEF Kept
  <1>3. SyncRows(dim, L, closing, now) = InsertFresh(kept, L, now)
    BY DEF SyncRows, changed
  <1> HIDE DEF kept
  <1> QED
    BY <1>2, <1>3, ViewAfterInsert

-----------------------------------------------------------------------------
(* Steps 1 and 2 as one pass: a version that step 1 closed is not current  *)
(* any more when step 2 looks for absent keys.                             *)
Renewed(v, L, closing, now) ==
    IF Changed(v, L) \/ (closing /\ Absent(v, L)) THEN Closed(v, now) ELSE v

LEMMA RenewedVersion ==
  ASSUME NEW v, IsVersion(v), NEW L, NEW closing, NEW now
  PROVE  /\ Renewed(v, L, closing, now).bk = v.bk
         /\ Renewed(v, L, closing, now).hash = v.hash
         /\ Renewed(v, L, closing, now).from = v.from
  BY ClosedVersion DEF Renewed

LEMMA SyncInOnePass ==
  ASSUME NEW dim, AllVersions(dim), NEW L, NEW closing \in BOOLEAN, NEW now,
         NEW w \in SyncRows(dim, L, closing, now)
  PROVE  \/ \E v \in dim : w = Renewed(v, L, closing, now)
         \/ \E r \in L : w = NewVersion(r, now)
  <1> DEFINE changed == CloseChanged(dim, L, now)
             kept == IF closing THEN CloseAbsent(changed, L, now) ELSE changed
  <1>1. ASSUME NEW x \in changed
        PROVE  \E v \in dim :
                 /\ x = IF Changed(v, L) THEN Closed(v, now) ELSE v
                 /\ Changed(v, L) => x.current = FALSE
    <2>1. PICK v \in dim : x = IF Changed(v, L) THEN Closed(v, now) ELSE v
      BY DEF CloseChanged
    <2>2. IsVersion(v)
      BY DEF AllVersions
    <2> QED
      BY <2>1, <2>2, ClosedVersion
  <1>2. w \in kept \/ \E r \in L : w = NewVersion(r, now)
    BY DEF SyncRows, InsertFresh
  <1>3. CASE w \in kept /\ closing
    <2>1. PICK x \in changed : w = IF Absent(x, L) THEN Closed(x, now) ELSE x
      BY <1>3 DEF CloseAbsent
    <2>2. PICK v \in dim : /\ x = IF Changed(v, L) THEN Closed(v, now) ELSE v
                           /\ Changed(v, L) => x.current = FALSE
      BY <1>1
    <2>3. Changed(v, L) => ~Absent(x, L)
      BY <2>2 DEF Absent
    <2>4. w = Renewed(v, L, closing, now)
      BY <1>3, <2>1, <2>2, <2>3 DEF Renewed
    <2> QED
      BY <2>4
  <1>4. CASE w \in kept /\ ~closing
    BY <1>1, <1>4 DEF Renewed
  <1> QED
    BY <1>2, <1>3, <1>4

(* No statement makes a key NULL.                                          *)
-----------------------------------------------------------------------------
(* The times of a dimension whose last transaction was at time.            *)
Stamped(dim, time) ==
    \A v \in dim :
        /\ v.from \in Nat \ {0} /\ v.from <= time
        /\ v.to # Null => v.to \in Nat /\ v.from < v.to /\ v.to <= time
        /\ v.current <=> v.to = Null

LEMMA SyncStamps ==
  ASSUME NEW dim, AllVersions(dim), NEW time \in Nat, Stamped(dim, time),
         NEW L, NEW closing \in BOOLEAN, NEW now \in Nat, time < now
  PROVE  Stamped(SyncRows(dim, L, closing, now), now)
  <1> SUFFICES ASSUME NEW w \in SyncRows(dim, L, closing, now)
               PROVE  /\ w.from \in Nat \ {0} /\ w.from <= now
                      /\ w.to # Null => /\ w.to \in Nat
                                        /\ w.from < w.to /\ w.to <= now
                      /\ w.current <=> w.to = Null
    BY DEF Stamped
  <1>1. CASE \E v \in dim : w = Renewed(v, L, closing, now)
    <2>1. PICK v \in dim : w = Renewed(v, L, closing, now)
      BY <1>1
    <2>2. IsVersion(v) /\ v.from \in Nat \ {0} /\ v.from <= time
      BY DEF AllVersions, Stamped
    <2>3. CASE w = v
      BY <2>2, <2>3 DEF Stamped
    <2>4. CASE w # v
      <3>1. w.from = v.from /\ w.to = now /\ w.current = FALSE
        <4>1. w = Closed(v, now)
          BY <2>1, <2>4 DEF Renewed
        <4> QED
          BY <2>2, <4>1, ClosedVersion
      <3> QED
        BY <2>2, <3>1, NullAssumption
    <2> QED
      BY <2>3, <2>4
  <1>2. CASE \E r \in L : w = NewVersion(r, now)
    <2>1. w.from = now /\ w.to = Null /\ w.current = TRUE
      BY <1>2 DEF NewVersion
    <2> QED
      BY <2>1
  <1> QED
    BY <1>1, <1>2, SyncInOnePass

(* sync_from_staging on one table at a time after all it finds there: the  *)
(* intervals of a key stay apart.  A version is closed at a time at which  *)
(* its key has at most one version inserted, the one that replaces it.     *)
THEOREM SyncKeepsTimeline ==
  ASSUME NEW dim, AllVersions(dim), OneCurrent(dim),
         NEW time \in Nat, Stamped(dim, time), Timeline(dim),
         NEW rows, NEW L \in LatestSets(rows),
         NEW closing \in BOOLEAN, NEW now \in Nat, time < now
  PROVE  Timeline(SyncRows(dim, L, closing, now))
  <1> DEFINE new == SyncRows(dim, L, closing, now)
  <1>1. Stamped(new, now) /\ OneCurrent(new)
    BY SyncStamps, SyncKeepsOneCurrent
  <1>2. ASSUME NEW w \in new
        PROVE  \/ \E v \in dim : w = Renewed(v, L, closing, now)
               \/ w.from = now /\ w.current = TRUE
    BY SyncInOnePass DEF NewVersion
  <1> HIDE DEF new
  <1>3. \A v \in new : v.to # Null => v.from < v.to
    BY <1>1 DEF Stamped
  <1>4. ASSUME NEW v \in new, NEW w \in new, SqlEq(v.bk, w.bk), v # w
        PROVE  Disjoint(v, w)
    <2>1. ~(v.current /\ w.current)
      BY <1>1, <1>4 DEF OneCurrent, Current, SqlEq
    <2>2. CASE w.from = now /\ w.current = TRUE
      BY <1>1, <2>1, <2>2 DEF Stamped, Disjoint
    <2>3. CASE v.from = now /\ v.current = TRUE
      BY <1>1, <2>1, <2>3 DEF Stamped, Disjoint
    <2>4. ASSUME NEW p \in dim, v = Renewed(p, L, closing, now),
                 NEW q \in dim, w = Renewed(q, L, closing, now)
          PROVE  Disjoint(v, w)
      <3>1. /\ v.bk = p.bk /\ v.from = p.from /\ (p.current \/ v = p)
            /\ w.bk = q.bk /\ w.from = q.from /\ (q.current \/ w = q)
        <4>1. ASSUME NEW u \in dim
              PROVE  /\ Renewed(u, L, closing, now).bk = u.bk
                     /\ Renewed(u, L, closing, now).from = u.from
                     /\ \/ Renewed(u, L, closing, now) = u
                        \/ u.current
          <5>1. IsVersion(u)
            BY DEF AllVersions
          <5>2. Renewed(u, L, closing, now) = u \/ u.current
            BY DEF Renewed, Changed, Absent
          <5> QED
            BY <5>1, <5>2, RenewedVersion
        <4> QED
          BY <2>4, <4>1
      <3>2. p # q
        BY <1>4, <2>4
      <3>3. Disjoint(p, q)
        BY <1>4, <3>1, <3>2 DEF Timeline, SqlEq
      <3> QED
        BY <3>1, <3>3 DEF Disjoint, Stamped
    <2> QED
      BY <1>2, <2>2, <2>3, <2>4
  <1> QED
    BY <1>3, <1>4 DEF Timeline, new

-----------------------------------------------------------------------------
(* Rows and versions without a key take no part: what the statements do to *)
(* the others is what they would do if only these were there.              *)
LEMMA WithKeyFacts ==
  ASSUME NEW dim, AllVersions(dim), NEW rows
  PROVE  /\ AllVersions(WithKey(dim)) /\ HaveKeys(WithKey(dim))
         /\ OneCurrent(dim) => OneCurrent(WithKey(dim))
         /\ HaveKeys(WithKey(rows))
         /\ LastPosition(WithKey(rows)) = WithKey(LastPosition(rows))
  BY DEF WithKey, AllVersions, HaveKeys, OneCurrent, Current, LastPosition

LEMMA LatestWithKey ==
  ASSUME NEW rows, NEW L \in LatestSets(rows)
  PROVE  WithKey(L) \in LatestSets(WithKey(rows))
  <1>1. L \subseteq LastPosition(rows)
    BY DEF LatestSets
  <1>2. WithKey(L) \subseteq LastPosition(WithKey(rows))
    BY <1>1 DEF WithKey, LastPosition
  <1>3. ASSUME NEW r \in WithKey(rows)
        PROVE  \E q \in WithKey(L) :
                 q.bk = r.bk /\ \A p \in WithKey(L) : p.bk = r.bk => p = q
    BY DEF WithKey, LatestSets
  <1> QED
    BY <1>2, <1>3 DEF LatestSets

LEMMA CloseWithKey ==
  ASSUME NEW dim, AllVersions(dim), NEW L, NEW now
  PROVE  /\ WithKey(CloseChanged(dim, L, now))
              = CloseChanged(WithKey(dim), WithKey(L), now)
         /\ WithKey(CloseAbsent(dim, L, now))
              = CloseAbsent(WithKey(dim), WithKey(L), now)
  <1>1. ASSUME NEW v \in dim
        PROVE  /\ Changed(v, L) <=> Changed(v, WithKey(L))
               /\ Absent(v, L) <=> Absent(v, WithKey(L))
               /\ Closed(v, now).bk = v.bk
    BY ClosedVersion DEF Changed, Absent, SqlEq, WithKey, AllVersions
  <1> QED
    BY <1>1 DEF CloseChanged, CloseAbsent, WithKey

LEMMA InsertWithKey ==
  ASSUME NEW dim, NEW L, NEW now
  PROVE  WithKey(InsertFresh(dim, L, now))
           = InsertFresh(WithKey(dim), WithKey(L), now)
  <1>1. ASSUME NEW r \in WithKey(L)
        PROVE  Fresh(r, dim) <=> Fresh(r, WithKey(dim))
    BY DEF Fresh, SqlEq, WithKey
  <1>2. \A r : NewVersion(r, now).bk = r.bk
    BY NewVersionIsVersion
  <1> QED
    BY <1>1, <1>2 DEF InsertFresh, WithKey

LEMMA SyncWithKey ==
  ASSUME NEW dim, AllVersions(dim), NEW L, NEW closing \in BOOLEAN, NEW now
  PROVE  WithKey(SyncRows(dim, L, closing, now))
           = SyncRows(WithKey(dim), WithKey(L), closing, now)
  <1> DEFINE changed == CloseChanged(dim, L, now)
             kept == IF closing THEN CloseAbsent(changed, L, now) ELSE changed
             seen == CloseChanged(WithKey(dim), WithKey(L), now)
             left == IF closing THEN CloseAbsent(seen, WithKey(L), now)
                     ELSE seen
  <1>1. AllVersions(changed) /\ WithKey(changed) = seen
    BY CloseChangedShrinks, CloseWithKey
  <1> HIDE DEF changed, seen
  <1>2. WithKey(kept) = left
    BY <1>1, CloseWithKey
  <1>3. WithKey(InsertFresh(kept, L, now)) = InsertFresh(left, WithKey(L), now)
    BY <1>2, InsertWithKey
  <1> QED
    BY <1>3 DEF SyncRows, changed, seen
=============================================================================
