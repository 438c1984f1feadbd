-------------------------- MODULE Publication_proofs --------------------------
(***************************************************************************)
(* Overlapping runs, for every number of sources, users and departments:   *)
(* what the locks of the two foreign schemas are enough for.               *)
(***************************************************************************)
EXTENDS Publication, Scd2_proofs

Keys(t) == IF t = "user" THEN Users ELSE Departments

Contents(t) == IF t = "user" THEN Departments \cup {Nowhere} ELSE Names

LEMMA DimsByTable ==
  ASSUME NEW d
  PROVE  d \in Dims <=> /\ d = [t \in Tables |-> d[t]]
                        /\ \A t \in Tables :
                             d[t] \subseteq Version(Keys(t), Contents(t))
  BY DEF Dims, Tables, Keys, Contents

LEMMA SessionShape ==
  ASSUME NEW x \in Session
  PROVE  /\ x.pc = "coreBegun" =>
              x.now \in 1..MaxBegins /\ x.closing \in BOOLEAN
         /\ x.pc = "coreSyncing" =>
              /\ x.now \in 1..MaxBegins /\ x.closing \in BOOLEAN
              /\ x.seen \in UserTables /\ x.seenAt \in 0..MaxChanges
              /\ x.closes \in Dims /\ x.adds \in Dims
         /\ x.pc = "coreDone" => x.batch \in Versions
         /\ x.pc = "martRefreshing" =>
              x.batch \in Versions /\ x.snapshot \in Shown
  BY DEF Session, Idle

-----------------------------------------------------------------------------
(* One table of the users database and its dimension.                      *)

(* A dimension as TypeOK has it.                                           *)
Dim(versions, t) ==
    /\ versions \subseteq Version(Keys(t), Contents(t))
    /\ \A v \in versions : v.current = (v.to = Null)

LEMMA DimHasVersions ==
  ASSUME NEW t \in Tables, NEW versions, Dim(versions, t)
  PROVE  AllVersions(versions) /\ HaveKeys(versions)
  <1>1. ASSUME NEW v \in versions
        PROVE  IsVersion(v) /\ v.current \in BOOLEAN /\ v.bk # Null
    <2>1. v \in Version(Keys(t), Contents(t))
      BY DEF Dim
    <2>2. v.bk \in Keys(t) /\ v.current \in BOOLEAN
      BY <2>1 DEF Version
    <2>3. IsVersion(v)
      BY <2>1 DEF Version, IsVersion
    <2> QED
      BY <2>2, <2>3, PublicationAssumption DEF Keys
  <1> QED
    BY <1>1 DEF AllVersions, HaveKeys

LEMMA RowsOfTable ==
  ASSUME NEW t \in Tables, NEW db \in UserTables
  PROVE  /\ OnePerKey(UserRows(db[t]))
         /\ HaveKeys(UserRows(db[t]))
         /\ \A r \in UserRows(db[t]) :
              r.bk \in Keys(t) /\ r.hash \in Contents(t)
         /\ \A r \in UserRows(db[t]) : db[t][r.bk] = r.hash /\ r.hash # Null
         /\ \A k \in Keys(t) : db[t][k] # Null =>
              \E r \in UserRows(db[t]) : r.bk = k /\ r.hash = db[t][k]
  <1>1. db[t] \in [Keys(t) -> Contents(t) \cup {Null}]
    BY DEF UserTables, Tables, Keys, Contents
  <1>2. \A r \in UserRows(db[t]) :
          \E k \in Keys(t) : /\ db[t][k] # Null
                             /\ r = [bk |-> k, hash |-> db[t][k], index |-> 0]
    BY <1>1 DEF UserRows
  <1>3. \A r \in UserRows(db[t]) :
          /\ r.bk \in Keys(t) /\ r.hash \in Contents(t)
          /\ db[t][r.bk] = r.hash /\ r.hash # Null
          /\ r = [bk |-> r.bk, hash |-> db[t][r.bk], index |-> 0]
    BY <1>1, <1>2
  <1>4. ASSUME NEW k \in Keys(t), db[t][k] # Null
        PROVE  \E r \in UserRows(db[t]) : r.bk = k /\ r.hash = db[t][k]
    <2>1. [bk |-> k, hash |-> db[t][k], index |-> 0] \in UserRows(db[t])
      BY <1>1, <1>4 DEF UserRows
    <2> QED
      BY <2>1
  <1>5. OnePerKey(UserRows(db[t]))
    BY <1>3 DEF OnePerKey
  <1>6. HaveKeys(UserRows(db[t]))
    BY <1>3, PublicationAssumption DEF HaveKeys, Keys
  <1> QED
    BY <1>3, <1>4, <1>5, <1>6

(* Closing and inserting versions.                                         *)
LEMMA ClosedIsTyped ==
  ASSUME NEW t \in Tables, NEW versions, Dim(versions, t),
         NEW now \in 1..MaxBegins, NEW new,
         \A w \in new : \E v \in versions : w = v \/ w = Closed(v, now)
  PROVE  Dim(new, t)
  <1>1. Null \notin 1..MaxBegins
    BY PublicationAssumption
  <1>2. ASSUME NEW w \in new
        PROVE  /\ w \in Version(Keys(t), Contents(t))
               /\ w.current = (w.to = Null)
    <2>1. PICK v \in versions : w = v \/ w = Closed(v, now)
      BY <1>2
    <2>2. /\ v \in Version(Keys(t), Contents(t))
          /\ v.current = (v.to = Null)
      BY DEF Dim
    <2>3. CASE w = v
      BY <2>2, <2>3
    <2>4. CASE w = Closed(v, now)
      <3>1. w = [v EXCEPT !.to = now, !.current = FALSE]
        BY <2>4 DEF Closed
      <3>2. w \in Version(Keys(t), Contents(t))
        BY <2>2, <3>1 DEF Version
      <3>3. w.to = now /\ w.current = FALSE
        BY <2>2, <3>1 DEF Version
      <3> QED
        BY <1>1, <3>2, <3>3
    <2> QED
      BY <2>1, <2>3, <2>4
  <1> QED
    BY <1>2 DEF Dim

LEMMA InsertIsTyped ==
  ASSUME NEW t \in Tables, NEW versions, Dim(versions, t),
         NEW now \in 1..MaxBegins, NEW db \in UserTables
  PROVE  Dim(InsertFresh(versions, UserRows(db[t]), now), t)
  <1>1. ASSUME NEW r \in UserRows(db[t])
        PROVE  /\ NewVersion(r, now) \in Version(Keys(t), Contents(t))
               /\ NewVersion(r, now).current = (NewVersion(r, now).to = Null)
    <2>1. r.bk \in Keys(t) /\ r.hash \in Contents(t)
      BY RowsOfTable
    <2> QED
      BY <2>1 DEF NewVersion, Version
  <1> QED
    BY <1>1 DEF InsertFresh, Dim

(* Everything a synchronization of one table does to its dimension.        *)
LEMMA SyncUsersKeeps ==
  ASSUME NEW t \in Tables, NEW versions, Dim(versions, t),
         OneCurrent(versions), NEW now \in 1..MaxBegins,
         NEW db \in UserTables, NEW closing \in BOOLEAN
  PROVE  LET rows == UserRows(db[t])
             new == SyncUsers(versions, rows, closing, now)
         IN  /\ Dim(new, t)
             /\ OneCurrent(new)
             /\ View(new) = Merged(View(versions), rows, closing)
  <1> DEFINE rows == UserRows(db[t])
             kept == IF closing THEN CloseAbsent(versions, rows, now)
                     ELSE versions
             changed == CloseChanged(kept, rows, now)
  <1>1. AllVersions(versions) /\ HaveKeys(versions)
    BY DimHasVersions
  <1>2. OnePerKey(rows) /\ HaveKeys(rows)
    BY RowsOfTable
  <1>3. /\ Dim(kept, t) /\ AllVersions(kept) /\ OneCurrent(kept)
        /\ Current(kept) = {v \in Current(versions) :
                              closing => ~Absent(v, rows)}
    <2>1. CASE closing
      <3>1. kept = CloseAbsent(versions, rows, now)
        BY <2>1
      <3>2. \A w \in kept : \E v \in versions : w = v \/ w = Closed(v, now)
        BY <3>1 DEF CloseAbsent
      <3>3. Dim(kept, t)
        BY <3>2, ClosedIsTyped
      <3>4. AllVersions(kept) /\ OneCurrent(kept)
        BY <1>1, <3>1, CloseAbsentShrinks, ShrinkKeepsOneCurrent
      <3>5. Current(kept) = {v \in Current(versions) : ~Absent(v, rows)}
        BY <1>1, <3>1, CurrentAfterAbsent
      <3> QED
        BY <2>1, <3>3, <3>4, <3>5
    <2>2. CASE ~closing
      BY <1>1, <2>2
    <2> QED
      BY <2>1, <2>2
  <1> HIDE DEF kept, rows
  <1>4. /\ Dim(changed, t) /\ AllVersions(changed) /\ OneCurrent(changed)
        /\ Current(changed) = {v \in Current(kept) : ~Changed(v, rows)}
    <2>1. \A w \in changed : \E v \in kept : w = v \/ w = Closed(v, now)
      BY DEF CloseChanged
    <2>2. Dim(changed, t)
      BY <1>3, <2>1, ClosedIsTyped
    <2> QED
      BY <1>3, <2>2, CloseChangedShrinks, ShrinkKeepsOneCurrent,
         CurrentAfterChanged
  <1> HIDE DEF changed
  <1>5. Current(changed) = Kept(versions, rows, closing)
    BY <1>3, <1>4 DEF Kept
  <1>6. SyncUsers(versions, rows, closing, now)
          = InsertFresh(changed, rows, now)
    BY DEF SyncUsers, changed, kept
  <1>7. View(InsertFresh(changed, rows, now))
          = Merged(View(versions), rows, closing)
    BY <1>1, <1>2, <1>5, ViewAfterInsert
  <1>8. OneCurrent(InsertFresh(changed, rows, now))
    BY <1>2, <1>4, InsertKeepsOneCurrent
  <1>9. Dim(InsertFresh(changed, rows, now), t)
    BY <1>4, InsertIsTyped DEF rows
  <1> QED
    BY <1>6, <1>7, <1>8, <1>9 DEF rows

-----------------------------------------------------------------------------
(* The inductive invariant of Core.  A transaction that holds the lock has *)
(* prepared a synchronization of the dimensions as they still are, with    *)
(* one snapshot of the users database that is not older than theirs.       *)
Prepared(x) ==
    /\ ReferencesHold(x.seen)
    /\ asOf <= x.seenAt /\ x.seenAt <= changes
    /\ \A t \in Tables :
         (dim[t] \ x.closes[t]) \cup x.adds[t]
           = SyncUsers(dim[t], UserRows(x.seen[t]), x.closing, x.now)

DimsTyped == \A t \in Tables : Dim(dim[t], t)

(* A source commits no more batches than it begins transactions.           *)
Counted ==
    \A s \in Sources :
        /\ coreData[s] <= clock
        /\ session[s].pc \in {"coreBegun", "coreSyncing"} =>
             coreData[s] < session[s].now /\ session[s].now <= clock

CoreInv ==
    /\ TypeOK
    /\ Counted
    /\ ReferencesHold(userDb)
    /\ asOf <= changes
    /\ OneCurrentEach
    /\ Referring(CurrentRows)
    /\ \A s \in Sources :
         At(s, "coreSyncing") => coreLock = s /\ Prepared(session[s])

LEMMA TypedDims == TypeOK => DimsTyped
  BY DimsByTable DEF TypeOK, DimsTyped, Dim

LEMMA Bounds ==
  /\ MaxBegins \in Nat /\ MaxChanges \in Nat
  /\ Null \notin Sources
  BY PublicationAssumption

(* The departments of users stay together: both tables are merged with one *)
(* consistent snapshot, and both are closed or neither.                    *)
LEMMA MergeKeepsDepartments ==
  ASSUME NEW db \in UserTables, ReferencesHold(db), NEW closing \in BOOLEAN,
         NEW old, Referring(old), NEW new,
         \A t \in Tables : new[t] = Merged(old[t], UserRows(db[t]), closing)
  PROVE  Referring(new)
  <1> SUFFICES ASSUME NEW user \in new.user, user[2] \in Departments
               PROVE  \E department \in new.department :
                        department[1] = user[2]
    BY DEF Referring
  <1>1. "user" \in Tables /\ "department" \in Tables
    BY DEF Tables
  <1>2. /\ new.user = Merged(old.user, UserRows(db.user), closing)
        /\ new.department
             = Merged(old.department, UserRows(db.department), closing)
    BY <1>1
  <1>3. ASSUME db.department[user[2]] # Null
        PROVE  \E department \in new.department : department[1] = user[2]
    <2>1. user[2] \in Keys("department")
      BY DEF Keys
    <2>2. PICK r \in UserRows(db.department) : r.bk = user[2]
      BY <1>1, <1>3, <2>1, RowsOfTable
    <2>3. <<r.bk, r.hash>> \in new.department
      BY <1>2 DEF Merged, Pairs
    <2> QED
      BY <2>2, <2>3
  <1>4. CASE user \in Pairs(UserRows(db.user))
    <2>1. PICK r \in UserRows(db.user) : user = <<r.bk, r.hash>>
      BY <1>4 DEF Pairs
    <2>2. r.bk \in Users /\ db.user[r.bk] = user[2]
      BY <1>1, <2>1, RowsOfTable DEF Keys
    <2>3. db.department[user[2]] # Null
      BY <2>2 DEF ReferencesHold
    <2> QED
      BY <1>3, <2>3
  <1>5. CASE user \notin Pairs(UserRows(db.user))
    <2>1. ~closing /\ user \in old.user
      BY <1>2, <1>5 DEF Merged
    <2>2. PICK department \in old.department : department[1] = user[2]
      BY <2>1 DEF Referring
    <2>3. CASE db.department[user[2]] # Null
      BY <1>3, <2>3
    <2>4. CASE db.department[user[2]] = Null
      <3>1. ASSUME NEW r \in UserRows(db.department)
            PROVE  r.bk # user[2]
        BY <1>1, <2>4, RowsOfTable
      <3>2. \A y \in Pairs(UserRows(db.department)) : department[1] # y[1]
        BY <2>2, <3>1 DEF Pairs
      <3>3. department \in new.department
        BY <1>2, <2>1, <3>2 DEF Merged
      <3> QED
        BY <2>2, <3>3
    <2> QED
      BY <2>3, <2>4
  <1> QED
    BY <1>4, <1>5

-----------------------------------------------------------------------------
(* Types.                                                                  *)

LEMMA ViewIsTyped ==
  ASSUME NEW d \in Dims
  PROVE  [t \in Tables |-> View(d[t])] \in
           [department : SUBSET (Departments \X Names),
            user : SUBSET (Users \X (Departments \cup {Nowhere}))]
  <1>1. /\ d.department \subseteq Version(Departments, Names)
        /\ d.user \subseteq Version(Users, Departments \cup {Nowhere})
    BY DEF Dims
  <1>2. View(d.department) \subseteq Departments \X Names
    BY <1>1 DEF View, Current, Version
  <1>3. View(d.user) \subseteq Users \X (Departments \cup {Nowhere})
    BY <1>1 DEF View, Current, Version
  <1> QED
    BY <1>2, <1>3 DEF Tables

(* What a transaction holds when it has got the lock.                      *)
LEMMA SyncingIsPrepared ==
  ASSUME CoreInv, NEW s \in Sources, At(s, "coreBegun"), session[s] \in Session
  PROVE  /\ Syncing(s) \in Session
         /\ Syncing(s).pc = "coreSyncing"
         /\ Prepared(Syncing(s))
  <1> DEFINE x == session[s]
             new == SyncBoth(x.closing, x.now)
             y == Syncing(s)
  <1>1. x.now \in 1..MaxBegins /\ x.closing \in BOOLEAN
    BY SessionShape DEF At
  <1>2. /\ y.pc = "coreSyncing" /\ y.now = x.now /\ y.closing = x.closing
        /\ y.seen = userDb /\ y.seenAt = changes
        /\ \A t \in Tables : /\ y.closes[t] = dim[t] \ new[t]
                             /\ y.adds[t] = new[t] \ dim[t]
    BY DEF Syncing
  <1>3. TypeOK /\ DimsTyped
    BY TypedDims DEF CoreInv
  <1>4. ASSUME NEW t \in Tables
        PROVE  /\ new[t] = SyncUsers(dim[t], UserRows(userDb[t]), x.closing,
                                     x.now)
               /\ Dim(dim[t], t)
               /\ Dim(new[t], t)
    <2>1. new[t] = SyncUsers(dim[t], UserRows(userDb[t]), x.closing, x.now)
      BY DEF SyncBoth
    <2>2. Dim(dim[t], t) /\ OneCurrent(dim[t]) /\ userDb \in UserTables
      BY <1>3 DEF DimsTyped, CoreInv, OneCurrentEach, TypeOK
    <2> QED
      BY <1>1, <2>1, <2>2, SyncUsersKeeps
  <1> HIDE DEF new
  <1>5. Syncing(s) \in Session
    <2> DEFINE closes == [t \in Tables |-> dim[t] \ new[t]]
               adds == [t \in Tables |-> new[t] \ dim[t]]
    <2>1. closes \in Dims /\ adds \in Dims
      BY <1>4, DimsByTable DEF Dim
    <2>2. y = [pc |-> "coreSyncing", now |-> x.now, closing |-> x.closing,
               seen |-> userDb, seenAt |-> changes,
               closes |-> closes, adds |-> adds]
      BY DEF Syncing, new
    <2>3. userDb \in UserTables /\ changes \in 0..MaxChanges
      BY <1>3 DEF TypeOK
    <2> HIDE DEF closes, adds
    <2> QED
      BY <1>1, <2>1, <2>2, <2>3 DEF Session
  <1>6. Prepared(y)
    <2>1. /\ ReferencesHold(y.seen)
          /\ asOf <= y.seenAt /\ y.seenAt <= changes
      BY <1>2, <1>3, Bounds DEF CoreInv, TypeOK
    <2>2. ASSUME NEW t \in Tables
          PROVE  (dim[t] \ y.closes[t]) \cup y.adds[t]
                   = SyncUsers(dim[t], UserRows(y.seen[t]), y.closing, y.now)
      BY <1>2, <1>4
    <2> QED
      BY <2>1, <2>2 DEF Prepared
  <1> QED
    BY <1>2, <1>5, <1>6

LEMMA TypeInit == Init => TypeOK
  <1> SUFFICES ASSUME Init
               PROVE  TypeOK
    OBVIOUS
  <1>1. dim \in Dims /\ \A t \in Tables : dim[t] = {}
    BY DimsByTable DEF Init, Empty
  <1>2. mart \in Shown
    BY Bounds DEF Init, Empty, Shown, Tables, Versions
  <1>3. session \in [Sources -> Session]
    BY DEF Init, Session
  <1> QED
    BY <1>1, <1>2, <1>3, Bounds DEF Init, TypeOK, Versions

LEMMA TypeNext == CoreInv /\ [Next]_vars => TypeOK'
  <1> SUFFICES ASSUME CoreInv, [Next]_vars
               PROVE  TypeOK'
    OBVIOUS
  <1>0. TypeOK /\ DimsTyped
    BY TypedDims DEF CoreInv
  <1>1. ASSUME NEW t \in Tables, NEW k \in Keys(t),
               NEW content \in Contents(t) \cup {Null},
               UserChanges(t, k, content)
        PROVE  TypeOK'
    <2>1. userDb' \in UserTables
      BY <1>0, <1>1 DEF UserChanges, TypeOK, UserTables, Tables, Keys, Contents
    <2>2. changes' \in 0..MaxChanges
      BY <1>0, <1>1, Bounds DEF UserChanges, TypeOK
    <2> QED
      BY <1>0, <1>1, <2>1, <2>2 DEF UserChanges, TypeOK
  <1>2. ASSUME NEW s \in Sources, NEW closing \in BOOLEAN,
               CoreBegin(s, closing)
        PROVE  TypeOK'
    <2>1. clock' \in 1..MaxBegins
      BY <1>0, <1>2, Bounds DEF CoreBegin, TypeOK
    <2>2. [pc |-> "coreBegun", now |-> clock', closing |-> closing] \in Session
      BY <2>1 DEF Session
    <2>3. session' \in [Sources -> Session]
      BY <1>0, <1>2, <2>2 DEF CoreBegin, TypeOK
    <2>4. clock' \in 0..MaxBegins
      BY <2>1, Bounds
    <2> QED
      BY <1>0, <1>2, <2>3, <2>4 DEF CoreBegin, TypeOK
  <1>3. ASSUME NEW s \in Sources, CoreLocks(s)
        PROVE  TypeOK'
    <2>1. Syncing(s) \in Session
      BY <1>0, <1>3, SyncingIsPrepared DEF CoreLocks, TypeOK
    <2> QED
      BY <1>0, <1>3, <2>1 DEF CoreLocks, TypeOK
  <1>4. ASSUME NEW s \in Sources, CoreCommit(s)
        PROVE  TypeOK'
    <2> DEFINE x == session[s]
    <2>1. x \in Session /\ At(s, "coreSyncing") /\ Prepared(x)
      BY <1>0, <1>4 DEF CoreCommit, CoreInv, TypeOK
    <2>2. /\ x.now \in 1..MaxBegins /\ x.closing \in BOOLEAN
          /\ x.seen \in UserTables /\ x.seenAt \in 0..MaxChanges
      BY <2>1, SessionShape DEF At
    <2>3. ASSUME NEW t \in Tables
          PROVE  Dim(dim'[t], t)
      <3>1. dim'[t] = SyncUsers(dim[t], UserRows(x.seen[t]), x.closing, x.now)
        BY <1>4, <2>1 DEF CoreCommit, Prepared
      <3>2. Dim(dim[t], t) /\ OneCurrent(dim[t])
        BY <1>0 DEF DimsTyped, CoreInv, OneCurrentEach
      <3> QED
        BY <2>2, <3>1, <3>2, SyncUsersKeeps
    <2>4. dim' \in Dims
      BY <1>4, <2>3, DimsByTable DEF CoreCommit, Dim
    <2>5. coreData[s] + 1 \in Versions
      <3>1. coreData[s] < x.now /\ coreData[s] \in 0..MaxBegins
        BY <1>0, <2>1 DEF CoreInv, Counted, At, TypeOK, Versions
      <3> QED
        BY <2>2, <3>1, Bounds DEF Versions
    <2>6. coreData' \in [Sources -> Versions]
      BY <1>0, <1>4, <2>5 DEF CoreCommit, TypeOK
    <2>7. coreData'[s] \in Versions
      BY <2>6
    <2>8. session' \in [Sources -> Session]
      <3>1. [pc |-> "coreDone", batch |-> coreData'[s]] \in Session
        BY <2>7 DEF Session
      <3> QED
        BY <1>0, <1>4, <3>1 DEF CoreCommit, TypeOK
    <2>9. asOf' \in 0..MaxChanges
      BY <1>4, <2>2 DEF CoreCommit
    <2>10. \A t \in Tables : \A v \in dim'[t] : v.current = (v.to = Null)
      BY <2>3 DEF Dim
    <2> QED
      BY <1>0, <1>4, <2>4, <2>6, <2>8, <2>9, <2>10 DEF CoreCommit, TypeOK
  <1>5. ASSUME NEW s \in Sources, CoreAbort(s)
        PROVE  TypeOK'
    BY <1>0, <1>5 DEF CoreAbort, TypeOK, Session
  <1>6. ASSUME NEW s \in Sources, MartLocks(s)
        PROVE  TypeOK'
    <2>1. session[s].batch \in Versions
      BY <1>0, <1>6, SessionShape DEF MartLocks, At, TypeOK
    <2>2. CurrentRows \in
            [department : SUBSET (Departments \X Names),
             user : SUBSET (Users \X (Departments \cup {Nowhere}))]
      BY <1>0, ViewIsTyped DEF CurrentRows, TypeOK
    <2>3. Refreshing(s).snapshot \in Shown
      BY <1>0, <2>2 DEF Refreshing, Shown, TypeOK
    <2>4. Refreshing(s) \in Session
      BY <2>1, <2>3 DEF Refreshing, Session
    <2> QED
      BY <1>0, <1>6, <2>4 DEF MartLocks, TypeOK
  <1>7. ASSUME NEW s \in Sources, MartCommit(s)
        PROVE  TypeOK'
    <2>1. session[s].snapshot \in Shown
      BY <1>0, <1>7, SessionShape DEF MartCommit, At, TypeOK
    <2> QED
      BY <1>0, <1>7, <2>1 DEF MartCommit, TypeOK, Session
  <1>8. ASSUME NEW s \in Sources, MartAbort(s)
        PROVE  TypeOK'
    BY <1>0, <1>8 DEF MartAbort, TypeOK, Session
  <1>9. CASE UNCHANGED vars
    BY <1>0, <1>9 DEF vars, TypeOK
  <1>10. CASE Next
    <2>1. ASSUME NEW d \in Departments, NEW n \in Names \cup {Null},
                 UserChanges("department", d, n)
          PROVE  TypeOK'
      BY <1>1, <2>1 DEF Tables, Keys, Contents
    <2>2. ASSUME NEW u \in Users, NEW d \in Departments \cup {Nowhere, Null},
                 UserChanges("user", u, d)
          PROVE  TypeOK'
      BY <1>1, <2>2 DEF Tables, Keys, Contents
    <2> QED
      BY <1>2, <1>3, <1>4, <1>5, <1>6, <1>7, <1>8, <1>10, <2>1, <2>2 DEF Next
  <1> QED
    BY <1>9, <1>10

-----------------------------------------------------------------------------
(* Core.                                                                   *)

LEMMA CoreInit == Init => CoreInv
  <1> SUFFICES ASSUME Init
               PROVE  CoreInv
    OBVIOUS
  <1>1. TypeOK
    BY TypeInit
  <1>2. /\ \A s \in Sources : session[s].pc = "idle" /\ coreData[s] = 0
        /\ clock = 0 /\ asOf = 0 /\ changes = 0
    BY DEF Init, Idle
  <1>3. \A t \in Tables : dim[t] = {}
    BY DEF Init, Empty
  <1>4. OneCurrentEach
    BY <1>3 DEF OneCurrentEach, OneCurrent, Current
  <1>5. Referring(CurrentRows)
    BY <1>3 DEF Referring, CurrentRows, View, Current, Tables
  <1> QED
    BY <1>1, <1>2, <1>4, <1>5 DEF CoreInv, Counted, At, Init

(* A step that leaves the dimensions alone, and every transaction that has *)
(* prepared something with its lock.                                       *)
LEMMA CoreFrame ==
  ASSUME CoreInv, TypeOK', Counted', UNCHANGED <<dim, asOf>>,
         changes' \in Nat, changes' >= changes, ReferencesHold(userDb'),
         \A s \in Sources : At(s, "coreSyncing")' =>
            /\ session'[s] = session[s]
            /\ coreLock = s => coreLock' = s
  PROVE  CoreInv'
  <1>1. asOf' <= changes'
    <2>1. asOf \in Nat /\ changes \in Nat /\ asOf <= changes
      BY Bounds DEF CoreInv, TypeOK
    <2> QED
      BY <2>1
  <1>2. OneCurrentEach' /\ Referring(CurrentRows)'
    BY DEF CoreInv, OneCurrentEach, CurrentRows, Referring
  <1>3. ASSUME NEW s \in Sources, At(s, "coreSyncing")'
        PROVE  coreLock' = s /\ Prepared(session[s])'
    <2>1. /\ At(s, "coreSyncing") /\ session'[s] = session[s]
          /\ coreLock' = s /\ Prepared(session[s])
      BY <1>3 DEF CoreInv, At
    <2>2. session[s].seenAt \in Nat /\ changes \in Nat
      BY <2>1, SessionShape, Bounds DEF CoreInv, TypeOK, At
    <2> QED
      BY <2>1, <2>2 DEF Prepared
  <1> QED
    BY <1>1, <1>2, <1>3 DEF CoreInv, ReferencesHold

(* ... in particular a step of a run that has no core transaction then.    *)
LEMMA OtherSession ==
  ASSUME CoreInv, TypeOK', NEW s \in Sources,
         UNCHANGED <<userDb, changes, clock, dim, asOf, coreData>>,
         session'[s].pc \notin {"coreBegun", "coreSyncing"},
         \A r \in Sources \ {s} : session'[r] = session[r],
         \A r \in Sources \ {s} : coreLock = r => coreLock' = r
  PROVE  CoreInv'
  <1>1. Counted'
    BY DEF CoreInv, Counted
  <1>2. \A r \in Sources : At(r, "coreSyncing")' =>
          /\ session'[r] = session[r]
          /\ coreLock = r => coreLock' = r
    BY DEF At
  <1>3. changes' \in Nat /\ changes' >= changes /\ ReferencesHold(userDb')
    BY Bounds DEF CoreInv, TypeOK, ReferencesHold
  <1> QED
    BY <1>1, <1>2, <1>3, CoreFrame

LEMMA CoreNext == CoreInv /\ [Next]_vars => CoreInv'
  <1> SUFFICES ASSUME CoreInv, [Next]_vars
               PROVE  CoreInv'
    OBVIOUS
  <1>0. /\ TypeOK /\ TypeOK' /\ DimsTyped
        /\ changes \in Nat /\ changes' \in Nat /\ clock \in Nat
        /\ \A s \in Sources : coreData[s] \in Nat /\ session[s] \in Session
    <2>1. TypeOK /\ TypeOK' /\ DimsTyped
      BY TypeNext, TypedDims DEF CoreInv
    <2> QED
      BY <2>1, Bounds DEF TypeOK, Versions
  <1>1. ASSUME NEW t \in Tables, NEW k, NEW content,
               UserChanges(t, k, content)
        PROVE  CoreInv'
    <2>1. /\ UNCHANGED <<dim, asOf, session, coreLock, coreData, clock>>
          /\ ReferencesHold(userDb') /\ changes' >= changes
      BY <1>0, <1>1 DEF UserChanges
    <2>2. Counted'
      BY <2>1 DEF CoreInv, Counted
    <2> QED
      BY <1>0, <2>1, <2>2, CoreFrame
  <1>2. ASSUME NEW s \in Sources, NEW closing \in BOOLEAN,
               CoreBegin(s, closing)
        PROVE  CoreInv'
    <2>1. /\ UNCHANGED <<dim, asOf, userDb, changes, coreLock, coreData>>
          /\ clock' = clock + 1
          /\ session'[s].pc = "coreBegun" /\ session'[s].now = clock + 1
          /\ \A r \in Sources \ {s} : session'[r] = session[r]
      BY <1>0, <1>2 DEF CoreBegin, TypeOK
    <2>2. ASSUME NEW r \in Sources
          PROVE  /\ coreData'[r] <= clock'
                 /\ session'[r].pc \in {"coreBegun", "coreSyncing"} =>
                      /\ coreData'[r] < session'[r].now
                      /\ session'[r].now <= clock'
      <3>1. coreData[r] <= clock /\ coreData[r] \in Nat
        BY <1>0 DEF CoreInv, Counted
      <3>2. CASE r = s
        BY <1>0, <2>1, <3>1, <3>2
      <3>3. CASE r # s /\ session[r].pc \in {"coreBegun", "coreSyncing"}
        <4>1. session[r].now \in Nat
          BY <1>0, <3>3, SessionShape
        <4>2. coreData[r] < session[r].now /\ session[r].now <= clock
          BY <3>3 DEF CoreInv, Counted
        <4> QED
          BY <1>0, <2>1, <3>1, <3>3, <4>1, <4>2
      <3>4. CASE r # s /\ session[r].pc \notin {"coreBegun", "coreSyncing"}
        BY <1>0, <2>1, <3>1, <3>4
      <3> QED
        BY <3>2, <3>3, <3>4
    <2>3. Counted'
      BY <2>2 DEF Counted
    <2>4. \A r \in Sources : At(r, "coreSyncing")' => session'[r] = session[r]
      BY <2>1 DEF At
    <2>5. ReferencesHold(userDb')
      BY <2>1 DEF CoreInv
    <2> QED
      BY <1>0, <2>1, <2>3, <2>4, <2>5, CoreFrame
  <1>3. ASSUME NEW s \in Sources, CoreLocks(s)
        PROVE  CoreInv'
    <2>1. /\ UNCHANGED <<dim, asOf, userDb, changes, coreData, clock>>
          /\ coreLock = Null /\ coreLock' = s
          /\ session'[s] = Syncing(s) /\ At(s, "coreBegun")
          /\ \A r \in Sources \ {s} : session'[r] = session[r]
      BY <1>0, <1>3 DEF CoreLocks, TypeOK
    <2>2. Syncing(s).pc = "coreSyncing" /\ Prepared(Syncing(s))
      BY <1>0, <2>1, SyncingIsPrepared
    <2>3. Syncing(s).now = session[s].now
      BY DEF Syncing
    <2>4. Counted'
      BY <2>1, <2>2, <2>3 DEF CoreInv, Counted, At
    <2>5. ASSUME NEW r \in Sources, At(r, "coreSyncing")'
          PROVE  coreLock' = r /\ Prepared(session[r])'
      <3>1. CASE r = s
        <4>1. Prepared(session'[s])
          BY <2>1, <2>2
        <4> QED
          BY <2>1, <3>1, <4>1 DEF Prepared
      <3>2. CASE r # s
        <4>1. coreLock = r
          BY <2>1, <2>5, <3>2 DEF CoreInv, At
        <4> QED
          BY <2>1, <4>1, Bounds
      <3> QED
        BY <3>1, <3>2
    <2>6. OneCurrentEach' /\ Referring(CurrentRows)' /\ ReferencesHold(userDb)'
      BY <2>1 DEF CoreInv, OneCurrentEach, CurrentRows, Referring,
                  ReferencesHold
    <2>7. asOf' <= changes'
      BY <2>1 DEF CoreInv
    <2> QED
      BY <1>0, <2>4, <2>5, <2>6, <2>7 DEF CoreInv
  <1>4. ASSUME NEW s \in Sources, CoreCommit(s)
        PROVE  CoreInv'
    <2> DEFINE x == session[s]
    <2>1. /\ UNCHANGED <<userDb, changes, clock>>
          /\ coreLock' = Null /\ asOf' = x.seenAt
          /\ coreData'[s] = coreData[s] + 1
          /\ session'[s].pc = "coreDone"
          /\ \A r \in Sources \ {s} : /\ session'[r] = session[r]
                                      /\ coreData'[r] = coreData[r]
      BY <1>0, <1>4 DEF CoreCommit, TypeOK
    <2>2. At(s, "coreSyncing") /\ coreLock = s /\ Prepared(x)
      BY <1>4 DEF CoreCommit, CoreInv
    <2>3. /\ x.now \in 1..MaxBegins /\ x.closing \in BOOLEAN
          /\ x.seen \in UserTables /\ x.seenAt \in 0..MaxChanges
      BY <1>0, <2>2, SessionShape DEF At
    <2>4. \A t \in Tables :
            dim'[t] = SyncUsers(dim[t], UserRows(x.seen[t]), x.closing, x.now)
      BY <1>4, <2>2 DEF CoreCommit, Prepared
    <2>5. ASSUME NEW t \in Tables
          PROVE  /\ OneCurrent(dim'[t])
                 /\ View(dim'[t]) = Merged(View(dim[t]), UserRows(x.seen[t]),
                                           x.closing)
      <3>1. Dim(dim[t], t) /\ OneCurrent(dim[t])
        BY <1>0 DEF DimsTyped, CoreInv, OneCurrentEach
      <3> QED
        BY <2>3, <2>4, <3>1, SyncUsersKeeps
    <2>6. OneCurrentEach'
      BY <2>5 DEF OneCurrentEach
    <2>7. Referring(CurrentRows')
      <3>1. \A t \in Tables :
              CurrentRows'[t] = Merged(CurrentRows[t], UserRows(x.seen[t]),
                                       x.closing)
        BY <2>5 DEF CurrentRows
      <3>2. Referring(CurrentRows) /\ ReferencesHold(x.seen)
        BY <2>2 DEF CoreInv, Prepared
      <3> HIDE DEF x
      <3> QED
        BY <2>3, <3>1, <3>2, MergeKeepsDepartments
    <2>8. asOf' <= changes'
      BY <2>1, <2>2 DEF Prepared
    <2>9. Counted'
      <3>1. coreData[s] + 1 <= clock
        <4>1. coreData[s] < x.now /\ x.now <= clock
          BY <2>2 DEF CoreInv, Counted, At
        <4> QED
          BY <1>0, <2>3, <4>1
      <3>2. ASSUME NEW r \in Sources
            PROVE  /\ coreData'[r] <= clock'
                   /\ session'[r].pc \in {"coreBegun", "coreSyncing"} =>
                        /\ coreData'[r] < session'[r].now
                        /\ session'[r].now <= clock'
        BY <2>1, <3>1, <3>2 DEF CoreInv, Counted
      <3> QED
        BY <3>2 DEF Counted
    <2>10. ASSUME NEW r \in Sources, At(r, "coreSyncing")'
           PROVE  FALSE
      <3>1. r # s /\ At(r, "coreSyncing")
        BY <2>1, <2>10 DEF At
      <3> QED
        BY <2>2, <3>1 DEF CoreInv
    <2> QED
      BY <1>0, <2>1, <2>6, <2>7, <2>8, <2>9, <2>10
         DEF CoreInv, Referring, ReferencesHold
  <1>5. ASSUME NEW s \in Sources, CoreAbort(s)
        PROVE  CoreInv'
    <2>1. /\ UNCHANGED <<userDb, changes, clock, dim, asOf, coreData>>
          /\ session'[s].pc = "idle"
          /\ \A r \in Sources \ {s} : session'[r] = session[r]
          /\ coreLock' = IF coreLock = s THEN Null ELSE coreLock
      BY <1>0, <1>5 DEF CoreAbort, TypeOK, Idle
    <2> QED
      BY <1>0, <2>1, OtherSession
  <1>6. ASSUME NEW s \in Sources,
               MartLocks(s) \/ MartCommit(s) \/ MartAbort(s)
        PROVE  CoreInv'
    <2>1. /\ UNCHANGED <<userDb, changes, clock, dim, asOf, coreData,
                          coreLock>>
          /\ session'[s].pc \in {"martRefreshing", "idle"}
          /\ \A r \in Sources \ {s} : session'[r] = session[r]
      BY <1>0, <1>6
         DEF MartLocks, MartCommit, MartAbort, TypeOK, Refreshing, Idle
    <2> QED
      BY <1>0, <2>1, OtherSession
  <1>7. CASE UNCHANGED vars
    BY <1>0, <1>7, CoreFrame DEF vars, CoreInv, Counted, At, ReferencesHold
  <1> QED
    BY <1>1, <1>2, <1>3, <1>4, <1>5, <1>6, <1>7 DEF Next, Tables

LEMMA CoreAlways == Spec => []CoreInv
  BY CoreInit, CoreNext, PTL DEF Spec

(* Every variable keeps its type.                                          *)
THEOREM TypeCorrect == Spec => []TypeOK
  <1>1. CoreInv => TypeOK
    BY DEF CoreInv
  <1> QED
    BY <1>1, CoreAlways, PTL

(* No department and no user gets a second current version, however many   *)
(* runs synchronize them at once.                                          *)
THEOREM EachHasOneCurrent == Spec => []OneCurrentEach
  <1>1. CoreInv => OneCurrentEach
    BY DEF CoreInv
  <1> QED
    BY <1>1, CoreAlways, PTL

(* Counters are numbers.                                                   *)
LEMMA Numbers ==
  ASSUME TypeOK
  PROVE  /\ asOf \in Nat /\ mart.asOf \in Nat
         /\ \A r \in Sources : coreData[r] \in Nat /\ mart.data[r] \in Nat
         /\ \A s \in Sources :
              /\ At(s, "coreDone") => session[s].batch \in Nat
              /\ At(s, "martRefreshing") =>
                   /\ session[s].batch \in Nat
                   /\ session[s].snapshot.asOf \in Nat
                   /\ \A r \in Sources : session[s].snapshot.data[r] \in Nat
  <1>1. \A n \in 0..MaxChanges : n \in Nat
    BY Bounds
  <1>2. \A n \in Versions : n \in Nat
    BY Bounds DEF Versions
  <1>3. \A x \in Shown : /\ x.asOf \in Nat
                         /\ \A r \in Sources : x.data[r] \in Nat
    BY <1>1, <1>2 DEF Shown
  <1>4. asOf \in Nat /\ \A r \in Sources : coreData[r] \in Nat
    BY <1>1, <1>2 DEF TypeOK
  <1>5. mart \in Shown /\ \A s \in Sources : session[s] \in Session
    BY DEF TypeOK
  <1> QED
    BY <1>2, <1>3, <1>4, <1>5, SessionShape DEF At

(* Core only moves forward.                                                *)
LEMMA CoreGrows ==
  ASSUME CoreInv, TypeOK', [Next]_vars
  PROVE  asOf' >= asOf /\ \A r \in Sources : coreData'[r] >= coreData[r]
  <1>0. TypeOK /\ asOf \in Nat /\ \A r \in Sources : coreData[r] \in Nat
    BY Numbers DEF CoreInv
  <1>1. ASSUME NEW s \in Sources, CoreCommit(s)
        PROVE  asOf' >= asOf /\ \A r \in Sources : coreData'[r] >= coreData[r]
    <2>1. asOf' >= asOf
      BY <1>1 DEF CoreInv, CoreCommit, Prepared
    <2>2. \A r \in Sources : coreData'[r] = IF r = s THEN coreData[r] + 1
                                           ELSE coreData[r]
      BY <1>0, <1>1 DEF CoreCommit, TypeOK
    <2> QED
      BY <1>0, <2>1, <2>2
  <1>2. CASE UNCHANGED <<asOf, coreData>>
    BY <1>0, <1>2
  <1> QED
    BY <1>1, <1>2
       DEF Next, vars, UserChanges, CoreBegin, CoreLocks, CoreAbort,
           MartLocks, MartCommit, MartAbort

(* No commit brings back an older state of the users database.             *)
THEOREM UsersInOrder == Spec => UsersNeverGoBack
  <1>1. CoreInv /\ [Next]_vars => [asOf' >= asOf]_vars
    BY TypeNext, CoreGrows
  <1> QED
    BY <1>1, CoreAlways, PTL DEF Spec, UsersNeverGoBack

-----------------------------------------------------------------------------
(* Mart.  A refresh that holds the lock has read a Core that is not older  *)
(* than Mart, with its own batch in it.                                    *)
Between(x, s) ==
    /\ mart.asOf <= x.snapshot.asOf /\ x.snapshot.asOf <= asOf
    /\ \A r \in Sources : /\ mart.data[r] <= x.snapshot.data[r]
                          /\ x.snapshot.data[r] <= coreData[r]
    /\ x.batch <= x.snapshot.data[s]
    /\ Referring(x.snapshot.rows)

MartInv ==
    /\ mart.asOf <= asOf
    /\ \A r \in Sources : mart.data[r] <= coreData[r]
    /\ Referring(mart.rows)
    /\ \A s \in Sources : At(s, "coreDone") => session[s].batch <= coreData[s]
    /\ \A s \in Sources :
         At(s, "martRefreshing") => martLock = s /\ Between(session[s], s)

Inv == CoreInv /\ MartInv

(* A step that leaves Mart and the refreshes of others alone.              *)
LEMMA MartFrame ==
  ASSUME Inv, TypeOK', [Next]_vars, UNCHANGED <<mart>>,
         NEW s \in Sources,
         \A r \in Sources \ {s} : session'[r] = session[r],
         \A r \in Sources \ {s} : martLock = r => martLock' = r,
         At(s, "coreDone")' => session'[s].batch <= coreData'[s],
         At(s, "martRefreshing")' =>
           martLock' = s /\ Between(session[s], s)'
  PROVE  MartInv'
  <1>0. /\ asOf' >= asOf
        /\ \A r \in Sources : coreData'[r] >= coreData[r]
        /\ TypeOK
    BY CoreGrows DEF Inv, CoreInv
  <1>1. /\ mart'.asOf <= asOf'
        /\ \A r \in Sources : mart'.data[r] <= coreData'[r]
        /\ Referring(mart'.rows)
    <2>1. /\ mart.asOf <= asOf
          /\ \A r \in Sources : mart.data[r] <= coreData[r]
          /\ Referring(mart.rows)
      BY DEF Inv, MartInv
    <2>2. asOf' \in Nat /\ \A r \in Sources : coreData'[r] \in Nat
      BY Bounds DEF TypeOK, Versions
    <2> QED
      BY <1>0, <2>1, <2>2, Numbers
  <1>2. ASSUME NEW r \in Sources \ {s}, At(r, "coreDone")'
        PROVE  session'[r].batch <= coreData'[r]
    <2>1. At(r, "coreDone") /\ session'[r] = session[r]
      BY <1>2 DEF At
    <2>2. session[r].batch <= coreData[r]
      BY <2>1 DEF Inv, MartInv
    <2>3. coreData'[r] \in Nat
      BY Bounds DEF TypeOK, Versions
    <2> QED
      BY <1>0, <2>1, <2>2, <2>3, Numbers
  <1>3. ASSUME NEW r \in Sources \ {s}, At(r, "martRefreshing")'
        PROVE  martLock' = r /\ Between(session[r], r)'
    <2>1. At(r, "martRefreshing") /\ session'[r] = session[r]
      BY <1>3 DEF At
    <2>2. martLock = r /\ Between(session[r], r)
      BY <2>1 DEF Inv, MartInv
    <2>3. asOf' \in Nat /\ \A q \in Sources : coreData'[q] \in Nat
      BY Bounds DEF TypeOK, Versions
    <2>4. /\ session[r].snapshot.asOf \in Nat
          /\ \A q \in Sources : session[r].snapshot.data[q] \in Nat
      BY <1>0, <2>1, Numbers
    <2>5. /\ session[r].snapshot.asOf <= asOf'
          /\ \A q \in Sources : session[r].snapshot.data[q] <= coreData'[q]
      BY <1>0, <2>2, <2>3, <2>4, Numbers DEF Between
    <2> QED
      BY <2>1, <2>2, <2>5 DEF Between
  <1> QED
    BY <1>1, <1>2, <1>3 DEF MartInv

LEMMA MartInit == Init => MartInv
  <1> SUFFICES ASSUME Init
               PROVE  MartInv
    OBVIOUS
  <1>1. \A s \in Sources : session[s].pc = "idle"
    BY DEF Init, Idle
  <1>2. mart.rows.user = {}
    BY DEF Init, Empty, Tables
  <1> QED
    BY <1>1, <1>2 DEF Init, MartInv, At, Referring

LEMMA MartNext == Inv /\ TypeOK' /\ [Next]_vars => MartInv'
  <1> SUFFICES ASSUME Inv, TypeOK', [Next]_vars
               PROVE  MartInv'
    OBVIOUS
  <1>0. /\ TypeOK
        /\ \A r \in Sources : coreData[r] \in Nat
        /\ asOf \in Nat /\ mart.asOf \in Nat
        /\ \A r \in Sources : mart.data[r] \in Nat
    BY Numbers DEF Inv, CoreInv
  <1>1. CASE UNCHANGED <<session, martLock, mart, asOf, coreData>>
    BY <1>1 DEF Inv, MartInv, At, Between
  <1>2. ASSUME NEW s \in Sources, NEW closing \in BOOLEAN,
               CoreBegin(s, closing) \/ CoreLocks(s) \/ CoreAbort(s)
        PROVE  MartInv'
    <2>1. /\ UNCHANGED <<mart, martLock>>
          /\ session'[s].pc \in {"coreBegun", "coreSyncing", "idle"}
          /\ \A r \in Sources \ {s} : session'[r] = session[r]
      BY <1>0, <1>2 DEF CoreBegin, CoreLocks, CoreAbort, Syncing, Idle, TypeOK
    <2> QED
      BY <2>1, MartFrame DEF At
  <1>3. ASSUME NEW s \in Sources, CoreCommit(s)
        PROVE  MartInv'
    <2>1. /\ UNCHANGED <<mart, martLock>>
          /\ session'[s].pc = "coreDone"
          /\ session'[s].batch = coreData'[s]
          /\ \A r \in Sources \ {s} : session'[r] = session[r]
      BY <1>0, <1>3 DEF CoreCommit, TypeOK
    <2>2. coreData'[s] \in Nat
      BY Bounds DEF TypeOK, Versions
    <2>3. session'[s].batch <= coreData'[s]
      BY <2>1, <2>2
    <2> QED
      BY <2>1, <2>3, MartFrame DEF At
  <1>4. ASSUME NEW s \in Sources, MartLocks(s)
        PROVE  MartInv'
    <2>1. /\ UNCHANGED <<mart, asOf, coreData>>
          /\ martLock = Null /\ martLock' = s
          /\ At(s, "coreDone")
          /\ session'[s] = Refreshing(s)
          /\ \A r \in Sources \ {s} : session'[r] = session[r]
      BY <1>0, <1>4 DEF MartLocks, TypeOK
    <2>2. /\ session'[s].pc = "martRefreshing"
          /\ session'[s].batch = session[s].batch
          /\ session'[s].snapshot.asOf = asOf
          /\ session'[s].snapshot.data = coreData
          /\ session'[s].snapshot.rows = CurrentRows
      BY <2>1 DEF Refreshing
    <2>3. session[s].batch <= coreData[s]
      BY <2>1 DEF Inv, MartInv
    <2>4. Between(session[s], s)'
      BY <1>0, <2>1, <2>2, <2>3 DEF Between, Inv, MartInv, CoreInv, Referring
    <2> QED
      BY <2>1, <2>2, <2>4, MartFrame, Bounds DEF At
  <1>5. ASSUME NEW s \in Sources, MartCommit(s)
        PROVE  MartInv'
    <2>1. /\ UNCHANGED <<asOf, coreData>>
          /\ At(s, "martRefreshing")
          /\ mart' = session[s].snapshot
          /\ session'[s].pc = "idle"
          /\ \A r \in Sources \ {s} : session'[r] = session[r]
      BY <1>0, <1>5 DEF MartCommit, TypeOK, Idle
    <2>2. martLock = s /\ Between(session[s], s)
      BY <2>1 DEF Inv, MartInv
    <2>3. \A r \in Sources \ {s} : ~At(r, "martRefreshing")
      BY <2>2 DEF Inv, MartInv
    <2>4. \A r \in Sources : ~At(r, "martRefreshing")'
      BY <2>1, <2>3 DEF At
    <2>5. \A r \in Sources :
            At(r, "coreDone")' => session'[r].batch <= coreData'[r]
      BY <2>1 DEF At, Inv, MartInv
    <2> QED
      BY <2>1, <2>2, <2>4, <2>5 DEF MartInv, Between
  <1>6. ASSUME NEW s \in Sources, MartAbort(s)
        PROVE  MartInv'
    <2>1. /\ UNCHANGED mart
          /\ martLock' = IF martLock = s THEN Null ELSE martLock
          /\ session'[s].pc = "idle"
          /\ \A r \in Sources \ {s} : session'[r] = session[r]
      BY <1>0, <1>6 DEF MartAbort, TypeOK, Idle
    <2> QED
      BY <2>1, MartFrame DEF At
  <1>7. ASSUME NEW t, NEW k, NEW content, UserChanges(t, k, content)
        PROVE  MartInv'
    BY <1>1, <1>7 DEF UserChanges
  <1>8. CASE UNCHANGED vars
    BY <1>1, <1>8 DEF vars
  <1> QED
    BY <1>2, <1>3, <1>4, <1>5, <1>6, <1>7, <1>8 DEF Next

LEMMA Always == Spec => []Inv
  <1>1. Init => Inv
    BY CoreInit, MartInit DEF Inv
  <1>2. Inv /\ [Next]_vars => Inv'
    BY CoreNext, TypeNext, MartNext DEF Inv
  <1> QED
    BY <1>1, <1>2, PTL DEF Spec

(* Wherever a user is shown, in Core or in Mart, so is its department.     *)
THEOREM DepartmentsStay == Spec => []DepartmentsOfUsersShown
  <1>1. Inv => DepartmentsOfUsersShown
    BY DEF Inv, CoreInv, MartInv, DepartmentsOfUsersShown
  <1> QED
    BY <1>1, Always, PTL

(* No refresh shows the users or any source older than they were.          *)
THEOREM MartInOrder == Spec => MartNeverGoesBack
  <1>1. Inv /\ [Next]_vars
        => [/\ mart'.asOf >= mart.asOf
            /\ \A s \in Sources : mart'.data[s] >= mart.data[s]]_vars
    <2> SUFFICES ASSUME Inv, Next
                 PROVE  /\ mart'.asOf >= mart.asOf
                        /\ \A s \in Sources : mart'.data[s] >= mart.data[s]
      OBVIOUS
    <2>0. /\ TypeOK /\ mart.asOf \in Nat
          /\ \A r \in Sources : mart.data[r] \in Nat
      BY Numbers DEF Inv, CoreInv
    <2>1. ASSUME NEW s \in Sources, MartCommit(s)
          PROVE  /\ mart'.asOf >= mart.asOf
                 /\ \A r \in Sources : mart'.data[r] >= mart.data[r]
      <3>1. /\ At(s, "martRefreshing")
            /\ mart' = session[s].snapshot
            /\ Between(session[s], s)
        BY <2>1 DEF MartCommit, Inv, MartInv
      <3>2. /\ session[s].snapshot.asOf \in Nat
            /\ \A r \in Sources : session[s].snapshot.data[r] \in Nat
        BY <2>0, <3>1, Numbers
      <3> QED
        BY <2>0, <3>1, <3>2 DEF Between
    <2>2. CASE mart' = mart
      BY <2>0, <2>2
    <2> QED
      BY <2>1, <2>2
         DEF Next, UserChanges, CoreBegin, CoreLocks, CoreCommit, CoreAbort,
             MartLocks, MartAbort
  <1> QED
    BY <1>1, Always, PTL DEF Spec, MartNeverGoesBack

(* A run that ends has its batch in Mart, whoever refreshed meanwhile.     *)
THEOREM RunReachesMart == Spec => RunIsPublished
  <1>1. Inv /\ [Next]_vars
        => [\A s \in Sources :
              MartCommit(s) => mart'.data[s] >= session[s].batch]_vars
    <2> SUFFICES ASSUME Inv, NEW s \in Sources, MartCommit(s)
                 PROVE  mart'.data[s] >= session[s].batch
      OBVIOUS
    <2>1. /\ At(s, "martRefreshing")
          /\ mart' = session[s].snapshot
          /\ session[s].batch <= session[s].snapshot.data[s]
      BY DEF MartCommit, Inv, MartInv, Between
    <2>2. session[s].batch \in Nat /\ session[s].snapshot.data[s] \in Nat
      BY <2>1, Numbers DEF Inv, CoreInv
    <2> QED
      BY <2>1, <2>2
  <1> QED
    BY <1>1, Always, PTL DEF Spec, RunIsPublished
=============================================================================
