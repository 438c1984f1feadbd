----------------------------- MODULE Publication -----------------------------
(***************************************************************************)
(* Runs of different sources meet in the databases: every core transaction *)
(* synchronizes the shared dimensions of departments and users, and every  *)
(* mart transaction rebuilds all of Mart (orchestrator/app/pipeline.py     *)
(* call_core_sync and call_mart_refresh, core.sync_users, mart.refresh).   *)
(*                                                                         *)
(* There is no lock of the program's own.  What serializes the             *)
(* transactions is that each starts with DROP SCHEMA users_ext (core) or   *)
(* DROP SCHEMA core_ext (mart), whose exclusive lock is held until the end *)
(* of the transaction.  now() however is the time of BEGIN, a round trip   *)
(* before that lock is asked for.                                          *)
(***************************************************************************)
EXTENDS FiniteSets, Scd2

CONSTANTS
    Sources,      \* sources with a run; at most one run of each at a time
    Departments,  \* department ids of the users database
    Users,        \* user ids of the users database
    Names,        \* contents a department row can have
    Nowhere,      \* content of a user row without a department
    MaxBegins,    \* bound: core transactions ever begun
    MaxChanges    \* bound: changes made to the users database

ASSUME PublicationAssumption ==
    /\ {MaxBegins, MaxChanges} \subseteq Nat
    /\ Null \notin Nat \cup Names \cup Departments \cup Users \cup Sources
    /\ Nowhere \notin Departments \cup {Null}

(* users.department and users.end_user: id -> content, Null if there is no *)
(* such row.  Of a user only the department matters here.                  *)
UserTables ==
    [department : [Departments -> Names \cup {Null}],
     user : [Users -> Departments \cup {Nowhere, Null}]]

Tables == {"department", "user"}
Versions == 0..MaxBegins

VARIABLES
    userDb,     \* the two tables of the users database
    changes,    \* number of changes made to userDb
    clock,      \* transaction time, drawn at BEGIN
    session,    \* source -> what its run is doing in the databases
    coreLock,   \* the source whose transaction holds users_ext, or Null
    martLock,   \* the source whose transaction holds core_ext, or Null
    dim,        \* core.dim_department and core.dim_user, sets of versions
    asOf,       \* history: number of changes dim has seen
    coreData,   \* source -> number of batches committed to its dimensions
    mart        \* what Mart shows: both tables, their age, and batches

vars == <<userDb, changes, clock, session, coreLock, martLock, dim, asOf,
          coreData, mart>>

Version(keys, contents) ==
    [bk : keys, hash : contents, from : 1..MaxBegins,
     to : 1..MaxBegins \cup {Null}, current : BOOLEAN]

Dims ==
    [department : SUBSET Version(Departments, Names),
     user : SUBSET Version(Users, Departments \cup {Nowhere})]

Shown ==
    [rows : [department : SUBSET (Departments \X Names),
             user : SUBSET (Users \X (Departments \cup {Nowhere}))],
     asOf : 0..MaxChanges, data : [Sources -> Versions]]

Idle == [pc |-> "idle"]

Session ==
    {Idle}
    \cup [pc : {"coreBegun"}, now : 1..MaxBegins, closing : BOOLEAN]
    \cup [pc : {"coreSyncing"}, now : 1..MaxBegins, closing : BOOLEAN,
          seen : UserTables, seenAt : 0..MaxChanges,
          closes : Dims, adds : Dims]
    \cup [pc : {"coreDone"}, batch : Versions]
    \cup [pc : {"martRefreshing"}, batch : Versions, snapshot : Shown]

TypeOK ==
    /\ userDb \in UserTables
    /\ changes \in 0..MaxChanges
    /\ clock \in 0..MaxBegins
    /\ session \in [Sources -> Session]
    /\ coreLock \in Sources \cup {Null}
    /\ martLock \in Sources \cup {Null}
    /\ dim \in Dims
    /\ \A t \in Tables : \A v \in dim[t] : v.current = (v.to = Null)
    /\ asOf \in 0..MaxChanges
    /\ coreData \in [Sources -> Versions]
    /\ mart \in Shown

(* end_user.department_id REFERENCES department.                           *)
ReferencesHold(db) ==
    \A u \in Users :
        db.user[u] \in Departments => db.department[db.user[u]] # Null

Empty == [t \in Tables |-> {}]

(* The owner of the users database may have put anything into it.          *)
Init ==
    /\ userDb \in {db \in UserTables : ReferencesHold(db)}
    /\ changes = 0
    /\ clock = 0
    /\ session = [s \in Sources |-> Idle]
    /\ coreLock = Null
    /\ martLock = Null
    /\ dim = Empty
    /\ asOf = 0
    /\ coreData = [s \in Sources |-> 0]
    /\ mart = [rows |-> Empty, asOf |-> 0, data |-> [s \in Sources |-> 0]]

At(s, pc) == session[s].pc = pc

-----------------------------------------------------------------------------
(* The users database is edited behind the pipeline's back.                *)
UserChanges(t, k, content) ==
    /\ changes < MaxChanges
    /\ content # userDb[t][k]
    /\ userDb' = [userDb EXCEPT ![t][k] = content]
    /\ ReferencesHold(userDb')
    /\ changes' = changes + 1
    /\ UNCHANGED <<clock, session, coreLock, martLock, dim, asOf, coreData,
                   mart>>

(* The driver sends BEGIN with the first statement of call_core_sync; this *)
(* fixes now() for the whole transaction.                                  *)
CoreBegin(s, closing) ==
    /\ At(s, "idle")
    /\ clock < MaxBegins
    /\ clock' = clock + 1
    /\ session' = [session EXCEPT ![s] =
                     [pc |-> "coreBegun", now |-> clock', closing |-> closing]]
    /\ UNCHANGED <<userDb, changes, coreLock, martLock, dim, asOf,
                   coreData, mart>>

UserRows(table) ==
    {[bk |-> k, hash |-> table[k], index |-> 0] :
        k \in {x \in DOMAIN table : table[x] # Null}}

(* sync_users, for either table: close what is absent, then row by row     *)
(* insert or replace.  The ids are unique in the users database, so the    *)
(* rows do not interfere.                                                  *)
SyncUsers(versions, rows, closing, now) ==
    LET kept == IF closing THEN CloseAbsent(versions, rows, now) ELSE versions
    IN InsertFresh(CloseChanged(kept, rows, now), rows, now)

(* Faulty: departments that are gone are closed in every mode.             *)
SyncBothUnevenly(closing, now) ==
    [t \in Tables |-> SyncUsers(dim[t], UserRows(userDb[t]),
                                closing \/ t = "department", now)]

(* Both tables are read through one remote transaction, hence one snapshot *)
(* of the users database.                                                  *)
SyncBoth(closing, now) ==
    [t \in Tables |->
        SyncUsers(dim[t], UserRows(userDb[t]), closing, now)]

(* What a transaction reads and the changes it makes, which others do not  *)
(* see before it commits.                                                  *)
Syncing(s) ==
    LET begun == session[s]
        new == SyncBoth(begun.closing, begun.now)
    IN [pc |-> "coreSyncing", now |-> begun.now, closing |-> begun.closing,
        seen |-> userDb, seenAt |-> changes,
        closes |-> [t \in Tables |-> dim[t] \ new[t]],
        adds |-> [t \in Tables |-> new[t] \ dim[t]]]

(* Faulty: nothing keeps two transactions apart.                           *)
CoreStarts(s) ==
    /\ At(s, "coreBegun")
    /\ coreLock' = s
    /\ session' = [session EXCEPT ![s] = Syncing(s)]
    /\ UNCHANGED <<userDb, changes, clock, martLock, dim, asOf, coreData,
                   mart>>

(* sync_users has dropped users_ext, which waits for any other transaction *)
(* that did, and reads the users through the schema it imports again.      *)
CoreLocks(s) ==
    /\ At(s, "coreBegun")
    /\ coreLock = Null
    /\ coreLock' = s
    /\ session' = [session EXCEPT ![s] = Syncing(s)]
    /\ UNCHANGED <<userDb, changes, clock, martLock, dim, asOf, coreData,
                   mart>>

(* sync_from_staging has processed the batch and the transaction commits.  *)
CoreCommit(s) ==
    /\ At(s, "coreSyncing")
    /\ dim' = [t \in Tables |->
                 (dim[t] \ session[s].closes[t]) \cup session[s].adds[t]]
    /\ asOf' = session[s].seenAt
    /\ coreData' = [coreData EXCEPT ![s] = @ + 1]
    /\ coreLock' = Null
    /\ session' = [session EXCEPT ![s] =
                     [pc |-> "coreDone", batch |-> coreData'[s]]]
    /\ UNCHANGED <<userDb, changes, clock, martLock, mart>>

(* The transaction fails or its connection is lost; its locks go with it.  *)
CoreAbort(s) ==
    /\ session[s].pc \in {"coreBegun", "coreSyncing"}
    /\ session' = [session EXCEPT ![s] = Idle]
    /\ coreLock' = IF coreLock = s THEN Null ELSE coreLock
    /\ UNCHANGED <<userDb, changes, clock, martLock, dim, asOf, coreData,
                   mart>>

(* The rows with is_current = true.                                        *)
CurrentRows == [t \in Tables |-> View(dim[t])]

Refreshing(s) ==
    [pc |-> "martRefreshing", batch |-> session[s].batch,
     snapshot |-> [rows |-> CurrentRows, asOf |-> asOf, data |-> coreData]]

(* Faulty: nothing keeps two refreshes apart.                              *)
MartStarts(s) ==
    /\ At(s, "coreDone")
    /\ martLock' = s
    /\ session' = [session EXCEPT ![s] = Refreshing(s)]
    /\ UNCHANGED <<userDb, changes, clock, coreLock, dim, asOf, coreData,
                   mart>>

(* mart.refresh has dropped core_ext, which waits for any other refresh,   *)
(* and reads Core through one remote transaction, hence one snapshot.      *)
MartLocks(s) ==
    /\ At(s, "coreDone")
    /\ martLock = Null
    /\ martLock' = s
    /\ session' = [session EXCEPT ![s] = Refreshing(s)]
    /\ UNCHANGED <<userDb, changes, clock, coreLock, dim, asOf, coreData,
                   mart>>

(* Faulty: the mirror of Core still lacks what this run has added.         *)
MartCommitsStale(s) ==
    /\ At(s, "martRefreshing")
    /\ mart' = [session[s].snapshot EXCEPT !.data[s] = mart.data[s]]
    /\ martLock' = Null
    /\ session' = [session EXCEPT ![s] = Idle]
    /\ UNCHANGED <<userDb, changes, clock, coreLock, dim, asOf, coreData>>

(* Every Mart table is dropped and created again in one transaction.       *)
MartCommit(s) ==
    /\ At(s, "martRefreshing")
    /\ mart' = session[s].snapshot
    /\ martLock' = Null
    /\ session' = [session EXCEPT ![s] = Idle]
    /\ UNCHANGED <<userDb, changes, clock, coreLock, dim, asOf, coreData>>

(* The refresh fails, or the run does not get that far.                    *)
MartAbort(s) ==
    /\ session[s].pc \in {"coreDone", "martRefreshing"}
    /\ session' = [session EXCEPT ![s] = Idle]
    /\ martLock' = IF martLock = s THEN Null ELSE martLock
    /\ UNCHANGED <<userDb, changes, clock, coreLock, dim, asOf, coreData,
                   mart>>

Next ==
    \/ \E d \in Departments, n \in Names \cup {Null} :
         UserChanges("department", d, n)
    \/ \E u \in Users, d \in Departments \cup {Nowhere, Null} :
         UserChanges("user", u, d)
    \/ \E s \in Sources :
         \/ \E closing \in BOOLEAN : CoreBegin(s, closing)
         \/ CoreLocks(s) \/ CoreCommit(s) \/ CoreAbort(s)
         \/ MartLocks(s) \/ MartCommit(s) \/ MartAbort(s)

Spec == Init /\ [][Next]_vars

-----------------------------------------------------------------------------
(* Properties.                                                             *)

(* core.sync_users under concurrent runs: no department and no user has    *)
(* two current versions, although nothing in the tables forbids it.        *)
OneCurrentEach == \A t \in Tables : OneCurrent(dim[t])

Referring(shown) ==
    \A user \in shown.user :
        user[2] \in Departments =>
            \E department \in shown.department : department[1] = user[2]

(* core/init.sql:60 decides who sees a user by the current department the  *)
(* user refers to, and no foreign key guards the dimensions: in Core, and  *)
(* in Mart, the department of a current user is current, whatever modes    *)
(* and policies alternate.                                                 *)
DepartmentsOfUsersShown == Referring(CurrentRows) /\ Referring(mart.rows)

(* call_core_sync by overlapping runs: a run that started earlier and      *)
(* commits later does not bring an older state of the users back.          *)
UsersNeverGoBack == [][asOf' >= asOf]_vars

(* mart.refresh by overlapping runs: a reader of Mart never sees a source  *)
(* or the users go back to an earlier batch.                               *)
MartNeverGoesBack ==
    [][/\ mart'.asOf >= mart.asOf
       /\ \A s \in Sources : mart'.data[s] >= mart.data[s]]_vars

(* pipeline.py:394: when the mart step of a run returns, the batch that    *)
(* the run synchronized is in Mart, whoever else refreshed meanwhile.      *)
RunIsPublished ==
    [][\A s \in Sources :
         MartCommit(s) => mart'.data[s] >= session[s].batch]_vars
=============================================================================
