-------------------------- MODULE Scheduler_proofs --------------------------
(***************************************************************************)
(* Theorems about the scheduler, for every number of sources, edits,       *)
(* failures and restarts and for every calendar.                           *)
(***************************************************************************)
EXTENDS Scheduler, TLAPS

LEMMA TimesAreNat == Times \subseteq Nat /\ None \notin Nat
  BY ConstantsAssumption DEF Times

(* croniter returns an occurrence after the moment it is asked about.      *)
LEMMA NextRunIsLater ==
  ASSUME NEW c \in Crons, NEW z \in Zones, NEW t \in 0..MaxTime,
         Later(c, z, t) # {}
  PROVE  /\ NextRun(c, z, t) \in Calendar[c][z]
         /\ NextRun(c, z, t) \in Times
         /\ NextRun(c, z, t) > t
  <1>1. Calendar[c][z] # {}
    BY DEF Later
  <1>2. PICK u \in Calendar[c][z] :
          u > t /\ \A v \in Calendar[c][z] : v > t => u <= v
    BY <1>1, ConstantsAssumption
  <1>3. u \in Later(c, z, t) /\ \A v \in Later(c, z, t) : u <= v
    BY <1>2 DEF Later
  <1>4. NextRun(c, z, t) \in Later(c, z, t)
    BY <1>3 DEF NextRun
  <1> QED
    BY <1>4 DEF Later, Times

(* The row of a tick that works on row i.                                  *)
LEMMA TickRowType ==
  ASSUME TypeOK, NEW i \in tick.todo
  PROVE  i \in Ids /\ tick.rows[i] \in Row
  BY DEF TypeOK

LEMMA NextRowType ==
  ASSUME TypeOK, NEW i \in Ids, NextRow(i)
  PROVE  /\ tick' \in [phase : Phases, now : 0..MaxTime,
                       rows : [Ids -> Row \cup {None}], todo : SUBSET Ids]
         /\ \A j \in tick'.todo : tick'.rows[j] # None
         /\ tick'.phase \in {"asleep", "row"}
         /\ tick'.todo \subseteq tick.todo \ {i}
         /\ tick'.phase # "asleep" => tick'.now = tick.now
         /\ tick'.todo # {} => tick'.rows = tick.rows
  <1>1. CASE tick.todo = {i}
    <2>1. tick' = Asleep
      BY <1>1 DEF NextRow
    <2> QED
      BY <2>1, ConstantsAssumption DEF Asleep, Phases
  <1>2. CASE tick.todo # {i}
    <2>1. tick' = [tick EXCEPT !.phase = "row", !.todo = @ \ {i}]
      BY <1>2 DEF NextRow
    <2> QED
      BY <2>1 DEF TypeOK, Phases
  <1> QED
    BY <1>1, <1>2

LEMMA StoreType ==
  ASSUME TypeOK, NEW i \in Ids, NEW t \in Times, StoreNextRun(i, t)
  PROVE  /\ rows' \in [Ids -> Row \cup {None}]
         /\ raced' \subseteq Ids
         /\ \A j \in Ids \ {i} : rows'[j] = rows[j]
         /\ rows[i] = None => rows' = rows
         /\ rows[i] # None => /\ rows'[i] # None
                              /\ rows'[i].cron = rows[i].cron
                              /\ rows'[i].next = t
                              /\ rows'[i].zone = zone
  <1>1. CASE Exists(i)
    <2>1. rows[i] \in Row
      BY <1>1 DEF TypeOK, Exists
    <2>2. rows' = [rows EXCEPT ![i] = [@ EXCEPT !.next = t, !.zone = zone]]
      BY <1>1 DEF StoreNextRun
    <2> DEFINE new == [rows[i] EXCEPT !.next = t, !.zone = zone]
    <2>3. /\ new \in Row
          /\ new.cron = rows[i].cron /\ new.next = t /\ new.zone = zone
          /\ new # None
      BY <2>1, NoneAssumption DEF Row, TypeOK
    <2>4. raced' \subseteq Ids
      BY DEF StoreNextRun, TypeOK
    <2>5. rows \in [Ids -> Row \cup {None}]
      BY DEF TypeOK
    <2>6. rows' = [rows EXCEPT ![i] = new]
      BY <2>2
    <2> HIDE DEF new
    <2> QED
      BY <1>1, <2>3, <2>4, <2>5, <2>6 DEF Exists
  <1>2. CASE ~Exists(i)
    BY <1>2 DEF StoreNextRun, TypeOK, Exists
  <1> QED
    BY <1>1, <1>2

-----------------------------------------------------------------------------
LEMMA TypeInit == Init => TypeOK
  BY ConstantsAssumption DEF Init, TypeOK, Asleep, Phases

LEMMA TypeNext == TypeOK /\ [Next]_vars => TypeOK'
  <1> SUFFICES ASSUME TypeOK, [Next]_vars
               PROVE  TypeOK'
    OBVIOUS
  <1> USE DEF TypeOK
  <1>1. ASSUME NEW c \in Crons, NEW enabled \in BOOLEAN,
               CreateSource(c, enabled)
        PROVE  TypeOK'
    <2>1. [cron |-> c, enabled |-> enabled, next |-> None, zone |-> None]
            \in Row
      BY DEF Row
    <2>2. lastId' \in Ids /\ lastId' \in 0..MaxSources
      BY <1>1, ConstantsAssumption DEF CreateSource, Ids
    <2> QED
      BY <1>1, <2>1, <2>2 DEF CreateSource, counters
  <1>2. ASSUME NEW i \in Ids, NEW c \in Crons, NEW enabled \in BOOLEAN,
               UpdateSource(i, c, enabled)
        PROVE  TypeOK'
    <2>1. rows[i] \in Row
      BY <1>2 DEF UpdateSource, Exists
    <2>2. Edited(rows[i], c, enabled) \in Row
      BY <2>1 DEF Edited, Row
    <2>3. rows' \in [Ids -> Row \cup {None}]
      BY <1>2, <2>2 DEF UpdateSource
    <2>4. edits' \in 0..MaxEdits
      BY <1>2, ConstantsAssumption DEF UpdateSource
    <2>5. raced' \subseteq Ids
      BY <1>2 DEF UpdateSource
    <2> QED
      BY <1>2, <2>3, <2>4, <2>5 DEF UpdateSource
  <1>3. ASSUME NEW i \in Ids, DeleteSource(i)
        PROVE  TypeOK'
    BY <1>3, ConstantsAssumption DEF DeleteSource
  <1>4. ASSUME NEW i \in Ids, RunByHand(i) \/ Finish(i)
        PROVE  TypeOK'
    BY <1>4 DEF RunByHand, Finish, counters
  <1>5. CASE ReadSources
    <2>1. tick' \in [phase : Phases, now : 0..MaxTime,
                     rows : [Ids -> Row \cup {None}], todo : SUBSET Ids]
      BY <1>5 DEF ReadSources, Listed, Phases
    <2>2. \A i \in tick'.todo : tick'.rows[i] # None
      BY <1>5 DEF ReadSources, Listed, Exists
    <2> QED
      BY <1>5, <2>1, <2>2 DEF ReadSources, counters
  <1>6. CASE ReadFails
    <2>1. tick' = [phase |-> "ended", now |-> 0,
                   rows |-> [i \in Ids |-> None], todo |-> {}]
      BY <1>6 DEF ReadFails, Asleep
    <2>2. /\ tick' \in [phase : Phases, now : 0..MaxTime,
                        rows : [Ids -> Row \cup {None}], todo : SUBSET Ids]
          /\ \A i \in tick'.todo : tick'.rows[i] # None
      BY <2>1, ConstantsAssumption DEF Phases
    <2>3. failures' \in 0..MaxFailures
      BY <1>6, ConstantsAssumption DEF ReadFails
    <2> QED
      BY <1>6, <2>2, <2>3 DEF ReadFails
  <1>7. ASSUME NEW i \in Ids, TickRow(i)
        PROVE  TypeOK'
    <2>1. i \in tick.todo /\ tick.rows[i] \in Row
      BY <1>7, TickRowType
         DEF TickRow, PassOver, Plan, PlanFails, DueNow, Fire, FireFails,
             Reschedule, RescheduleFails, Turn
    <2>2. CASE NextRow(i) /\ UNCHANGED <<rows, raced>>
                 /\ running' \subseteq Ids
                 /\ fired' \in [Ids -> Times \cup {None}]
                 /\ failures' \in 0..MaxFailures
                 /\ UNCHANGED <<lastId, now, zone, edits, restarts>>
      BY <2>2, NextRowType
    <2>3. CASE PassOver(i)
      BY <2>2, <2>3 DEF PassOver, counters
    <2>4. CASE PlanFails(i)
      BY <2>2, <2>4, ConstantsAssumption DEF PlanFails, Caught
    <2>5. CASE FireFails(i)
      BY <2>2, <2>5, ConstantsAssumption DEF FireFails, Caught
    <2>6. CASE RescheduleFails(i)
      BY <2>2, <2>6, ConstantsAssumption DEF RescheduleFails, Caught
    <2>7. CASE Fire(i)
      <3>1. tick.rows[i].next \in Times
        BY <2>1, <2>7 DEF Fire, DueNow, Planned, Row
      <3>2. tick' = [tick EXCEPT !.phase = "write"]
        BY <2>7 DEF Fire
      <3> QED
        BY <2>7, <3>1, <3>2 DEF Fire, Phases, counters
    <2>8. ASSUME StoreNextRun(i, NextRun(tick.rows[i].cron, zone, tick.now)),
                 NextRow(i), ~Raises(tick.rows[i].cron),
                 UNCHANGED <<lastId, now, zone, running, counters, fired>>
          PROVE  TypeOK'
      <3>1. NextRun(tick.rows[i].cron, zone, tick.now) \in Times
        BY <2>1, <2>8, NextRunIsLater DEF Raises, Row
      <3> QED
        BY <2>8, <3>1, StoreType, NextRowType DEF counters
    <2>9. CASE Plan(i)
      BY <2>2, <2>8, <2>9 DEF Plan, Caught, counters
    <2>10. CASE Reschedule(i)
      BY <2>2, <2>8, <2>10 DEF Reschedule, Caught, counters
    <2> QED
      BY <1>7, <2>3, <2>4, <2>5, <2>6, <2>7, <2>9, <2>10 DEF TickRow
  <1>8. CASE Advance
    BY <1>8, ConstantsAssumption DEF Advance, counters
  <1>9. ASSUME NEW z \in Zones, Restart(z)
        PROVE  TypeOK'
    <2>1. tick' = [phase |-> "asleep", now |-> 0,
                   rows |-> [i \in Ids |-> None], todo |-> {}]
      BY <1>9 DEF Restart, Asleep
    <2> QED
      BY <1>9, <2>1, ConstantsAssumption DEF Restart, Phases
  <1>10. CASE UNCHANGED vars
    BY <1>10 DEF vars, counters
  <1> QED
    BY <1>1, <1>2, <1>3, <1>4, <1>5, <1>6, <1>7, <1>8, <1>9, <1>10 DEF Next

(* The table and the task always have the types they are meant to have.    *)
THEOREM TypeCorrect == Spec => []TypeOK
  <1> QED
    BY TypeInit, TypeNext, PTL DEF Spec

-----------------------------------------------------------------------------
(* An id is never given twice; and while the tick holds a row whose cron   *)
(* has been edited, the source is among the raced ones.                    *)
KnownIds ==
    \A i \in Ids : Exists(i) \/ i \in tick.todo => i <= lastId

HeldCrons ==
    \A i \in tick.todo :
        Exists(i) /\ rows[i].cron # tick.rows[i].cron => i \in raced

CronInv == TypeOK /\ KnownIds /\ HeldCrons /\ NextFollowsCron

LEMMA CronInit == Init => CronInv
  BY TypeInit DEF Init, CronInv, KnownIds, HeldCrons, NextFollowsCron, Exists,
                  Asleep

(* A tick that leaves the table alone and goes on, or holds the row.       *)
LEMMA CronKept ==
  ASSUME CronInv, UNCHANGED <<rows, raced, lastId>>,
         tick'.todo \subseteq tick.todo,
         tick'.todo # {} => tick'.rows = tick.rows
  PROVE  KnownIds' /\ HeldCrons' /\ NextFollowsCron'
  <1>1. KnownIds'
    BY DEF CronInv, KnownIds, Exists
  <1>2. HeldCrons'
    BY DEF CronInv, HeldCrons, Exists
  <1>3. NextFollowsCron'
    BY DEF CronInv, NextFollowsCron, Exists
  <1> QED
    BY <1>1, <1>2, <1>3

(* The write of a planned run.                                             *)
LEMMA CronStored ==
  ASSUME CronInv, NEW i \in tick.todo, ~Raises(tick.rows[i].cron),
         StoreNextRun(i, NextRun(tick.rows[i].cron, zone, tick.now)),
         NextRow(i), lastId' = lastId
  PROVE  KnownIds' /\ HeldCrons' /\ NextFollowsCron'
  <1> DEFINE t == NextRun(tick.rows[i].cron, zone, tick.now)
  <1>1. TypeOK /\ i \in Ids /\ tick.rows[i] \in Row
    BY TickRowType DEF CronInv
  <1>2. t \in Times /\ t \in Calendar[tick.rows[i].cron][zone]
    BY <1>1, NextRunIsLater DEF Raises, Row, TypeOK
  <1> HIDE DEF t
  <1>3. /\ \A j \in Ids \ {i} : rows'[j] = rows[j]
        /\ rows[i] = None => rows' = rows
        /\ rows[i] # None => /\ rows'[i] # None
                             /\ rows'[i].cron = rows[i].cron
                             /\ rows'[i].next = t
                             /\ rows'[i].zone = zone
    BY <1>1, <1>2, StoreType DEF t
  <1>4. /\ tick'.todo \subseteq tick.todo \ {i}
        /\ tick'.todo # {} => tick'.rows = tick.rows
    BY <1>1, NextRowType
  <1>5. /\ \A j \in Ids \ {i} : j \in raced' <=> j \in raced
        /\ Exists(i) /\ rows[i].cron # tick.rows[i].cron => i \in raced'
    BY <1>1 DEF StoreNextRun, CronInv, HeldCrons
  <1>6. KnownIds'
    BY <1>1, <1>3, <1>4 DEF CronInv, KnownIds, Exists
  <1>7. HeldCrons'
    <2>1. ASSUME NEW j \in tick'.todo, rows'[j] # None,
                 rows'[j].cron # tick'.rows[j].cron
          PROVE  j \in raced'
      <3>1. j \in tick.todo /\ j # i /\ j \in Ids /\ tick'.rows = tick.rows
        BY <1>1, <1>4, <2>1 DEF TypeOK
      <3>2. rows'[j] = rows[j]
        BY <1>3, <3>1
      <3> QED
        BY <1>5, <2>1, <3>1, <3>2 DEF CronInv, HeldCrons, Exists
    <2> QED
      BY <2>1 DEF HeldCrons, Exists
  <1>8. NextFollowsCron'
    <2>1. ASSUME NEW j \in Ids, rows'[j] # None, rows'[j].next # None,
                 j \notin raced'
          PROVE  rows'[j].next \in Calendar[rows'[j].cron][rows'[j].zone]
      <3>1. CASE j = i
        BY <1>2, <1>3, <1>5, <2>1, <3>1 DEF Exists
      <3>2. CASE j # i
        BY <1>3, <1>5, <2>1, <3>2 DEF CronInv, NextFollowsCron, Exists
      <3> QED
        BY <3>1, <3>2
    <2> QED
      BY <2>1 DEF NextFollowsCron, Exists
  <1> QED
    BY <1>6, <1>7, <1>8

LEMMA CronNext == CronInv /\ [Next]_vars => CronInv'
  <1> SUFFICES ASSUME CronInv, [Next]_vars
               PROVE  KnownIds' /\ HeldCrons' /\ NextFollowsCron'
    BY TypeNext DEF CronInv
  <1>0. TypeOK
    BY DEF CronInv
  <1>1. ASSUME NEW c \in Crons, NEW enabled \in BOOLEAN,
               CreateSource(c, enabled)
        PROVE  KnownIds' /\ HeldCrons' /\ NextFollowsCron'
    <2> DEFINE new == [cron |-> c, enabled |-> enabled,
                       next |-> None, zone |-> None]
    <2>1. /\ lastId' = lastId + 1 /\ lastId \in Nat
          /\ rows' = [rows EXCEPT ![lastId'] = new]
          /\ UNCHANGED <<tick, raced>>
          /\ Ids \subseteq Nat
      BY <1>0, <1>1, ConstantsAssumption DEF CreateSource, TypeOK, Ids
    <2>2. \A j \in Ids : j # lastId' => rows'[j] = rows[j]
      BY <1>0, <2>1 DEF TypeOK
    <2>3. lastId' \notin tick.todo
      <3>1. ASSUME lastId' \in tick.todo
            PROVE  FALSE
        <4>1. lastId' <= lastId
          BY <1>0, <3>1 DEF CronInv, KnownIds, TypeOK
        <4> QED
          BY <2>1, <4>1
      <3> QED
        BY <3>1
    <2>4. lastId' \in Ids => rows'[lastId'].next = None
      BY <1>0, <2>1 DEF TypeOK
    <2>5. KnownIds'
      <3>1. ASSUME NEW j \in Ids, rows'[j] # None \/ j \in tick.todo
            PROVE  j <= lastId'
        BY <2>1, <2>2, <3>1 DEF CronInv, KnownIds, Exists
      <3> QED
        BY <2>1, <3>1 DEF KnownIds, Exists
    <2>6. HeldCrons'
      BY <1>0, <2>1, <2>2, <2>3 DEF CronInv, HeldCrons, Exists, TypeOK
    <2>7. NextFollowsCron'
      BY <2>1, <2>2, <2>4 DEF CronInv, NextFollowsCron, Exists
    <2> QED
      BY <2>5, <2>6, <2>7
  <1>2. ASSUME NEW i \in Ids, NEW c \in Crons, NEW enabled \in BOOLEAN,
               UpdateSource(i, c, enabled)
        PROVE  KnownIds' /\ HeldCrons' /\ NextFollowsCron'
    <2> DEFINE new == Edited(rows[i], c, enabled)
    <2>1. /\ rows[i] # None /\ rows[i] \in Row
          /\ \A j \in Ids : j # i => rows'[j] = rows[j]
          /\ rows'[i] = new
          /\ UNCHANGED <<lastId, tick>>
          /\ raced' = IF c = rows[i].cron THEN raced
                      ELSE IF i \in tick.todo THEN raced \cup {i}
                      ELSE raced \ {i}
      BY <1>0, <1>2 DEF UpdateSource, Exists, TypeOK
    <2>2. /\ new.cron = c
          /\ c = rows[i].cron =>
               new.next = rows[i].next /\ new.zone = rows[i].zone
          /\ c # rows[i].cron => new.next = None
      BY <2>1 DEF Edited, Row
    <2> HIDE DEF new
    <2>3. KnownIds'
      BY <2>1 DEF CronInv, KnownIds, Exists
    <2>4. HeldCrons'
      BY <1>0, <2>1, <2>2 DEF CronInv, HeldCrons, Exists, TypeOK
    <2>5. NextFollowsCron'
      <3>1. ASSUME NEW j \in Ids, rows'[j] # None, rows'[j].next # None,
                   j \notin raced'
            PROVE  rows'[j].next \in Calendar[rows'[j].cron][rows'[j].zone]
        <4>1. CASE j = i
          BY <2>1, <2>2, <3>1, <4>1 DEF CronInv, NextFollowsCron, Exists
        <4>2. CASE j # i
          BY <2>1, <3>1, <4>2 DEF CronInv, NextFollowsCron, Exists
        <4> QED
          BY <4>1, <4>2
      <3> QED
        BY <3>1 DEF NextFollowsCron, Exists
    <2> QED
      BY <2>3, <2>4, <2>5
  <1>3. ASSUME NEW i \in Ids, DeleteSource(i)
        PROVE  KnownIds' /\ HeldCrons' /\ NextFollowsCron'
    <2>1. /\ rows'[i] = None
          /\ \A j \in Ids : j # i => rows'[j] = rows[j]
          /\ UNCHANGED <<lastId, tick, raced>>
      BY <1>0, <1>3 DEF DeleteSource, TypeOK
    <2> QED
      BY <1>0, <2>1
         DEF CronInv, KnownIds, HeldCrons, NextFollowsCron, Exists, TypeOK
  <1>4. ASSUME NEW i \in Ids, RunByHand(i) \/ Finish(i)
        PROVE  KnownIds' /\ HeldCrons' /\ NextFollowsCron'
    BY <1>4, CronKept DEF RunByHand, Finish
  <1>5. CASE ReadSources
    <2>1. /\ tick'.todo = {i \in Ids : Exists(i)} /\ tick'.rows = rows
          /\ UNCHANGED <<rows, raced, lastId>>
      BY <1>5 DEF ReadSources, Listed
    <2> QED
      BY <2>1 DEF CronInv, KnownIds, HeldCrons, NextFollowsCron, Exists
  <1>6. CASE ReadFails
    BY <1>6, CronKept DEF ReadFails, Asleep
  <1>7. ASSUME NEW i \in Ids, TickRow(i)
        PROVE  KnownIds' /\ HeldCrons' /\ NextFollowsCron'
    <2>1. i \in tick.todo
      BY <1>7 DEF TickRow, PassOver, Plan, PlanFails, DueNow, Fire, FireFails,
                  Reschedule, RescheduleFails, Turn
    <2>2. CASE NextRow(i) /\ UNCHANGED <<rows, raced, lastId>>
      BY <1>0, <2>2, NextRowType, CronKept
    <2>3. CASE PassOver(i) \/ PlanFails(i) \/ FireFails(i)
                 \/ RescheduleFails(i)
      BY <2>2, <2>3 DEF PassOver, PlanFails, FireFails, RescheduleFails, Caught
    <2>4. CASE Fire(i)
      <3>1. tick' = [tick EXCEPT !.phase = "write"]
        BY <2>4 DEF Fire
      <3>2. tick'.todo = tick.todo /\ tick'.rows = tick.rows
        BY <1>0, <3>1 DEF TypeOK
      <3> QED
        BY <2>4, <3>2, CronKept DEF Fire
    <2>5. CASE Plan(i)
      BY <2>1, <2>2, <2>5, CronStored DEF Plan, Caught
    <2>6. CASE Reschedule(i)
      BY <2>1, <2>2, <2>6, CronStored DEF Reschedule, Caught
    <2> QED
      BY <1>7, <2>3, <2>4, <2>5, <2>6 DEF TickRow
  <1>8. CASE Advance
    BY <1>8, CronKept DEF Advance
  <1>9. ASSUME NEW z \in Zones, Restart(z)
        PROVE  KnownIds' /\ HeldCrons' /\ NextFollowsCron'
    BY <1>9, CronKept DEF Restart, Asleep
  <1>10. CASE UNCHANGED vars
    BY <1>10, CronKept DEF vars
  <1> QED
    BY <1>1, <1>2, <1>3, <1>4, <1>5, <1>6, <1>7, <1>8, <1>9, <1>10 DEF Next

(* A planned run is an occurrence of the source's own cron expression in   *)
(* the zone stored beside it, unless the expression was edited while the   *)
(* tick held the row.                                                      *)
THEOREM PlansFollowCron == Spec => []NextFollowsCron
  <1>1. CronInv => NextFollowsCron
    BY DEF CronInv
  <1> QED
    BY <1>1, CronInit, CronNext, PTL DEF Spec

-----------------------------------------------------------------------------
(* The clock never goes back, and no run that is planned, or held by the   *)
(* tick, is as early as the one that was triggered last: except for the    *)
(* row between its trigger and the write of its next run.                  *)
Busy == tick.phase \in {"row", "write"}

ClockInv ==
    /\ Busy => tick.now <= now
    /\ \A i \in Ids : fired[i] # None =>
         fired[i] <= now /\ (Busy => fired[i] <= tick.now)

Ahead(row, i) == row # None /\ row.next # None => row.next > fired[i]

Writing(i) == tick.phase = "write" /\ Turn(i)

FiredInv ==
    \A i \in Ids : fired[i] # None =>
        \/ Writing(i)
        \/ Ahead(rows[i], i) /\ (i \in tick.todo => Ahead(tick.rows[i], i))

OnceInv == TypeOK /\ ClockInv /\ FiredInv

LEMMA OnceInit == Init => OnceInv
  BY TypeInit DEF Init, OnceInv, ClockInv, FiredInv, Asleep, Busy

(* What the clock shows, and the moments a source was triggered for.       *)
LEMMA ClockType ==
  ASSUME TypeOK
  PROVE  /\ now \in Nat /\ tick.now \in Nat
         /\ \A i \in Ids : fired[i] # None => fired[i] \in Nat
  <1>1. now \in 0..MaxTime /\ tick.now \in 0..MaxTime
    BY DEF TypeOK
  <1>2. MaxTime \in Nat
    BY ConstantsAssumption
  <1>3. now \in Nat /\ tick.now \in Nat
    BY <1>1, <1>2
  <1>4. \A i \in Ids : fired[i] # None => fired[i] \in Times
    BY DEF TypeOK
  <1>5. \A i \in Ids : fired[i] # None => fired[i] \in Nat
    BY <1>4, TimesAreNat
  <1> QED
    BY <1>3, <1>5

(* Steps of others: the tick and its trigger stay as they are, and a row   *)
(* either keeps its planned run or loses it.                               *)
LEMMA OnceKept ==
  ASSUME OnceInv, TypeOK', UNCHANGED <<tick, fired>>, now' >= now,
         \A i \in Ids : \/ rows'[i] = None
                        \/ rows'[i].next = None
                        \/ rows[i] # None /\ rows'[i].next = rows[i].next
  PROVE  ClockInv' /\ FiredInv'
  <1>1. ClockInv'
    <2>1. /\ now \in Nat /\ tick.now \in Nat
          /\ \A i \in Ids : fired[i] # None => fired[i] \in Nat
      BY ClockType DEF OnceInv
    <2>2. now' \in Nat
      <3>1. now' \in 0..MaxTime
        BY DEF TypeOK
      <3> QED
        BY <3>1, ConstantsAssumption
    <2> QED
      BY <2>1, <2>2 DEF OnceInv, ClockInv, Busy
  <1>2. FiredInv'
    <2>1. ASSUME NEW i \in Ids, fired[i] # None, ~Writing(i)
          PROVE  /\ Ahead(rows[i], i)'
                 /\ i \in tick.todo => Ahead(tick.rows[i], i)'
      BY <2>1 DEF OnceInv, FiredInv, Ahead
    <2> QED
      BY <2>1 DEF FiredInv, Writing, Turn
  <1> QED
    BY <1>1, <1>2

(* The tick goes on to another row or sleeps; the run of the row it leaves *)
(* is ahead of what was triggered, or nothing is known to be triggered.    *)
LEMMA OnceMoved ==
  ASSUME OnceInv, NEW i \in tick.todo, Turn(i), Busy, NextRow(i),
         UNCHANGED now,
         \A j \in Ids \ {i} : fired'[j] = fired[j] /\ rows'[j] = rows[j],
         \/ fired'[i] = None
         \/ fired'[i] = fired[i] /\ (fired[i] # None => Ahead(rows'[i], i))
  PROVE  ClockInv' /\ FiredInv'
  <1>1. TypeOK /\ i \in Ids
    BY DEF OnceInv, TypeOK
  <1>2. /\ tick'.phase \in {"asleep", "row"}
        /\ tick'.todo \subseteq tick.todo \ {i}
        /\ tick'.phase # "asleep" => tick'.now = tick.now
        /\ tick'.todo # {} => tick'.rows = tick.rows
    BY <1>1, NextRowType
  <1>3. ASSUME NEW j \in Ids, j # i
        PROVE  ~Writing(j) \/ j \notin tick.todo
    <2>1. ASSUME j \in tick.todo, Turn(j)
          PROVE  FALSE
      <3>1. i <= j /\ j <= i /\ i \in Nat /\ j \in Nat
        BY <1>1, <2>1, ConstantsAssumption DEF Turn, Ids
      <3> QED
        BY <1>3, <3>1
    <2> QED
      BY <2>1 DEF Writing
  <1>4. ClockInv'
    BY <1>2 DEF OnceInv, ClockInv, Busy
  <1>5. FiredInv'
    <2>1. ASSUME NEW j \in Ids, fired'[j] # None
          PROVE  /\ Ahead(rows[j], j)'
                 /\ j \in tick'.todo => Ahead(tick.rows[j], j)'
      <3>1. CASE j = i
        BY <1>2, <2>1, <3>1 DEF Ahead
      <3>2. CASE j # i
        <4>1. ~Writing(j)
          BY <1>3, <3>2 DEF Writing, Turn
        <4> QED
          BY <1>2, <2>1, <3>2, <4>1 DEF OnceInv, FiredInv, Ahead
      <3> QED
        BY <3>1, <3>2
    <2> QED
      BY <2>1 DEF FiredInv
  <1> QED
    BY <1>4, <1>5

(* The next run that is stored is ahead of the one that was triggered.     *)
LEMMA OnceStored ==
  ASSUME OnceInv, NEW i \in tick.todo, Turn(i), Busy, NextRow(i),
         ~Raises(tick.rows[i].cron),
         StoreNextRun(i, NextRun(tick.rows[i].cron, zone, tick.now)),
         UNCHANGED <<now, fired>>
  PROVE  ClockInv' /\ FiredInv'
  <1> DEFINE t == NextRun(tick.rows[i].cron, zone, tick.now)
  <1>1. TypeOK /\ i \in Ids /\ tick.rows[i] \in Row
    BY TickRowType DEF OnceInv
  <1>2. t \in Times /\ t > tick.now
    BY <1>1, NextRunIsLater DEF Raises, Row, TypeOK
  <1> HIDE DEF t
  <1>3. /\ \A j \in Ids \ {i} : rows'[j] = rows[j]
        /\ rows[i] = None => rows' = rows
        /\ rows[i] # None => rows'[i].next = t
    BY <1>1, <1>2, StoreType DEF t
  <1>4. ASSUME fired[i] # None
        PROVE  Ahead(rows'[i], i)
    <2>1. fired[i] \in Nat /\ tick.now \in Nat /\ t \in Nat
      BY <1>1, <1>2, <1>4, ClockType, TimesAreNat
    <2>2. fired[i] <= tick.now
      BY <1>1, <1>4 DEF OnceInv, ClockInv
    <2>3. t > fired[i]
      BY <1>2, <2>1, <2>2
    <2> QED
      BY <1>3, <2>3 DEF Ahead
  <1> QED
    BY <1>3, <1>4, OnceMoved

LEMMA OnceNext == OnceInv /\ [Next]_vars => OnceInv'
  <1> SUFFICES ASSUME OnceInv, [Next]_vars, TypeOK'
               PROVE  ClockInv' /\ FiredInv'
    BY TypeNext DEF OnceInv
  <1>0. TypeOK /\ now \in Nat /\ now' \in Nat
    BY ConstantsAssumption DEF OnceInv, TypeOK
  <1>1. ASSUME NEW c \in Crons, NEW enabled \in BOOLEAN,
               CreateSource(c, enabled)
        PROVE  ClockInv' /\ FiredInv'
    BY <1>0, <1>1, OnceKept DEF CreateSource, TypeOK
  <1>2. ASSUME NEW i \in Ids, NEW c \in Crons, NEW enabled \in BOOLEAN,
               UpdateSource(i, c, enabled)
        PROVE  ClockInv' /\ FiredInv'
    <2>1. rows[i] \in Row /\ rows[i] # None
      BY <1>0, <1>2 DEF UpdateSource, Exists, TypeOK
    <2>2. \/ Edited(rows[i], c, enabled).next = None
          \/ Edited(rows[i], c, enabled).next = rows[i].next
      BY <2>1 DEF Edited, Row
    <2>3. \A j \in Ids : \/ rows'[j] = rows[j]
                         \/ j = i /\ rows'[i] = Edited(rows[i], c, enabled)
      BY <1>0, <1>2 DEF UpdateSource, TypeOK
    <2>4. \A j \in Ids : \/ rows'[j] = None
                         \/ rows'[j].next = None
                         \/ rows[j] # None /\ rows'[j].next = rows[j].next
      BY <2>1, <2>2, <2>3
    <2> QED
      BY <1>0, <1>2, <2>4, OnceKept DEF UpdateSource
  <1>3. ASSUME NEW i \in Ids, DeleteSource(i)
        PROVE  ClockInv' /\ FiredInv'
    BY <1>0, <1>3, OnceKept DEF DeleteSource, TypeOK
  <1>4. ASSUME NEW i \in Ids, RunByHand(i) \/ Finish(i)
        PROVE  ClockInv' /\ FiredInv'
    BY <1>0, <1>4, OnceKept DEF RunByHand, Finish
  <1>5. CASE ReadSources
    <2>1. /\ tick'.rows = rows /\ tick'.now = now
          /\ UNCHANGED <<rows, now, fired>>
          /\ ~Busy
      BY <1>5 DEF ReadSources, Busy
    <2>2. FiredInv'
      BY <2>1 DEF OnceInv, FiredInv, Writing, Busy, Ahead
    <2> QED
      BY <1>0, <2>1, <2>2 DEF OnceInv, ClockInv
  <1>6. CASE ReadFails
    <2>1. /\ tick'.phase = "ended" /\ tick'.todo = {}
          /\ UNCHANGED <<rows, now, fired>>
          /\ ~Busy
      BY <1>6 DEF ReadFails, Asleep, Busy
    <2> QED
      BY <2>1 DEF OnceInv, ClockInv, FiredInv, Writing, Busy, Ahead
  <1>7. ASSUME NEW i \in Ids, TickRow(i)
        PROVE  ClockInv' /\ FiredInv'
    <2>1. i \in tick.todo /\ Turn(i) /\ Busy
      BY <1>7 DEF TickRow, PassOver, Plan, PlanFails, DueNow, Fire, FireFails,
                  Reschedule, RescheduleFails, Turn, Busy
    <2>2. ASSUME tick.phase = "row"
          PROVE  fired[i] # None => Ahead(rows[i], i) /\ Ahead(tick.rows[i], i)
      BY <2>1, <2>2 DEF OnceInv, FiredInv, Writing
    <2>3. CASE PassOver(i) \/ PlanFails(i) \/ FireFails(i)
      <3>1. /\ NextRow(i) /\ UNCHANGED <<rows, fired, now>>
            /\ tick.phase = "row"
        BY <2>3 DEF PassOver, PlanFails, FireFails, DueNow, Caught
      <3>2. fired[i] # None => Ahead(rows'[i], i)
        BY <2>2, <3>1
      <3> QED
        BY <2>1, <3>1, <3>2, OnceMoved
    <2>4. CASE RescheduleFails(i)
      <3>1. /\ NextRow(i) /\ UNCHANGED <<rows, now>>
            /\ fired'[i] = None
            /\ \A j \in Ids \ {i} : fired'[j] = fired[j]
        BY <1>0, <2>4 DEF RescheduleFails, Caught, TypeOK
      <3> QED
        BY <2>1, <3>1, OnceMoved
    <2>5. CASE Plan(i)
      <3>1. CASE Raises(tick.rows[i].cron)
        <4>1. /\ NextRow(i) /\ UNCHANGED <<rows, fired, now>>
              /\ tick.phase = "row"
          BY <2>5, <3>1 DEF Plan, Caught
        <4>2. fired[i] # None => Ahead(rows'[i], i)
          BY <2>2, <4>1
        <4> QED
          BY <2>1, <4>1, <4>2, OnceMoved
      <3>2. CASE ~Raises(tick.rows[i].cron)
        BY <2>1, <2>5, <3>2, OnceStored DEF Plan
      <3> QED
        BY <3>1, <3>2
    <2>6. CASE Reschedule(i)
      <3>1. CASE Raises(tick.rows[i].cron)
        <4>1. /\ NextRow(i) /\ UNCHANGED <<rows, now>>
              /\ fired'[i] = None
              /\ \A j \in Ids \ {i} : fired'[j] = fired[j]
          BY <1>0, <2>6, <3>1 DEF Reschedule, Caught, TypeOK
        <4> QED
          BY <2>1, <4>1, OnceMoved
      <3>2. CASE ~Raises(tick.rows[i].cron)
        BY <2>1, <2>6, <3>2, OnceStored DEF Reschedule
      <3> QED
        BY <3>1, <3>2
    <2>7. CASE Fire(i)
      <3>1. /\ tick' = [tick EXCEPT !.phase = "write"]
            /\ UNCHANGED <<rows, now>>
            /\ tick.now >= tick.rows[i].next
            /\ tick.rows[i].next # None
            /\ \/ fired' = fired
               \/ fired' = [fired EXCEPT ![i] = tick.rows[i].next]
        BY <2>7 DEF Fire, DueNow, Planned
      <3>2. /\ tick'.phase = "write" /\ tick'.todo = tick.todo
            /\ tick'.rows = tick.rows /\ tick'.now = tick.now
        BY <1>0, <3>1 DEF TypeOK
      <3>3. tick.rows[i].next \in Nat /\ tick.now \in Nat
        <4>1. tick.rows[i] \in Row /\ tick.now \in 0..MaxTime
          BY <1>0, <2>1, TickRowType DEF TypeOK
        <4> QED
          BY <3>1, <4>1, TimesAreNat, ConstantsAssumption DEF Row
      <3>4. ClockInv'
        BY <1>0, <2>1, <3>1, <3>2, <3>3 DEF OnceInv, ClockInv, Busy, TypeOK
      <3>5. Writing(i)'
        BY <2>1, <3>2 DEF Writing, Turn
      <3>6. ASSUME NEW j \in Ids, j # i, fired'[j] # None
            PROVE  /\ Ahead(rows[j], j)'
                   /\ j \in tick'.todo => Ahead(tick.rows[j], j)'
        <4>1. fired'[j] = fired[j] /\ ~Writing(j)
          BY <1>0, <2>7, <3>1, <3>6 DEF Fire, DueNow, Writing, TypeOK
        <4> QED
          BY <3>1, <3>2, <3>6, <4>1 DEF OnceInv, FiredInv, Ahead
      <3> QED
        BY <3>4, <3>5, <3>6 DEF FiredInv
    <2> QED
      BY <1>7, <2>3, <2>4, <2>5, <2>6, <2>7 DEF TickRow
  <1>8. CASE Advance
    BY <1>0, <1>8, OnceKept DEF Advance
  <1>9. ASSUME NEW z \in Zones, Restart(z)
        PROVE  ClockInv' /\ FiredInv'
    <2>1. /\ tick'.phase = "asleep" /\ tick'.todo = {}
          /\ UNCHANGED <<rows, now>>
          /\ \A i \in Ids :
               fired'[i] = IF Writing(i) THEN None ELSE fired[i]
      BY <1>0, <1>9 DEF Restart, Asleep, Writing, TypeOK
    <2> QED
      BY <2>1 DEF OnceInv, ClockInv, FiredInv, Busy, Ahead
  <1>10. CASE UNCHANGED vars
    BY <1>0, <1>10, OnceKept DEF vars
  <1> QED
    BY <1>1, <1>2, <1>3, <1>4, <1>5, <1>6, <1>7, <1>8, <1>9, <1>10 DEF Next

(* An occurrence triggers a source once, whatever edits, restarts and      *)
(* other time zones do to the schedule in between.                         *)
THEOREM OccurrencesFireOnce == Spec => OncePerOccurrence
  <1>1. OnceInv /\ [Next]_vars
        => [\A i \in Ids : tick.phase = "row" /\ i \in running' \ running
              => fired[i] = None \/ tick.rows[i].next > fired[i]]_vars
    <2> SUFFICES ASSUME OnceInv, Next, NEW i \in Ids,
                        tick.phase = "row", i \in running' \ running,
                        fired[i] # None
                 PROVE  tick.rows[i].next > fired[i]
      OBVIOUS
    <2>1. ASSUME NEW j \in Ids, TickRow(j)
          PROVE  tick.rows[i].next > fired[i]
      <3>1. DueNow(j) /\ running' = running \cup {j}
        BY <2>1 DEF TickRow, PassOver, Plan, PlanFails, Fire, FireFails,
                    Reschedule, RescheduleFails, counters
      <3>2. i = j /\ i \in tick.todo /\ tick.rows[i].next # None
        BY <3>1 DEF DueNow, Planned, Turn
      <3>3. tick.rows[i] # None
        BY <3>2 DEF OnceInv, TypeOK
      <3> QED
        BY <3>2, <3>3 DEF OnceInv, FiredInv, Writing, Ahead
    <2> QED
      BY <2>1 DEF Next, CreateSource, UpdateSource, DeleteSource, RunByHand,
                  Finish, LoopFree, ReadSources, ReadFails, Advance, Restart
  <1>2. Spec => []OnceInv
    BY OnceInit, OnceNext, PTL DEF Spec
  <1> QED
    BY <1>1, <1>2, PTL DEF Spec, OncePerOccurrence
=============================================================================
