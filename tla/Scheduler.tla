------------------------------ MODULE Scheduler ------------------------------
(***************************************************************************)
(* The scheduler of the Orchestrator (orchestrator/app/scheduler.py) and   *)
(* the schedule columns of the sources table (orchestrator/app/db.py).     *)
(*                                                                         *)
(* A tick reads all sources at once and works the rows off one by one.  It *)
(* never awaits anything that suspends, so no other coroutine runs until   *)
(* it sleeps; but threads of the HTTP server edit the same rows in SQLite  *)
(* between any two of its statements.                                      *)
(*                                                                         *)
(* A source is told apart by its id alone.  Names, the run rows and what a *)
(* run does are the subject of module Orchestrator.                        *)
(***************************************************************************)
EXTENDS Naturals

CONSTANTS
    MaxSources,   \* bound: sources ever created
    Crons,        \* the cron expressions
    Zones,        \* the time zones TZ can be set to
    Calendar,     \* cron, zone -> the times at which it is due
    None,         \* SQL NULL, and "no such row"
    MaxTime,      \* bound: the last moment of the clock
    MaxEdits,     \* bound: edits of sources
    MaxFailures,  \* bound: statements of SQLite that fail
    MaxRestarts   \* bound: restarts of the Orchestrator

(* An expression croniter cannot parse, or one that is never due, has an   *)
(* empty calendar; any other one is due again after any moment the clock   *)
(* can show, and croniter finds the first.                                 *)
ASSUME ConstantsAssumption ==
    /\ {MaxSources, MaxTime, MaxEdits, MaxFailures, MaxRestarts} \subseteq Nat
    /\ Calendar \in [Crons -> [Zones -> SUBSET Nat]]
    /\ \A c \in Crons, z \in Zones, now \in 0..MaxTime :
         Calendar[c][z] # {} =>
           \E t \in Calendar[c][z] :
             t > now /\ \A u \in Calendar[c][z] : u > now => t <= u
    /\ None \notin Nat \cup Zones

Ids == 1..MaxSources
Times == UNION {Calendar[c][z] : c \in Crons, z \in Zones}

(* next and zone are the columns next_run and next_run_timezone.           *)
Row == [cron : Crons, enabled : BOOLEAN,
        next : Times \cup {None}, zone : Zones \cup {None}]

ASSUME NoneAssumption == None \notin Row

Phases == {"asleep", "row", "write", "ended"}

VARIABLES
    rows,      \* table sources: id -> row, None if there is none
    lastId,    \* the AUTOINCREMENT counter of sources
    now,       \* the clock
    zone,      \* TIME_ZONE of the process
    running,   \* runner._running
    tick,      \* where the scheduler's task is, what it has read
    edits,     \* history: edits so far
    failures,  \* history: failures so far
    restarts,  \* history: restarts so far
    raced,     \* history: the cron was edited while the tick held the row
    fired      \* history: the next_run a source was last triggered for, None
               \* if the one after it could not be stored

vars == <<rows, lastId, now, zone, running, tick, edits, failures, restarts,
          raced, fired>>
counters == <<edits, failures, restarts>>

Asleep ==
    [phase |-> "asleep", now |-> 0, rows |-> [i \in Ids |-> None], todo |-> {}]

TypeOK ==
    /\ rows \in [Ids -> Row \cup {None}]
    /\ lastId \in 0..MaxSources
    /\ now \in 0..MaxTime
    /\ zone \in Zones
    /\ running \subseteq Ids
    /\ tick \in [phase : Phases, now : 0..MaxTime,
                 rows : [Ids -> Row \cup {None}], todo : SUBSET Ids]
    /\ \A i \in tick.todo : tick.rows[i] # None
    /\ edits \in 0..MaxEdits
    /\ failures \in 0..MaxFailures
    /\ restarts \in 0..MaxRestarts
    /\ raced \subseteq Ids
    /\ fired \in [Ids -> Times \cup {None}]

Init ==
    /\ rows = [i \in Ids |-> None]
    /\ lastId = 0
    /\ now = 0
    /\ zone \in Zones
    /\ running = {}
    /\ tick = Asleep
    /\ edits = 0
    /\ failures = 0
    /\ restarts = 0
    /\ raced = {}
    /\ fired = [i \in Ids |-> None]

-----------------------------------------------------------------------------
(* Threads of the HTTP server.                                             *)

Exists(i) == rows[i] # None

(* create_source: next_run is NULL.                                        *)
CreateSource(c, enabled) ==
    /\ lastId < MaxSources
    /\ lastId' = lastId + 1
    /\ rows' = [rows EXCEPT ![lastId'] =
                  [cron |-> c, enabled |-> enabled,
                   next |-> None, zone |-> None]]
    /\ UNCHANGED <<now, zone, running, tick, counters, raced, fired>>

(* Faulty: an edit leaves the planned run alone.                           *)
KeptPlan(row, c, enabled) == [row EXCEPT !.cron = c, !.enabled = enabled]

(* The two CASEs of db.update_source: a new cron drops the planned run.    *)
Edited(row, c, enabled) ==
    IF c = row.cron
      THEN [row EXCEPT !.enabled = enabled]
      ELSE [cron |-> c, enabled |-> enabled, next |-> None, zone |-> None]

UpdateSource(i, c, enabled) ==
    /\ Exists(i)
    /\ <<c, enabled>> # <<rows[i].cron, rows[i].enabled>>
    /\ edits < MaxEdits
    /\ edits' = edits + 1
    /\ rows' = [rows EXCEPT ![i] = Edited(@, c, enabled)]
    /\ raced' = IF c = rows[i].cron THEN raced
                ELSE IF i \in tick.todo THEN raced \cup {i}
                ELSE raced \ {i}
    /\ UNCHANGED <<lastId, now, zone, running, tick, failures, restarts,
                   fired>>

DeleteSource(i) ==
    /\ Exists(i)
    /\ edits < MaxEdits
    /\ edits' = edits + 1
    /\ rows' = [rows EXCEPT ![i] = None]
    /\ UNCHANGED <<lastId, now, zone, running, tick, failures, restarts,
                   raced, fired>>

-----------------------------------------------------------------------------
(* Other coroutines: they run while the scheduler's task sleeps or is over.*)

LoopFree == tick.phase \in {"asleep", "ended"}

(* api_run_source, api_full_reload: 409 if the source is running.          *)
RunByHand(i) ==
    /\ LoopFree
    /\ Exists(i)
    /\ i \notin running
    /\ running' = running \cup {i}
    /\ UNCHANGED <<rows, lastId, now, zone, tick, counters, raced, fired>>

(* The finally clause of a run's _worker.                                  *)
Finish(i) ==
    /\ LoopFree
    /\ i \in running
    /\ running' = running \ {i}
    /\ UNCHANGED <<rows, lastId, now, zone, tick, counters, raced, fired>>

-----------------------------------------------------------------------------
(* A tick.                                                                 *)

(* list_sources: the rows there are.                                       *)
Listed == {i \in Ids : Exists(i)}

(* The interval is over: the clock is read, then all sources.  If there is *)
(* none the task sleeps again.                                             *)
ReadSources ==
    /\ tick.phase = "asleep"
    /\ Listed # {}
    /\ tick' = [phase |-> "row", now |-> now, rows |-> rows, todo |-> Listed]
    /\ UNCHANGED <<rows, lastId, now, zone, running, counters, raced, fired>>

(* list_sources is called outside the try: an exception ends the task.     *)
ReadFails ==
    /\ tick.phase = "asleep"
    /\ failures < MaxFailures
    /\ failures' = failures + 1
    /\ tick' = [Asleep EXCEPT !.phase = "ended"]
    /\ UNCHANGED <<rows, lastId, now, zone, running, edits, restarts, raced,
                   fired>>

(* ORDER BY id.                                                            *)
Turn(i) ==
    /\ i \in tick.todo
    /\ \A j \in tick.todo : i <= j

(* Faulty: an exception leaves the loop over the rows.                     *)
TickOver(i) == tick' = Asleep

(* On to the next row; the task sleeps after the last.                     *)
NextRow(i) ==
    tick' = IF tick.todo = {i} THEN Asleep
            ELSE [tick EXCEPT !.phase = "row", !.todo = @ \ {i}]

(* The except clause around a row: the exception is logged.                *)
Caught(i) == NextRow(i)

(* Faulty: an occurrence at the present moment counts as the next.         *)
NotBefore(c, z, t) == {u \in Calendar[c][z] : u >= t}

(* croniter(cron, now): the occurrences it can return.                     *)
Later(c, z, t) == {u \in Calendar[c][z] : u > t}

NextRun(c, z, t) ==
    CHOOSE u \in Later(c, z, t) : \A v \in Later(c, z, t) : u <= v

Raises(c) == Later(c, zone, tick.now) = {}

(* update_source_next_run: by id, whatever else the row says by now.       *)
StoreNextRun(i, t) ==
    /\ rows' = IF Exists(i) THEN [rows EXCEPT ![i].next = t, ![i].zone = zone]
               ELSE rows
    /\ raced' = IF Exists(i) /\ rows[i].cron = tick.rows[i].cron
                  THEN raced \ {i} ELSE raced

(* Faulty: whatever zone it was calculated in.                             *)
PlannedAnywhere(row) == row.next # None

Planned(row) == row.next # None /\ row.zone = zone

(* Disabled, or not yet due.                                               *)
PassOver(i) ==
    /\ tick.phase = "row"
    /\ Turn(i)
    /\ \/ ~tick.rows[i].enabled
       \/ Planned(tick.rows[i]) /\ tick.now < tick.rows[i].next
    /\ NextRow(i)
    /\ UNCHANGED <<rows, lastId, now, zone, running, counters, raced, fired>>

(* A source without a planned run, or with one planned in another zone.    *)
Plan(i) ==
    /\ tick.phase = "row"
    /\ Turn(i)
    /\ tick.rows[i].enabled
    /\ ~Planned(tick.rows[i])
    /\ IF Raises(tick.rows[i].cron)
         THEN Caught(i) /\ UNCHANGED <<rows, raced>>
         ELSE /\ StoreNextRun(i, NextRun(tick.rows[i].cron, zone, tick.now))
              /\ NextRow(i)
    /\ UNCHANGED <<lastId, now, zone, running, counters, fired>>

PlanFails(i) ==
    /\ tick.phase = "row"
    /\ Turn(i)
    /\ tick.rows[i].enabled
    /\ ~Planned(tick.rows[i])
    /\ failures < MaxFailures
    /\ failures' = failures + 1
    /\ Caught(i)
    /\ UNCHANGED <<rows, lastId, now, zone, running, edits, restarts, raced,
                   fired>>

DueNow(i) ==
    /\ tick.phase = "row"
    /\ Turn(i)
    /\ tick.rows[i].enabled
    /\ Planned(tick.rows[i])
    /\ tick.now >= tick.rows[i].next

(* A run is triggered from the row as it was read, unless one is running.  *)
Fire(i) ==
    /\ DueNow(i)
    /\ running' = running \cup {i}
    /\ fired' = IF i \in running THEN fired
                ELSE [fired EXCEPT ![i] = tick.rows[i].next]
    /\ tick' = [tick EXCEPT !.phase = "write"]
    /\ UNCHANGED <<rows, lastId, now, zone, counters, raced>>

(* trigger_run takes the name, then create_run raises.  No worker will     *)
(* give the name back: Finish(i) need not happen.                          *)
FireFails(i) ==
    /\ DueNow(i)
    /\ i \notin running
    /\ failures < MaxFailures
    /\ failures' = failures + 1
    /\ running' = running \cup {i}
    /\ Caught(i)
    /\ UNCHANGED <<rows, lastId, now, zone, edits, restarts, raced, fired>>

(* ... and the run after it is planned.  An expression that raises now was *)
(* edited after another one had been planned.                              *)
Reschedule(i) ==
    /\ tick.phase = "write"
    /\ Turn(i)
    /\ IF Raises(tick.rows[i].cron)
         THEN /\ Caught(i)
              /\ fired' = [fired EXCEPT ![i] = None]
              /\ UNCHANGED <<rows, raced>>
         ELSE /\ NextRow(i)
              /\ StoreNextRun(i, NextRun(tick.rows[i].cron, zone, tick.now))
              /\ UNCHANGED fired
    /\ UNCHANGED <<lastId, now, zone, running, counters>>

RescheduleFails(i) ==
    /\ tick.phase = "write"
    /\ Turn(i)
    /\ failures < MaxFailures
    /\ failures' = failures + 1
    /\ Caught(i)
    /\ fired' = [fired EXCEPT ![i] = None]
    /\ UNCHANGED <<rows, lastId, now, zone, running, edits, restarts, raced>>

-----------------------------------------------------------------------------
(* The environment.                                                        *)

Advance ==
    /\ now < MaxTime
    /\ now' = now + 1
    /\ UNCHANGED <<rows, lastId, zone, running, tick, counters, raced, fired>>

(* The process stops at any point and starts again, perhaps with another   *)
(* TZ.  Only the table survives.                                           *)
Restart(z) ==
    /\ restarts < MaxRestarts
    /\ restarts' = restarts + 1
    /\ zone' = z
    /\ running' = {}
    /\ tick' = Asleep
    /\ fired' = IF tick.phase = "write"
                  THEN [i \in Ids |-> IF Turn(i) THEN None ELSE fired[i]]
                  ELSE fired
    /\ UNCHANGED <<rows, lastId, now, edits, failures, raced>>

TickRow(i) ==
    \/ PassOver(i) \/ Plan(i) \/ PlanFails(i)
    \/ Fire(i) \/ FireFails(i) \/ Reschedule(i) \/ RescheduleFails(i)

Next ==
    \/ \E c \in Crons, enabled \in BOOLEAN : CreateSource(c, enabled)
    \/ \E i \in Ids, c \in Crons, enabled \in BOOLEAN :
         UpdateSource(i, c, enabled)
    \/ \E i \in Ids : DeleteSource(i) \/ RunByHand(i) \/ Finish(i)
    \/ ReadSources \/ ReadFails
    \/ \E i \in Ids : TickRow(i)
    \/ Advance
    \/ \E z \in Zones : Restart(z)

Spec == Init /\ [][Next]_vars

(* The task goes on as long as it lives: asyncio wakes it up after every   *)
(* interval, and nothing it calls waits for another coroutine.             *)
Fairness == WF_vars(ReadSources) /\ WF_vars(\E i \in Ids : TickRow(i))

FairSpec == Spec /\ Fairness

-----------------------------------------------------------------------------
(* Properties.                                                             *)

(* db.py:192 and copilot-instructions.md:88 "next_run_timezone tracks the  *)
(* zone used to calculate it": a planned run is an occurrence of the       *)
(* source's own cron in the zone stored beside it.  The only exception is  *)
(* a source whose cron was edited between the tick's read of the row and   *)
(* its write by id: the edit drops the plan, the write restores one of the *)
(* old cron.                                                               *)
NextFollowsCron ==
    \A i \in Ids : Exists(i) /\ rows[i].next # None /\ i \notin raced =>
        rows[i].next \in Calendar[rows[i].cron][rows[i].zone]

(* scheduler.py:45: an occurrence triggers a source once, and never after  *)
(* a later one, whatever is edited, restarted or moved to another zone,    *)
(* unless the next one could not be stored.                                *)
OncePerOccurrence ==
    [][\A i \in Ids :
         tick.phase = "row" /\ i \in running' \ running
           => fired[i] = None \/ tick.rows[i].next > fired[i]]_vars

InService(i) == Exists(i) /\ rows[i].enabled /\ tick.phase # "ended"

PlannedHere(i) == rows[i].next # None /\ rows[i].zone = zone

(* copilot-instructions.md:89 "A timezone change causes the scheduler to   *)
(* recalculate the stored next run": an enabled source, new, edited or     *)
(* planned in another zone, gets a planned run, though other expressions   *)
(* raise and statements fail.                                              *)
EnabledIsPlanned ==
    \A i \in Ids :
        InService(i) /\ Calendar[rows[i].cron][zone] # {}
        ~> \/ ~InService(i)
           \/ PlannedHere(i)
           \/ Calendar[rows[i].cron][zone] = {}

(* scheduler.py:56 "one bad cron expr must not kill the scheduler loop":   *)
(* a planned run whose time has come is triggered, or the source is found  *)
(* running, unless somebody takes the plan away or list_sources fails.     *)
DueIsServed ==
    \A i \in Ids :
        InService(i) /\ PlannedHere(i) /\ now >= rows[i].next
        ~> \/ i \in running
           \/ ~InService(i)
           \/ ~PlannedHere(i)
=============================================================================
