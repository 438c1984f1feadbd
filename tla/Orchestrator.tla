---------------------------- MODULE Orchestrator ----------------------------
(***************************************************************************)
(* The Orchestrator: the sources table, the run rows, the set of names     *)
(* that are running, the event loop that triggers runs and the worker      *)
(* threads that carry a run through extract, load, core and mart to the    *)
(* checkpoint (orchestrator/app/main.py, runner.py, pipeline.py, db.py).   *)
(*                                                                         *)
(* Three kinds of process interleave.  Threads of the HTTP server create,  *)
(* edit and delete sources, each in one SQLite transaction.  The event     *)
(* loop reads a source and later triggers it; no other coroutine runs in   *)
(* between, but threads do.  Each worker thread performs one step of       *)
(* run_pipeline_steps at a time.                                           *)
(*                                                                         *)
(* A payload is abstracted to the set of changes it carries: change        *)
(* <<u, t>> is the record that the endpoint at URL u has shown since time  *)
(* t, until it is deleted there or changed once more.  core and mart map a *)
(* source name, from which the code derives the table names, to the        *)
(* changes that have reached these tables.                                 *)
(***************************************************************************)
EXTENDS Naturals, FiniteSets

CONSTANTS
    Names,            \* the names a source can be given
    Urls,             \* the endpoints
    Contracts,        \* the settings whose edit resets a checkpoint
    None,             \* SQL NULL, and "no such row or process"
    Seed,             \* the row init_db inserts while its name is free, or
                      \* None if the seeded source is not among Names
    PoolSize,         \* threads of asyncio's default executor
    MaxSources,       \* bound: sources ever created
    MaxRuns,          \* bound: runs ever created
    MaxTime,          \* bound: changes a feed makes
    MaxRestarts,      \* bound: restarts of the Orchestrator
    Renames,          \* may an edit change the name of a source?
    EditsDuringRuns,  \* may a source be edited or deleted while it runs?
    WritesFail        \* may a write to SQLite fail?

Contract == [url : Urls,
             mode : {"full_snapshot", "incremental_upsert"},
             watermark : BOOLEAN]

ASSUME ConstantsAssumption ==
    /\ Contracts \subseteq Contract
    /\ PoolSize \in Nat \ {0}
    /\ {MaxSources, MaxRuns, MaxTime, MaxRestarts} \subseteq Nat
    /\ {Renames, EditsDuringRuns, WritesFail} \subseteq BOOLEAN

Ids == 1..MaxSources
RunIds == 1..MaxRuns
Times == 1..MaxTime
Changes == Urls \X Times
Checkpoints == Times \cup {None}

Row == [name : Names, contract : Contracts, checkpoint : Checkpoints]

(* What trigger_run is given: the source row as it was read, and the force *)
(* flag of a full reload.                                                  *)
Job == [id : Ids, name : Names, contract : Contracts,
        checkpoint : Checkpoints, force : BOOLEAN]

ASSUME SeedAssumption ==
    Seed # None => Seed \in Row /\ Seed.checkpoint = None /\ MaxSources > 0

(* A pc names the step of run_pipeline_steps that is next.  Between         *)
(* "preflight" and "finish" the worker holds a thread of the pool.         *)
ThreadPcs == {"preflight", "extract", "load", "core", "mart",
              "commit", "finish"}
Pcs == {"queued", "returned", "raised"} \cup ThreadPcs

Worker == [pc : Pcs, job : Job, got : SUBSET Changes, after : Checkpoints]

RunRow == [source : Names, status : {"queued", "running", "done", "failed"}]

(* NULL is neither a time nor a record.                                    *)
ASSUME NoneAssumption == None \notin Nat \cup Row \cup Worker \cup RunRow

VARIABLES
    sources,    \* table sources: id -> row, None if there is none
    lastId,     \* the AUTOINCREMENT counter of sources
    runs,       \* table runs: id -> source name and status
    lastRun,    \* the AUTOINCREMENT counter of runs
    running,    \* runner._running: names, not ids
    loop,       \* the job the event loop has read and not yet triggered
    worker,     \* run id -> its _worker and pipeline thread, None if none
    feed,       \* time of the last change at each URL, 0 before the first
    gone,       \* changes that an endpoint does not show any more
    core,       \* changes in the Core dimensions of a source name
    mart,       \* changes in the Mart tables of a source name
    advanced,   \* history: the runs that have moved a checkpoint
    unrecorded, \* history: the runs that ended without a record of it
    restarts    \* history: number of restarts

vars == <<sources, lastId, runs, lastRun, running, loop, worker, feed, gone,
          core, mart, advanced, unrecorded, restarts>>
tables == <<sources, lastId>>
process == <<running, loop>>
warehouse == <<core, mart>>

TypeOK ==
    /\ sources \in [Ids -> Row \cup {None}]
    /\ lastId \in 0..MaxSources
    /\ runs \in [RunIds -> RunRow \cup {None}]
    /\ lastRun \in 0..MaxRuns
    /\ running \subseteq Names
    /\ loop \in Job \cup {None}
    /\ worker \in [RunIds -> Worker \cup {None}]
    /\ feed \in [Urls -> 0..MaxTime]
    /\ gone \subseteq Changes
    /\ core \in [Names -> SUBSET Changes]
    /\ mart \in [Names -> SUBSET Changes]
    /\ advanced \subseteq RunIds
    /\ unrecorded \subseteq RunIds
    /\ restarts \in 0..MaxRestarts

Init ==
    /\ sources = [i \in Ids |-> IF i = 1 THEN Seed ELSE None]
    /\ lastId = IF Seed = None THEN 0 ELSE 1
    /\ runs = [r \in RunIds |-> None]
    /\ lastRun = 0
    /\ running = {}
    /\ loop = None
    /\ worker = [r \in RunIds |-> None]
    /\ feed = [u \in Urls |-> 0]
    /\ gone = {}
    /\ core = [n \in Names |-> {}]
    /\ mart = [n \in Names |-> {}]
    /\ advanced = {}
    /\ unrecorded = {}
    /\ restarts = 0

-----------------------------------------------------------------------------
(* The sources table, edited by threads of the HTTP server.                *)

NameFree(n) == \A i \in Ids : sources[i] # None => sources[i].name # n

Live(r) == worker[r] # None

InFlight(n) ==
    \/ loop # None /\ loop.name = n
    \/ \E r \in RunIds : Live(r) /\ worker[r].job.name = n

(* Not a guard of the code: whether the operator waits for a source to be  *)
(* idle before editing it.                                                 *)
MayEdit(i) == EditsDuringRuns \/ ~InFlight(sources[i].name)

(* api_create_source: 409 if the name is taken, and name is UNIQUE.        *)
CreateSource(n, c) ==
    /\ lastId < MaxSources
    /\ NameFree(n)
    /\ lastId' = lastId + 1
    /\ sources' = [sources EXCEPT ![lastId'] =
                     [name |-> n, contract |-> c, checkpoint |-> None]]
    /\ UNCHANGED <<runs, lastRun, process, worker, feed, gone, warehouse,
                   advanced, unrecorded, restarts>>

(* Faulty: an edit never drops the checkpoint.                             *)
KeptCheckpoint(row, c) == row.checkpoint

(* The CASE of db.update_source: an edit of the contract drops the         *)
(* checkpoint, any other edit keeps it.                                    *)
EditedCheckpoint(row, c) == IF c = row.contract THEN row.checkpoint ELSE None

(* api_update_source.  An edit that leaves name and contract alone (cron,  *)
(* enabled, policy, keys) is a stuttering step.  An edit to a taken name   *)
(* breaks UNIQUE and changes nothing.                                      *)
UpdateSource(i, n, c) ==
    /\ sources[i] # None
    /\ MayEdit(i)
    /\ <<n, c>> # <<sources[i].name, sources[i].contract>>
    /\ n # sources[i].name => Renames /\ NameFree(n)
    /\ sources' = [sources EXCEPT ![i] =
                     [name |-> n, contract |-> c,
                      checkpoint |-> EditedCheckpoint(@, c)]]
    /\ UNCHANGED <<lastId, runs, lastRun, process, worker, feed, gone,
                   warehouse, advanced, unrecorded, restarts>>

DeleteSource(i) ==
    /\ sources[i] # None
    /\ MayEdit(i)
    /\ sources' = [sources EXCEPT ![i] = None]
    /\ UNCHANGED <<lastId, runs, lastRun, process, worker, feed, gone,
                   warehouse, advanced, unrecorded, restarts>>

-----------------------------------------------------------------------------
(* The event loop: api_run_source, api_full_reload and the scheduler's     *)
(* tick read a row, then call runner.trigger_run with what they read.      *)

ReadSource(i, force) ==
    /\ loop = None
    /\ lastRun < MaxRuns
    /\ sources[i] # None
    /\ loop' = [id |-> i, name |-> sources[i].name,
                contract |-> sources[i].contract,
                checkpoint |-> sources[i].checkpoint, force |-> force]
    /\ UNCHANGED <<tables, runs, lastRun, running, worker, feed, gone,
                   warehouse, advanced, unrecorded, restarts>>

(* Faulty: asks the runs table instead, where a new run is still "queued". *)
NoRowRunning(n) ==
    \A r \in RunIds : runs[r] # None /\ runs[r].source = n
                        => runs[r].status # "running"

(* The test of _try_start, under runner._lock.                             *)
CanStart(n) == n \notin running

(* _try_start returns False: HTTP 409, or a skipped tick.                  *)
Refuse ==
    /\ loop # None
    /\ ~CanStart(loop.name)
    /\ loop' = None
    /\ UNCHANGED <<tables, runs, lastRun, running, worker, feed, gone,
                   warehouse, advanced, unrecorded, restarts>>

NewWorker(job) == [pc |-> "queued", job |-> job, got |-> {}, after |-> None]

(* trigger_run: take the name, insert the run row, create the task.        *)
Launch ==
    /\ loop # None
    /\ CanStart(loop.name)
    /\ running' = running \cup {loop.name}
    /\ lastRun' = lastRun + 1
    /\ runs' = [runs EXCEPT ![lastRun'] =
                  [source |-> loop.name, status |-> "queued"]]
    /\ worker' = [worker EXCEPT ![lastRun'] = NewWorker(loop)]
    /\ loop' = None
    /\ UNCHANGED <<tables, feed, gone, warehouse, advanced, unrecorded,
                   restarts>>

(* trigger_run when db.create_run raises: the name has been taken and no   *)
(* worker exists to give it back.                                          *)
LaunchFails ==
    /\ WritesFail
    /\ loop # None
    /\ CanStart(loop.name)
    /\ running' = running \cup {loop.name}
    /\ loop' = None
    /\ UNCHANGED <<tables, runs, lastRun, worker, feed, gone, warehouse,
                   advanced, unrecorded, restarts>>

-----------------------------------------------------------------------------
(* The worker thread: run_pipeline_steps.                                  *)

At(r, pc) == Live(r) /\ worker[r].pc = pc

Goto(r, pc) == worker' = [worker EXCEPT ![r].pc = pc]

ThreadsInUse == {r \in RunIds : Live(r) /\ worker[r].pc \in ThreadPcs}

(* A watermark is used, and required, only by an incremental source.       *)
Timestamped(c) == c.mode = "incremental_upsert" /\ c.watermark

Before(job) ==
    IF job.force \/ ~job.contract.watermark THEN None ELSE job.checkpoint

(* Faulty: a missing checkpoint does not force a full snapshot.            *)
SnapshotOnlyIfAsked(job) ==
    job.force \/ job.contract.mode = "full_snapshot"

(* The load mode run_pipeline_steps computes from the row it was given.    *)
FullSnapshot(job) ==
    \/ job.force
    \/ job.contract.watermark /\ Before(job) = None
    \/ job.contract.mode = "full_snapshot"

(* What the endpoint answers: all it shows, or what of this is newer than  *)
(* the checkpoint sent as incremental_param.  An incremental run without a *)
(* watermark sends no parameter.                                           *)
Since(job) == IF FullSnapshot(job) \/ Before(job) = None THEN 0
              ELSE Before(job)

Answer(job) == {<<job.contract.url, t>> : t \in
                  {x \in 1..feed[job.contract.url] : x > Since(job)}} \ gone

(* Faulty: the watermark of the record that happens to come last.          *)
OfTheLastRecord(changes) == {t \in Times : \E c \in changes : c[2] = t}

(* _checkpoint_after: the maximum of the watermarks.                       *)
Newest(changes) ==
    {t \in Times : /\ \E c \in changes : c[2] = t
                   /\ \A c \in changes : c[2] <= t}

(* checkpoint_after of the extractor: the newest watermark of the answer,  *)
(* or the previous checkpoint when that is empty.  There is none, and the  *)
(* extractor answers 502, when a watermark is required and there is        *)
(* neither a record nor a previous checkpoint to take it from.             *)
Afters(job) ==
    IF ~Timestamped(job.contract) THEN {None}
    ELSE IF Answer(job) = {} THEN {Before(job)} \ {None}
    ELSE Newest(Answer(job))

(* Faulty: the checkpoint is committed before the data is published.       *)
CheckpointFirst ==
    [preflight |-> "extract", extract |-> "load", load |-> "commit",
     commit |-> "core", core |-> "mart", mart |-> "finish"]

(* The order of the steps of run_pipeline_steps.                           *)
StepAfter ==
    [preflight |-> "extract", extract |-> "load", load |-> "core",
     core |-> "mart", mart |-> "commit", commit |-> "finish"]

Advance(r) == Goto(r, StepAfter[worker[r].pc])

(* A thread of the pool picks the run up and records what it will do.      *)
Start(r) ==
    /\ At(r, "queued")
    /\ Cardinality(ThreadsInUse) < PoolSize
    /\ Goto(r, "preflight")
    /\ UNCHANGED <<tables, runs, lastRun, process, feed, gone, warehouse,
                   advanced, unrecorded, restarts>>

(* The health snapshot reports every dependency up.                        *)
Preflight(r) ==
    /\ At(r, "preflight")
    /\ Advance(r)
    /\ runs' = [runs EXCEPT ![r].status = "running"]
    /\ UNCHANGED <<tables, lastRun, process, feed, gone, warehouse, advanced,
                   unrecorded, restarts>>

Extract(r) ==
    /\ At(r, "extract")
    /\ LET job == worker[r].job
       IN \E after \in Afters(job) :
            worker' = [worker EXCEPT ![r].pc = StepAfter.extract,
                                     ![r].got = Answer(job),
                                     ![r].after = after]
    /\ UNCHANGED <<tables, runs, lastRun, process, feed, gone, warehouse,
                   advanced, unrecorded, restarts>>

(* The batch in staging is read by this run only, through its batch id.    *)
Load(r) ==
    /\ At(r, "load")
    /\ Advance(r)
    /\ UNCHANGED <<tables, runs, lastRun, process, feed, gone, warehouse,
                   advanced, unrecorded, restarts>>

(* call_core_sync commits.  It may still report a failure: a loaded table  *)
(* that core did not return, or a connection lost after the commit.        *)
CoreSync(r) ==
    /\ At(r, "core")
    /\ core' = [core EXCEPT ![worker[r].job.name] = @ \cup worker[r].got]
    /\ Advance(r) \/ Goto(r, "raised")
    /\ UNCHANGED <<tables, runs, lastRun, process, feed, gone, mart, advanced,
                   unrecorded, restarts>>

(* call_mart_refresh rebuilds every table of Mart from Core and commits;   *)
(* it may report a failure afterwards in the same ways.                    *)
MartRefresh(r) ==
    /\ At(r, "mart")
    /\ mart' = core
    /\ Advance(r) \/ Goto(r, "raised")
    /\ UNCHANGED <<tables, runs, lastRun, process, feed, gone, core, advanced,
                   unrecorded, restarts>>

(* The rows that UPDATE sources ... WHERE name = ? hits.                   *)
RowsNamed(n) == {i \in Ids : sources[i] # None /\ sources[i].name = n}

(* update_source_checkpoint, if the run has a checkpoint to commit.        *)
CommitCheckpoint(r) ==
    /\ At(r, "commit")
    /\ LET after == worker[r].after
           hit == IF after = None THEN {} ELSE RowsNamed(worker[r].job.name)
       IN /\ sources' = [i \in Ids |->
                           IF i \in hit
                             THEN [sources[i] EXCEPT !.checkpoint = after]
                             ELSE sources[i]]
          /\ advanced' = IF hit = {} THEN advanced ELSE advanced \cup {r}
    /\ Advance(r)
    /\ UNCHANGED <<lastId, runs, lastRun, process, feed, gone, warehouse,
                   unrecorded, restarts>>

(* The last write of run_pipeline_steps.                                   *)
MarkDone(r) ==
    /\ At(r, "finish")
    /\ runs' = [runs EXCEPT ![r].status = "done"]
    /\ Goto(r, "returned")
    /\ UNCHANGED <<tables, lastRun, process, feed, gone, warehouse, advanced,
                   unrecorded, restarts>>

(* A PipelineError: a dependency is down, a service answers with an error, *)
(* a transaction rolls back, a request times out.                          *)
StepFails(r) ==
    /\ Live(r)
    /\ worker[r].pc \in {"preflight", "extract", "load", "core", "mart"}
    /\ Goto(r, "raised")
    /\ UNCHANGED <<tables, runs, lastRun, process, feed, gone, warehouse,
                   advanced, unrecorded, restarts>>

(* Any write to SQLite inside run_pipeline_steps raises.                   *)
WriteFails(r) ==
    /\ WritesFail
    /\ Live(r)
    /\ worker[r].pc \in ThreadPcs
    /\ Goto(r, "raised")
    /\ UNCHANGED <<tables, runs, lastRun, process, feed, gone, warehouse,
                   advanced, unrecorded, restarts>>

-----------------------------------------------------------------------------
(* The coroutine _worker resumes on the event loop when its thread is      *)
(* through, and can only do so when the loop is free.                      *)

(* Faulty: the name is not given back.                                     *)
ForgetWorkerOnly(r) ==
    /\ worker' = [worker EXCEPT ![r] = None]
    /\ running' = running

(* The finally clause, _finish, and the end of the task.                   *)
Forget(r) ==
    /\ worker' = [worker EXCEPT ![r] = None]
    /\ running' = running \ {worker[r].job.name}

(* The thread returned: only the finally clause runs.                      *)
Settle(r) ==
    /\ loop = None
    /\ At(r, "returned")
    /\ Forget(r)
    /\ UNCHANGED <<tables, runs, lastRun, loop, feed, gone, warehouse,
                   advanced, unrecorded, restarts>>

(* Faulty: an exception is dropped without a trace in the runs table.      *)
RecordNothing(r) ==
    /\ loop = None
    /\ At(r, "raised")
    /\ Forget(r)
    /\ UNCHANGED <<tables, runs, lastRun, loop, feed, gone, warehouse,
                   advanced, unrecorded, restarts>>

(* The thread raised: an except clause records the failure, unless that    *)
(* write raises too, and the finally clause runs in either case.           *)
RecordFailure(r) ==
    /\ loop = None
    /\ At(r, "raised")
    /\ \/ /\ runs' = [runs EXCEPT ![r].status = "failed"]
          /\ UNCHANGED unrecorded
       \/ /\ WritesFail
          /\ unrecorded' = unrecorded \cup {r}
          /\ UNCHANGED runs
    /\ Forget(r)
    /\ UNCHANGED <<tables, lastRun, loop, feed, gone, warehouse, advanced,
                   restarts>>

-----------------------------------------------------------------------------
(* A record is added or changed at the source.                             *)
FeedChanges(u) ==
    /\ feed[u] < MaxTime
    /\ feed' = [feed EXCEPT ![u] = @ + 1]
    /\ UNCHANGED <<tables, runs, lastRun, process, worker, gone, warehouse,
                   advanced, unrecorded, restarts>>

(* A record is deleted at the source, or has changed once more.            *)
RecordGoes(u, t) ==
    /\ t <= feed[u]
    /\ <<u, t>> \notin gone
    /\ gone' = gone \cup {<<u, t>>}
    /\ UNCHANGED <<tables, runs, lastRun, process, worker, feed, warehouse,
                   advanced, unrecorded, restarts>>

(* INSERT OR IGNORE of the demo source: a seed that was deleted or renamed  *)
(* comes back, as a new row.                                               *)
SeedAgain ==
    IF Seed # None /\ NameFree(Seed.name)
      THEN /\ lastId < MaxSources
           /\ lastId' = lastId + 1
           /\ sources' = [sources EXCEPT ![lastId'] = Seed]
      ELSE UNCHANGED tables

(* The process stops at any point and starts again.  The SQLite tables and *)
(* the databases survive; the set of running names, the tasks and the      *)
(* threads do not.  lifespan calls init_db, which does not look at runs.   *)
Restart ==
    /\ restarts < MaxRestarts
    /\ restarts' = restarts + 1
    /\ running' = {}
    /\ loop' = None
    /\ worker' = [r \in RunIds |-> None]
    /\ SeedAgain
    /\ unrecorded' = unrecorded \cup {r \in RunIds : Live(r)}
    /\ UNCHANGED <<runs, lastRun, feed, gone, warehouse, advanced>>

-----------------------------------------------------------------------------
ThreadStep(r) ==
    \/ Start(r) \/ Preflight(r) \/ Extract(r) \/ Load(r) \/ CoreSync(r)
    \/ MartRefresh(r) \/ CommitCheckpoint(r) \/ MarkDone(r) \/ StepFails(r)
    \/ WriteFails(r)

LoopStep(r) == Settle(r) \/ RecordFailure(r)

Trigger == Refuse \/ Launch \/ LaunchFails

Edit ==
    \/ \E n \in Names, c \in Contracts : CreateSource(n, c)
    \/ \E i \in Ids, n \in Names, c \in Contracts : UpdateSource(i, n, c)
    \/ \E i \in Ids : DeleteSource(i)

Next ==
    \/ Edit
    \/ \E i \in Ids, force \in BOOLEAN : ReadSource(i, force)
    \/ Trigger
    \/ \E r \in RunIds : ThreadStep(r) \/ LoopStep(r)
    \/ \E u \in Urls : FeedChanges(u) \/ \E t \in Times : RecordGoes(u, t)
    \/ Restart

Spec == Init /\ [][Next]_vars

(* A thread that has a step to take takes it: requests to the extractor    *)
(* and the loader time out, the databases answer.  The loop's callback     *)
(* that triggers a run is never preempted by another coroutine, and the    *)
(* loop serves its ready callbacks in order, so a finished worker is not   *)
(* passed over for ever by new requests (strong fairness).                 *)
Fairness ==
    /\ WF_vars(Trigger)
    /\ \A r \in RunIds : WF_vars(ThreadStep(r)) /\ SF_vars(LoopStep(r))

FairSpec == Spec /\ Fairness

-----------------------------------------------------------------------------
(* Properties.                                                             *)

(* runner._try_start / _finish: two workers that are alive at the same     *)
(* time never work on the same source name, so never on the same tables,   *)
(* whatever is edited, fails or restarts.                                  *)
OneRunPerName ==
    \A r, s \in RunIds :
        Live(r) /\ Live(s) /\ r # s => worker[r].job.name # worker[s].job.name

(* runner.trigger_run: a name is refused (409) only while a run of that    *)
(* name is in flight.                                                      *)
HeldByARun ==
    \A n \in running : \E r \in RunIds : Live(r) /\ worker[r].job.name = n

(* The promise a checkpoint makes to the next incremental run: every       *)
(* change up to the checkpoint that the source's URL still shows has       *)
(* reached the Mart tables of that source, so asking only for newer        *)
(* records loses nothing.                                                  *)
CheckpointCovered ==
    \A i \in Ids : sources[i] # None /\ sources[i].checkpoint # None =>
        ({sources[i].contract.url} \X (1..sources[i].checkpoint)) \ gone
            \subseteq mart[sources[i].name]

(* copilot-instructions.md:217 "Failed runs retain the prior checkpoint    *)
(* for retry": no run that ends failed has moved a checkpoint.             *)
FailedKeepsCheckpoint ==
    \A r \in RunIds : runs[r] # None /\ runs[r].status = "failed"
                        => r \notin advanced

(* pipeline.py:394: the step that stores a new checkpoint in a row is the  *)
(* step of a run whose whole payload is already published in Mart.         *)
AdvanceOnlyAfterPublish ==
    [][\A i \in Ids :
         /\ sources[i] # None /\ sources'[i] # None
         /\ sources'[i].checkpoint \notin {None, sources[i].checkpoint}
         => \E r \in RunIds :
              /\ At(r, "commit")
              /\ worker[r].job.name = sources[i].name
              /\ worker[r].after = sources'[i].checkpoint
              /\ worker[r].got \subseteq mart[sources[i].name]]_vars

(* copilot-instructions.md:231 "Updating a source clears its saved         *)
(* checkpoint if its URL, load mode, ... changes": a checkpoint that is    *)
(* stored was computed under the contract the row has now, so a cleared    *)
(* checkpoint is not replaced by one of the previous endpoint.             *)
CheckpointFromOwnContract ==
    [][\A r \in RunIds, i \in Ids :
         /\ At(r, "commit") /\ worker'[r] # worker[r]
         /\ sources'[i] # sources[i]
         => worker[r].job.contract = sources[i].contract]_vars

(* README.md:123: a full reload sends no checkpoint and takes the newest   *)
(* watermark of what the endpoint still has, so the checkpoint may move    *)
(* back.  While the contract is not edited it only does so over changes    *)
(* that are gone: whatever runs overlap, fail and are repeated, no later   *)
(* incremental run is answered again what is long published.               *)
OnlyTheGoneIsAskedAgain ==
    [][\A i \in Ids :
         /\ sources[i] # None /\ sources'[i] # None
         /\ sources'[i].contract = sources[i].contract
         /\ sources[i].checkpoint # None
         => /\ sources'[i].checkpoint # None
            /\ {sources[i].contract.url} \X
                  ((sources'[i].checkpoint + 1)..sources[i].checkpoint)
                    \subseteq gone]_vars

(* README.md:117 "a timestamp-based source's first run is always a full    *)
(* snapshot": an incremental run with a watermark only ever extracts for a *)
(* name whose tables were filled by an earlier run.                        *)
FirstRunIsSnapshot ==
    \A r \in RunIds :
        /\ Live(r) /\ worker[r].pc \in {"load", "core"}
        /\ Timestamped(worker[r].job.contract)
        /\ ~FullSnapshot(worker[r].job)
        => core[worker[r].job.name] # {}

Ended(r) == runs[r] # None /\ runs[r].status \in {"done", "failed"}

(* runner.py:44 "a run never hangs "running" forever": every run that was  *)
(* created ends done or failed.                                            *)
RunsFinish == \A r \in RunIds : runs[r] # None ~> Ended(r)

(* ... and so it does, however many runs wait for a thread, whatever is    *)
(* edited and whatever step fails, unless the process stops while the run  *)
(* is live or the write that records its failure fails as well; and in any *)
(* case its worker ends, with which Forget frees the name.                 *)
LiveRunsFinish ==
    \A r \in RunIds :
        Live(r) ~> ~Live(r) /\ (Ended(r) \/ r \in unrecorded)
=============================================================================
