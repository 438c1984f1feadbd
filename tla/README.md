# dw-dev in TLA+

A model of the data warehouse pipeline in this repository, its TLC runs and its
TLAPS proofs. Paths are relative to the repository. `PROJECT.json` names, for
every definition, the lines it models (`map`), every run and its properties,
and the hazards of the code with the properties that watch them.

## The system

```
source API -> Extractor -> landing files -> Loader -> Staging -> Core -> Mart
                     ^           Orchestrator drives every step          ^
```

| Component | State | Operations | Interacts with |
|---|---|---|---|
| Orchestrator (`orchestrator/app`) | SQLite tables `sources` and `runs`; in memory the set `_running` of source *names*, tasks, threads | create, edit, delete a source; trigger; full reload; run | HTTP threads, the event loop and worker threads share SQLite and `_running`; a run calls everything below |
| Scheduler (`scheduler.py`) | columns `next_run`, `next_run_timezone` of `sources` | tick every five seconds | reads all rows, calls `trigger_run`, writes by id while HTTP threads edit |
| Health checks (`pipeline.py`) | the latest snapshot, the details its threads write | probe every five seconds | thread pool shared with runs; a run's preflight reads the snapshot |
| Extractor (`extractor/app`) | files in `data/landing` | extract | pages of an API; payload, then manifest, for the Loader |
| Loader (`loader/app`) | `staging.raw_batches`, generic tables | load | reads landing; one Postgres transaction per batch |
| Core (`postgres/core`) | SCD2 dimensions, `dim_user`, `dim_department` | `sync_users`, `sync_from_staging` | reads Users and Staging through foreign schemas it drops and imports each time |
| Mart (`postgres/mart`) | current rows | `refresh` | reads Core through a foreign schema |
| Mock source (`mock_source/app`) | its tables | `list_page`, `mutate` | the API of an incremental extraction |
| GUI, auth, access log, set-up | nothing of the pipeline | | |

What is hard in it, and what makes it correct:

* **Run control.** Threads edit a row while the event loop or a run works on a
  copy of it; the lock, the tables and the checkpoint are addressed by *name*,
  edits by *id*; SQLite writes are separate transactions; the process may
  restart; the API deletes records. Correct: one run per source, a checkpoint
  only covers what Mart shows and goes back only over what the API deleted, a
  failed run leaves it alone, every run ends and frees its name.
* **Core.** Columns and tables accumulate over batches, keys can be NULL,
  payloads repeat keys, modes and policies alternate, a commit may be reported
  as a failure. Correct: one current version per key, history is never
  rewritten, a snapshot is exact, absence closes only where it may, a repeated
  batch changes nothing.
* **Publication.** Runs of different sources synchronize the same users and
  rebuild the same Mart at once; only the locks of `DROP SCHEMA` order them,
  and `now()` is older than the lock. Correct: neither Core nor Mart goes back.
* **Extraction.** Offset pagination over a table that changes; a watermark that
  is the largest one seen and compared strictly. Correct: what the checkpoint
  covers has been delivered; a snapshot lacks only what the API lacks.
* **Scheduler.** A tick acts on rows it read at once, expressions raise,
  statements fail, the zone changes over a restart. Correct: a plan belongs to
  its cron and zone, one occurrence is one run, one bad source stops no other.
* **Health.** Probes and runs wait in one queue for few threads. Correct: no run
  is judged by a snapshot nobody filled, a snapshot is of one cycle, neither
  side starves the other.
* **Ingestion.** Six pagination conventions in four shapes of body, and one that
  the Extractor does not know, two files per extraction, requests that time
  out, go on, and are repeated. Correct: a
  batch is of a whole payload, there is one per file, the answer is committed.

## The modules

| Module | Models | State and actions against the code |
|---|---|---|
| `Orchestrator` | `runner.py`, `db.py`, `main.py`, `run_pipeline_steps` | `sources`, `runs` are the tables; `running` is `_running`; `loop` is the row a handler or the tick holds between reading and triggering; `worker[r]` is the `_worker` of run r with the pc of its pipeline thread. One action per step (`Preflight` .. `MarkDone`), `StepFails` for any error of a step, `WriteFails` for a SQLite error, `Settle`/`RecordFailure` for the clauses of `_worker`, `Restart` for the process. Downstream state is the set of changes in Core and Mart per name. `feed` and `gone` are the endpoints: the changes made, and those no longer shown. `advanced` and `unrecorded` are history |
| `Scd2` | the three statements of a sync | a dimension is a set of versions; `CloseChanged`, `CloseAbsent`, `InsertFresh` and `SyncRows`, pure operators. `LatestSets` is every outcome of `DISTINCT ON` |
| `CoreSync` (uses `Scd2`) | Loader's flattening and `core.sync_from_staging` | `columns`, `exists`: what Staging has accumulated; `batch`: the batch loaded; `dims`: the dimensions. `LoadBatch`, `SyncBatch`, `SyncAborts` |
| `KeyedTable` | what README.md:262-275 promises of a source: one row per key, deliveries applied one at a time, closing or not | `table`, `pending`; `Deliver`, `Apply`, `Discard`. `CoreSync` implements it (`ImplementsKeyedTable`): `table` is the current versions of the root dimension that have a key, `pending` the batch |
| `Publication` (uses `Scd2`) | `sync_users`, for departments and users, and `mart.refresh` of several runs, against edits of the users database | one session per run: begin, lock, commit or abort, in Core, then in Mart. What a transaction read is kept in its session until it commits |
| `IncrementalFeed` | the Extractor's page loop against `list_page` and `mutate`, and what the run publishes | `rows` is the API's table, `extraction` the run; `CountRows` and `SelectRows` are the two statements of a page; `Synchronize` and `Commit` are Core and checkpoint |
| `Ingestion` | pages to one staging batch: the Extractor's loop and files, the Loader's checks, groups of rows and transaction, the two requests of a run | `extraction[r]` is the work of one `/extract`, `payload` and `manifest` the landing directory, `load[l]` a session of the Loader, `batches` what is committed. `NextFound` is `_next_page_url`, `Complete` is `_pagination_complete`, `Unwrapped` is `inspect_payload`; `GiveUp` is a timeout after which the service goes on |
| `Scheduler` | `scheduler.py` and the schedule columns of `db.py` | `tick` is the task: asleep, at a row, between trigger and write, ended. `Edited` is the CASE of `update_source`; `raced` and `fired` are history |
| `Health` | `refresh_health`, `check_*`, `lifespan`, the preflight, the executor | `queue` and `threads` are the executor, `results`, `details` and `snapshot` those of `pipeline.py` |
| `MC...` | | values of the constants for TLC |
| `..._proofs` | | theorems |

`CoreSync` and `Publication` compose with `Scd2`. Four modules look at one run
at different scales: `Orchestrator` has many runs, edits and failures and takes
every step as atomic; `IncrementalFeed` opens the extraction against a table
that changes; `Ingestion` opens extraction and load with their files and
transactions; `Health` opens the wait for a thread and the preflight.
`Scheduler` opens the tick, of which `Orchestrator` keeps the trigger alone.
Operators whose comment begins with
"Faulty:" are not used by any specification; each is what a definition would be
with a plausible bug, and `mutants` in `PROJECT.json` says which property finds
it.

## The runs

`CHECK_DEADLOCK FALSE` everywhere but in `one_pool`, where the probes go on for
ever: every counter has a bound, and when the bounds are used up and nothing is
in flight the model stops, as the real system does when nobody asks for
anything. What must not stop is stated as liveness. The type invariants of all
the modules with variables but `KeyedTable` are proved; the runs check those of
`CoreSync`, `IncrementalFeed`, `Ingestion` and `Health` as well.

| Run | Shows |
|---|---|
| `idle_edits` | Edits only between runs, one name, three settings of two endpoints, the seeded source, three runs, one restart, records that change and go: the checkpoint is covered by Mart and goes back only over records that are gone; a first run is a snapshot; a failed run leaves the checkpoint; `_running` holds only names of live runs |
| `any_edits` | Two names, renames, edits and deletions at any time, failing SQLite writes, a restart, two runs for a pool of one thread: one run per name, publication before checkpoint; fair: every run ends, with a final status unless the process stopped or the write of it failed, and its worker frees the name |
| `core_batches` | Three batches of up to two records, arrays, duplicates and columns that appear later, both modes and policies, from four sources: all records with an id, all with the configured key, and some without one or both, with and without a configured key. A row is stored under its own content's key, and the rows of the root dimension that have a key are a `KeyedTable` |
| `publication` | Two sources, three Core transactions, two changes of two departments and two users |
| `feeds` | Five kinds of source: timestamps while the table rests during extractions; snapshots, with and without deletions, incremental runs without a watermark, and timestamps, while it does not. A cap of two pages, one failure, fair: coverage of the checkpoint, completeness of a snapshot against its start, order of deliveries, and convergence where the table fits the pages |
| `staged_batches` | Every shape with every convention, one the Extractor does not know included, and the orders in which watermarks come; two runs, two requests to the Loader, two failures or timeouts anywhere |
| `ticks` | Two sources, a cron that is due and one that raises, two zones; one edit or deletion, one failing statement, one restart |
| `one_pool` | Two dependencies, a pool of two threads, three runs, two changes of dependencies, one restart |

Violations; each checks one statement of a document or comment that the code
does not keep. `findings` quotes it.

| Run | Statement | Counterexample |
|---|---|---|
| `contract_mid_run` | an edit of the URL clears the checkpoint | a run that began before it writes it back |
| `restart` | a run never hangs "running" for ever | restart in mid-run |
| `core_orphans` | an absent key is closed by a snapshot | a snapshot in which no record has the array any more |
| `feed_lost_update` | changes are selected by the next request | mutation between two pages, or between count and rows |

The constants of the passing runs say under which conditions their properties
hold. Lifting one of them shows further disagreements:

* README.md:206 says that the same source can never run twice at once. With
  `EditsDuringRuns` and `Renames`, as in `any_edits`, it can: the lock is on the
  name, and a source renamed during a run can be triggered again.
* `Renames = TRUE` in `idle_edits`: `FirstRunIsSnapshot` (README.md:117) fails;
  a renamed source keeps its checkpoint and runs incrementally into new tables.
* `WritesFail = TRUE` in `idle_edits`: `FailedKeepsCheckpoint`
  (.github/copilot-instructions.md:217) fails when the write of the status after
  the checkpoint fails; `HeldByARun` fails when the INSERT of the run row fails
  after the name is taken, which blocks the name until a restart.
* `LiveRunsFinish` without its exception for `unrecorded`, in `any_edits`: a run
  whose failure cannot be written stays queued or running, although
  runner.py:44 says that it never hangs. A restart has the same effect, which
  is the run `restart`.
* The irregular sources of `core_batches` store rows without an id and without
  the key field under NULL, where README.md:94 says that they are rejected: only
  a table that lacks the column is. Without a configured key, one record with an
  id brings the column for all others. `StoredUnderOwnKey` states what the code
  does, and the properties about keys hold of the rows that have one.
* `OnlyWholePayloads` without its exception for paging `total`, in
  `staged_batches`: a body with `total` and no `limit` is neither followed nor
  reported incomplete, and its first page is loaded as the whole, although
  README.md:62 says that unknown pagination fails closed.
* A full reload sends no checkpoint, and stores the newest watermark of what the
  endpoint still has. After the newest record was deleted there it moves the
  checkpoint back. `OnlyTheGoneIsAskedAgain` says that nothing else does, and
  that nothing the API still shows is in between. A plain "the checkpoint never
  decreases" is false of the code.
* `StartedRowsDelivered` without its exception for `deletes` fails: a deletion
  between two pages shifts a record out of the snapshot, and Core closes it
  although the API has it, which README.md:271 says of absent keys alone.
* `Scd2!Timeline` of `dim` in `publication` fails: a transaction that began
  first and locked second closes a version at a time before it began.

### Bounds

* `Orchestrator`: two names, or two ids of one row, are what aliasing between
  names and ids needs; two live runs are what a conflict needs, a third follows
  a failure and its retry. In `any_edits` two runs wait for a pool of one thread;
  in `idle_edits` there are two threads and one name, and nothing waits. Two
  times let a checkpoint be
  older than the feed, and the newest record go while an older one stays.
* `CoreSync`: three batches are one to create, one to change and one to return
  to a former content, over columns that grew in between. The irregular sources
  have a record with both, either and neither of an id and the key field.
* `Publication`: three Core transactions are two that overlap and one after
  them; two changes make two states of the users database to confuse.
* `IncrementalFeed`: three ids with pages of one record are a page before, at
  and after the one that moves; five stamps are two initial ones and three
  changes. One `mutate` ends before the next begins: it draws its stamp before
  its transaction (mock_source/app/generate.py:200), and of two at a time the
  one with the older stamp could commit last. With one, "the table rests while
  it is read" also allows a `mutate` that is under way and commits afterwards,
  as its stamp is then above everything that was read. The cap of two pages is
  reached with pages of one record and not with pages of two. `Feeds`,
  `Sources` and `Apis` are the kinds of source a run considers; each behaviour
  has one.
* `Ingestion`: pages of one record, three of them, are a first, a middle and a
  last page, and a fourth is over the limit. Groups of two rows split three
  rows. Two runs have two files; two requests are one and its repetition. Paging
  `total` stands for every convention the Extractor does not know.
* `Scheduler`: two sources are the row in work and the one behind it, or one
  that raises and one that must not suffer. Four moments hold two occurrences;
  the calendar reaches beyond the last, so that a plan exists at any moment.
* `Health`: as many probes as threads, and three runs, so that runs can fill
  the pool with one in the queue, and probes can too.

### Fairness

`Orchestrator`: a thread that has a step takes it (every request has a timeout
and every failure is a step), weakly fair. The event loop runs its callbacks in
order, so the end of a thread is not passed over for ever by new requests,
which disable it again and again: strong fairness of `LoopStep`. Nothing is
assumed of edits, feeds, failures or restarts. A restart, which the fairness
permits, breaks `RunsFinish`: run `restart`. `LiveRunsFinish` is what remains:
a run ends and frees its name, and has a final status unless its process stopped
or the status could not be written.

`IncrementalFeed`: the scheduler starts the source again and again and a run
goes on until it ends or fails; both weakly fair. Failures are finitely many
(`MaxFailures`) and the table rests in the end (`MaxTime`): convergence is
promised under just that.

`Ingestion`: each service works on a request until it has answered, and the run
reads the answer, weakly fair; locks are released because the transactions that
hold them end. Requests, timeouts and crashes are not fair.

`Scheduler`: the task wakes up and works through its rows, weakly fair; nothing
it calls suspends, so a tick is never parked. Edits, restarts and the clock are
not fair.

`Health`: the loop wakes up, an idle thread takes the first job, and every probe
and every step of a run has a timeout, weakly fair. Runs are not required to be
triggered, nor dependencies to be up.

## The proofs

For every value of the constants. Each safety property that a passing run checks
is stated by a theorem. The assumptions are named in the modules, and TLC
evaluates them in the runs:

* `ConstantsAssumption` of each module, `CoreAssumption`,
  `PublicationAssumption`: what kind of value each constant is.
* `NoneAssumption` of `Orchestrator`, `Scheduler`, `Ingestion`, and
  `NullAssumption` of `Scd2`: SQL NULL, which stands for a missing row as well,
  is none of the values it stands beside.
* `SeedAssumption` of `Orchestrator`: the seeded source has no checkpoint.

Nothing is assumed of the keys of the records.

Five theorems about `Orchestrator` have a hypothesis on a constant besides; the
runs `idle_edits` and `any_edits` show both sides of it, and "The runs" says what
happens without it. One theorem of `CoreSync` has the hypothesis `ArraysAgree`:
records of one id that carry an array have the same value at each position both
arrays have, as the sources of the run `core_batches` do.

### Run control

* `Orchestrator_proofs!TypeCorrect`, `NamesNeverShared`. `OneRunPerName` is not
  inductive: a launch only looks at `running`. `IInv` adds that the name of
  every live worker is in `running` (`NamesHeld`), that a worker has its run
  row (`WorkerHasRun`), and that the loop only holds a job while a run number
  is left (`LoopHasRoom`). `NamesHeld` survives renames because a worker keeps
  the name it was given, and frees that one.
* `CheckpointFollowsPublication`. `PInv` follows a payload along the pc of its
  worker: in Core once it is past core, in Mart once it is past mart. The second
  needs `MartBehindCore`: a refresh replaces Mart by Core, and a refresh of
  another run must not take changes away.
* `NamesGivenBack` (`HeldByARun`), `FailedRunsKeepCheckpoint`, both if no write
  to SQLite fails (`~WritesFail`), under any edits, renames and restarts. The
  first needs that run numbers are never reused (`RunsNumbered`), or a launch
  could take away the worker that holds a name; the second that the commit is
  the last step of a run that can fail (`AdvancedIsLast`) and that a failed run
  has no worker left (`FailedIsOver`).
* `CheckpointsAreCovered`, `FirstRunFills`, `ReloadsForgetOnlyTheGone`
  (`OnlyTheGoneIsAskedAgain`), if edits wait for the run to end and sources keep
  their names (`~EditsDuringRuns`, `~Renames`), though records change and go at
  the API, writes fail and the process restarts at any point. A run works on a copy of the row, so these need that the copy stays true: `LoopRow`
  and `WorkerRow` say that the contract, the name and the checkpoint of a job
  are those of the row until the run commits, which takes unique names and ids
  (`NamesUnique`, `IdsGrow`). `CInv` adds that what a run has extracted, or Mart
  already shows, has every change up to the checkpoint it will store that is not
  gone, and that the changes from there to the row's checkpoint are gone
  (`AfterCovered`, `Promise`); and that a checkpoint is the time of a change in
  Mart (`NewestPublished`) and not ahead of the feed (`WithinFeed`).

### Core

* `Scd2_proofs!SyncKeepsOneCurrent`, `SyncExtends`, `SyncKeepsTimeline`. The
  lemmas follow the three statements: closing leaves one current version at
  most, inserting adds one only for a key without a current version, and the
  rows inserted have distinct keys. NULL keys, which `=` never matches, are why
  the first speaks of versions and not of keys alone, and why an interval is
  stated of keys that are not NULL: nothing closes a row without a key, and each
  batch that has it adds one. `SyncWithKey` says that the rows and versions that
  have a key go through a sync as if there were no others. An interval stays apart
  from the next because the version closed began before the sync (`Stamped`).
* `Scd2_proofs!ViewAfterSync`: what is current after a sync, as pairs of key and
  content, is what was delivered and, unless the sync closes, what was there for
  other keys. One lemma per statement says what it does to this view.
* `CoreSync_proofs!CurrentIsUnique`, `HistoryIsKept`, `TimelinesHold` lift these
  to every table over every sequence of batches. `TInv` adds that there is a
  moment left for every batch that waits, so that each sync has its own.
* `CoreSync_proofs!KeysAreOwn` (`StoredUnderOwnKey`), of sources with regular and
  irregular keys alike. `KInv` says what the choice of the key rests on: a batch
  that waits is made of the source's records, and a child table has no column
  that could be a key field or an id. The key rule looks at the columns Staging
  has accumulated, so it either raises or reads the key field, or the id, of the
  row at hand; a child's key is its parent's and the position, which exists only
  where the parent has an id.
* `CoreSync_proofs!RepetitionIsHarmless` (`ResyncChangesNothing`), if
  `ArraysAgree`. `SInv`: until columns are added, the dimensions show the batch
  committed last (`Shows`), so that closing finds no change and inserting finds
  every key. It needs that a batch leaves `DISTINCT ON` no choice of content
  (`Determined`). For the root that is always so, its rows have positions of
  their own. Rows of a child table share one when a payload repeats a record:
  they tie on everything but a random UUID, and if their contents differ the
  repeated batch may choose the other one. Hence the hypothesis.
* `CoreSync_proofs!Implementation`: the root dimension of `CoreSync` implements
  `KeyedTable`. Loading a batch is `Deliver`, a sync that commits is `Apply`, one
  that aborts is `Discard`. The table is the current versions that have a key,
  and a delivery the rows that have one; that the other rows do not get in the
  way is `SyncWithKey`, that a batch has one last row per key `PositionsDiffer`.
  A child table is not covered: it keeps rows of arrays that no longer come (run
  `core_orphans`).

### Publication

* `Publication_proofs`: `EachHasOneCurrent`, `UsersInOrder`, `DepartmentsStay`,
  `MartInOrder`, `RunReachesMart`, `TypeCorrect`. `CoreInv` says that a
  transaction that has read holds the lock and that what it prepared is a sync
  of the dimensions as they are now (`Prepared`); that is what the lock of the
  foreign schema buys, and one-current, order and departments follow from it.
  `MartInv` adds that Mart is behind Core and that what a refresh prepared lies
  between the Mart and the Core of now, also for the batch of its own run.

### Extraction

* `Ingestion_proofs`: `CommittedIsWhole`, `FilesAreLoadedOnce`,
  `AnswersAreCommitted`, `CheckpointsAreNewest`, `TypeCorrect`. The invariant
  follows one file from the first page to the batch. `Landed` says what the
  Extractor has at each phase of its work and what of it lies in the landing
  directory; a file whose manifest exists is whole or its manifest says that it
  is not, if the API is `Followed`: pages in a way the Extractor knows. The page loop goes over one page after the other, each once
  (`Counted`: as many addresses as pages). `OneSession` says that one session
  of the Loader at a time is past the lock of a file, `Session` that it has
  inserted a prefix of the file's rows and that no batch of the file is
  committed before it commits, `Stored` what a batch keeps of the file.
* `IncrementalFeed_proofs`: `CheckpointMissesNothing` (`NothingMissedIfSteady`),
  `SnapshotsAreComplete` (`StartedRowsDelivered`), `LastRecordsAreNewest`
  (`LastIsNewest`), `TypeCorrect`. Each needs to know what the pages read so far
  have in common with a table that may have changed:
    - `Past`: nothing is newer than the clock, and a record read is not newer
      than the record there is now. A page read later is therefore never older.
    - `Grown`, `Scanned`: without deletions the ids are 1 to some N, so the n-th
      record in the order of ids is record n, whatever was updated; a count once
      taken is not smaller than what the table had at the start.
    - `Read`: while the table rests, the pages are a prefix of one result in
      the order of ids, and all of it when the loop ends. With `Asked` - a run
      asks for what is newer than the checkpoint, or for everything - a record
      that the run did not read is one that `NothingMissed` already covered.
  `OrderOfInterval` and `OrderedIds`, about `ORDER BY id`, `PageFacts` and
  `Appended`, about `LIMIT` and `OFFSET`, are the lemmas these rest on.

### Scheduler and health checks

* `Scheduler_proofs!TypeCorrect`, `PlansFollowCron`, `OccurrencesFireOnce`.
  `CronInv`: the rows a tick holds have the cron that is stored, unless `raced`
  says that an edit came in between, and are of sources that existed
  (`HeldCrons`, `KnownIds`). `OnceInv`: the tick's moment is not ahead of the
  clock, and what has fired is due no more or is waiting for its plan to be
  stored (`ClockInv`, `FiredInv`).
* `Health_proofs!ChecksComeFirst` (`CheckedBeforeRuns`), `SnapshotsAreOfOneCycle`,
  `TypeCorrect`. `StartsAlone` and `ServesChecked`: while the process starts there
  is no run, afterwards the snapshot is complete. `ResultsSeen`: an answer of the
  cycle under way was true since the cycle began, with its detail beside it.

### Only model-checked

* Liveness (`LiveRunsFinish`, `EventuallyCurrent`, `LoadsAnswered`,
  `EnabledIsPlanned`, `DueIsServed`, `CyclesGoOn`, `RunsGetThreads`): the prover
  does not support fairness and ENABLED.
* What recursion over data computes for every input is out of the prover's
  reach, so no module has a RECURSIVE operator.

## Not modelled

* Authentication, validation of request bodies, the GUI, logs, deployment: they
  keep no state of the pipeline, or are set up before anything runs.
* Values: identifier normalization and its collisions, the type of a column and
  its widening, the syntax of timestamps, the wording of errors. Records,
  watermarks and columns are members of small sets. A watermark nested in a
  record, and key names inside records, are therefore out of sight.
* Redirects and the host allowlist, which can only fail a page, and the
  `local://demo` source, which has one.
* The schema and the row generator of the mock source.
* The fields of a run row that nothing reads back.
* Threads of the PostgreSQL deadlock detector: a transaction it ends is an
  abort, and every transaction of the models may abort.

`PROJECT.json` gives the reasons by component.

## Plan

Done, in order of importance: `Orchestrator`, `Scd2`, `CoreSync`,
`Publication` with departments, `IncrementalFeed`, then `Scheduler`,
`Ingestion`, `Health`, and `KeyedTable` with its refinement; proofs of every
safety property that their passing runs check.

Left:

1. The theorems about the checkpoint under weaker hypotheses: renames between
   runs, edits of a contract that leave the rest of the row alone.
2. A ledger of deliveries as the abstract specification of `Orchestrator`.
3. Pure operators against reference definitions: identifiers and their
   collisions, the type of a column.
