------------------------- MODULE Orchestrator_proofs -------------------------
(***************************************************************************)
(* Proofs about Orchestrator for every number of names, sources, runs,     *)
(* threads and restarts, whatever is edited and whatever write fails.      *)
(***************************************************************************)
EXTENDS Orchestrator, TLAPS

(* Every worker holds its name in running, so _try_start sees it.          *)
NamesHeld ==
    \A r \in RunIds : Live(r) => worker[r].job.name \in running

(* A worker has a row in the runs table, which its steps update.           *)
WorkerHasRun == \A r \in RunIds : Live(r) => runs[r] \in RunRow

(* A job is read only while another run may be created.                    *)
LoopHasRoom == loop # None => lastRun < MaxRuns

(* OneRunPerName alone is not inductive: Launch compares the name with the *)
(* set running, not with the workers.                                      *)
IInv ==
    /\ TypeOK
    /\ NamesHeld
    /\ WorkerHasRun
    /\ LoopHasRoom
    /\ OneRunPerName

(* Initially there is neither a row nor a worker.                          *)
LEMMA InitIInv == Init => IInv
  <1> SUFFICES ASSUME Init PROVE IInv
    OBVIOUS
  <1> USE ConstantsAssumption, SeedAssumption DEF Init
  <1>1. TypeOK
    BY DEF TypeOK, Ids, RunIds
  <1>2. \A r \in RunIds : ~Live(r)
    BY DEF Live
  <1>3. NamesHeld /\ WorkerHasRun /\ OneRunPerName
    BY <1>2 DEF NamesHeld, WorkerHasRun, OneRunPerName
  <1>4. LoopHasRoom
    BY DEF LoopHasRoom
  <1> QED
    BY <1>1, <1>3, <1>4 DEF IInv

(* What a step keeps when it creates no worker, moves none to another job  *)
(* and takes no name from a worker that stays.                             *)
LEMMA WorkersKept ==
  ASSUME IInv,
         \A r \in RunIds : Live(r)' =>
            /\ Live(r) /\ worker'[r].job = worker[r].job
            /\ worker[r].job.name \in running'
            /\ runs'[r] \in RunRow
  PROVE  NamesHeld' /\ WorkerHasRun' /\ OneRunPerName'
  BY DEF IInv, NamesHeld, WorkerHasRun, OneRunPerName

(* Moving a worker to another pc leaves its job alone.                     *)
LEMMA GotoKeepsJobs ==
  ASSUME IInv, NEW r \in RunIds, Live(r), NEW pc \in Pcs, Goto(r, pc)
  PROVE  /\ worker' \in [RunIds -> Worker \cup {None}]
         /\ \A q \in RunIds : Live(q)' => Live(q)
                                /\ worker'[q].job = worker[q].job
  <1>1. worker \in [RunIds -> Worker \cup {None}]
    BY DEF IInv, TypeOK
  <1>2. worker[r] \in Worker
    BY <1>1 DEF Live
  <1>3. worker' = [worker EXCEPT ![r].pc = pc]
    BY DEF Goto
  <1>4. worker'[r] = [worker[r] EXCEPT !.pc = pc]
    BY <1>1, <1>3
  <1>5. worker'[r] \in Worker /\ worker'[r].job = worker[r].job
    BY <1>2, <1>4 DEF Worker
  <1>6. \A q \in RunIds \ {r} : worker'[q] = worker[q]
    BY <1>1, <1>3
  <1>7. worker' \in [RunIds -> Worker \cup {None}]
    BY <1>1, <1>3, <1>5, <1>6
  <1> QED
    BY <1>5, <1>6, <1>7 DEF Live

(* The edits of the sources table keep every stored row a row.             *)
LEMMA EditIInv == ASSUME IInv, Edit PROVE IInv'
  <1> USE ConstantsAssumption
  <1>0. TypeOK
    BY DEF IInv
  <1>1. UNCHANGED <<runs, lastRun, running, loop, worker, feed, gone, core,
                    mart, advanced, unrecorded, restarts>>
    BY DEF Edit, CreateSource, UpdateSource, DeleteSource, process, warehouse
  <1>2. NamesHeld' /\ WorkerHasRun' /\ OneRunPerName' /\ LoopHasRoom'
    BY <1>1 DEF IInv, NamesHeld, WorkerHasRun, OneRunPerName, LoopHasRoom, Live
  <1>3. sources' \in [Ids -> Row \cup {None}] /\ lastId' \in 0..MaxSources
    <2>1. CASE \E n \in Names, c \in Contracts : CreateSource(n, c)
      BY <2>1, <1>0 DEF CreateSource, TypeOK, Row, Checkpoints, Ids
    <2>2. CASE \E i \in Ids, n \in Names, c \in Contracts :
                 UpdateSource(i, n, c)
      <3>1. PICK i \in Ids, n \in Names, c \in Contracts :
                   UpdateSource(i, n, c)
        BY <2>2
      <3>2. sources[i] \in Row
        BY <3>1, <1>0 DEF UpdateSource, TypeOK
      <3>3. EditedCheckpoint(sources[i], c) \in Checkpoints
        BY <3>2 DEF EditedCheckpoint, Row, Checkpoints
      <3> QED
        BY <3>1, <3>3, <1>0 DEF UpdateSource, TypeOK, Row
    <2>3. CASE \E i \in Ids : DeleteSource(i)
      BY <2>3, <1>0 DEF DeleteSource, TypeOK
    <2> QED
      BY <2>1, <2>2, <2>3 DEF Edit
  <1>4. TypeOK'
    BY <1>0, <1>1, <1>3 DEF TypeOK
  <1> QED
    BY <1>2, <1>4 DEF IInv

(* The event loop reads and triggers.  Launch is where a worker is born:   *)
(* its name was free, so no other worker has it.                           *)
LEMMA ReadIInv ==
  ASSUME IInv, NEW i \in Ids, NEW force \in BOOLEAN, ReadSource(i, force)
  PROVE  IInv'
  <1> USE ConstantsAssumption
  <1>0. TypeOK
    BY DEF IInv
  <1>1. sources[i] \in Row
    BY <1>0 DEF ReadSource, TypeOK
  <1>2. loop' \in Job
    BY <1>1 DEF ReadSource, Row, Job
  <1>3. TypeOK'
    BY <1>0, <1>2 DEF TypeOK, ReadSource, tables, warehouse
  <1>4. NamesHeld' /\ WorkerHasRun' /\ OneRunPerName' /\ LoopHasRoom'
    BY DEF IInv, NamesHeld, WorkerHasRun, OneRunPerName, LoopHasRoom, Live,
           ReadSource
  <1> QED
    BY <1>3, <1>4 DEF IInv

LEMMA TriggerIInv == ASSUME IInv, Trigger PROVE IInv'
  <1> USE ConstantsAssumption
  <1>0. TypeOK
    BY DEF IInv
  <1>1. CASE Refuse
    BY <1>1 DEF IInv, TypeOK, NamesHeld, WorkerHasRun, OneRunPerName,
                LoopHasRoom, Live, Refuse, tables, warehouse
  <1>2. CASE Launch
    <2> DEFINE new == lastRun + 1
    <2>1. loop \in Job /\ loop.name \in Names /\ loop.name \notin running
      BY <1>2, <1>0 DEF Launch, CanStart, TypeOK, Job
    <2>2. new \in RunIds /\ lastRun' = new
      BY <1>2, <1>0 DEF Launch, IInv, LoopHasRoom, TypeOK, RunIds
    <2>3. NewWorker(loop) \in Worker /\ NewWorker(loop).job = loop
      BY <2>1 DEF NewWorker, Worker, Pcs, Checkpoints
    <2>4. /\ worker' \in [RunIds -> Worker \cup {None}]
          /\ worker'[new] = NewWorker(loop)
          /\ \A q \in RunIds \ {new} : worker'[q] = worker[q]
      BY <1>2, <2>2, <2>3, <1>0 DEF Launch, TypeOK
    <2>5. /\ runs' \in [RunIds -> RunRow \cup {None}]
          /\ runs'[new] \in RunRow
          /\ \A q \in RunIds \ {new} : runs'[q] = runs[q]
      BY <1>2, <2>1, <2>2, <1>0 DEF Launch, TypeOK, RunRow
    <2>6. running' = running \cup {loop.name} /\ loop' = None
      BY <1>2 DEF Launch
    <2>7. TypeOK'
      BY <1>2, <1>0, <2>1, <2>2, <2>4, <2>5, <2>6
      DEF TypeOK, Launch, tables, warehouse, RunRow, RunIds
    <2>8. NamesHeld'
      BY <2>3, <2>4, <2>6 DEF NamesHeld, Live, IInv
    <2>9. WorkerHasRun'
      BY <2>4, <2>5 DEF WorkerHasRun, Live, IInv
    <2>10. OneRunPerName'
      <3> SUFFICES ASSUME NEW r \in RunIds, NEW s \in RunIds,
                          Live(r)', Live(s)', r # s
                   PROVE  worker'[r].job.name # worker'[s].job.name
        BY DEF OneRunPerName
      <3>1. CASE r = new
        BY <3>1, <2>1, <2>3, <2>4 DEF Live, IInv, NamesHeld
      <3>2. CASE s = new
        BY <3>2, <2>1, <2>3, <2>4 DEF Live, IInv, NamesHeld
      <3>3. CASE r # new /\ s # new
        BY <3>3, <2>4 DEF Live, IInv, OneRunPerName
      <3> QED
        BY <3>1, <3>2, <3>3
    <2>11. LoopHasRoom'
      BY <2>6 DEF LoopHasRoom
    <2> QED
      BY <2>7, <2>8, <2>9, <2>10, <2>11 DEF IInv
  <1>3. CASE LaunchFails
    <2>1. loop.name \in Names
      BY <1>3, <1>0 DEF LaunchFails, TypeOK, Job
    <2> QED
      BY <1>3, <2>1 DEF IInv, TypeOK, NamesHeld, WorkerHasRun, OneRunPerName,
                        LoopHasRoom, Live, LaunchFails, tables, warehouse
  <1> QED
    BY <1>1, <1>2, <1>3 DEF Trigger

-----------------------------------------------------------------------------
(* The thread of a worker: its pc moves, its job stays.                    *)

LEMMA ExtractedValues ==
  ASSUME TypeOK, NEW job \in Job
  PROVE  /\ Answer(job) \in SUBSET Changes
         /\ Afters(job) \subseteq Checkpoints
  <1> USE ConstantsAssumption
  <1>1. job.contract.url \in Urls /\ job.checkpoint \in Checkpoints
    BY DEF Job, Contract
  <1>2. feed[job.contract.url] \in 0..MaxTime
    BY <1>1 DEF TypeOK
  <1>3. 1..feed[job.contract.url] \subseteq Times
    BY <1>2 DEF Times
  <1>4. Answer(job) \in SUBSET Changes
    BY <1>1, <1>3 DEF Answer, Changes
  <1>5. Newest(Answer(job)) \subseteq Times
    BY DEF Newest
  <1>6. Before(job) \in Checkpoints
    BY <1>1 DEF Before, Checkpoints
  <1> QED
    BY <1>4, <1>5, <1>6 DEF Afters, Checkpoints

LEMMA ExtractIInv ==
  ASSUME IInv, NEW r \in RunIds, Extract(r)
  PROVE  IInv'
  <1>0. TypeOK /\ worker[r] \in Worker
    BY DEF IInv, TypeOK, Extract, At, Live
  <1>1. worker[r].job \in Job
    BY <1>0 DEF Worker
  <1>2. PICK after \in Afters(worker[r].job) :
               worker' = [worker EXCEPT ![r].pc = StepAfter.extract,
                                        ![r].got = Answer(worker[r].job),
                                        ![r].after = after]
    BY DEF Extract
  <1>3. /\ worker' = [worker EXCEPT ![r] =
                        [worker[r] EXCEPT !.pc = "load",
                                          !.got = Answer(worker[r].job),
                                          !.after = after]]
        /\ Answer(worker[r].job) \in SUBSET Changes
        /\ after \in Checkpoints
    BY <1>0, <1>1, <1>2, ExtractedValues DEF StepAfter, TypeOK
  <1>4. worker'[r] \in Worker /\ worker'[r].job = worker[r].job
    BY <1>0, <1>3 DEF TypeOK, Worker, Pcs, ThreadPcs
  <1>5. \A q \in RunIds \ {r} : worker'[q] = worker[q]
    BY <1>0, <1>3 DEF TypeOK
  <1>6. TypeOK'
    BY <1>0, <1>3, <1>4, <1>5
    DEF TypeOK, Extract, tables, process, warehouse
  <1>7. NamesHeld' /\ WorkerHasRun' /\ OneRunPerName'
    BY <1>4, <1>5, WorkersKept
    DEF IInv, NamesHeld, WorkerHasRun, Live, Extract, At, process
  <1> QED
    BY <1>6, <1>7 DEF IInv, LoopHasRoom, Extract, process

(* Every other step of a thread moves its worker to another pc.            *)
LEMMA ThreadMoves ==
  ASSUME IInv, NEW r \in RunIds, ThreadStep(r), ~Extract(r)
  PROVE  /\ Live(r)
         /\ \E pc \in Pcs : Goto(r, pc)
         /\ UNCHANGED <<lastId, lastRun, running, loop, feed, gone,
                        unrecorded, restarts>>
  <1> USE DEF Pcs, ThreadPcs, At, StepAfter, Advance, tables, process,
              warehouse
  <1>1. CASE Start(r)             BY <1>1 DEF Start
  <1>2. CASE Preflight(r)         BY <1>2 DEF Preflight
  <1>3. CASE Load(r)              BY <1>3 DEF Load
  <1>4. CASE CoreSync(r)          BY <1>4 DEF CoreSync
  <1>5. CASE MartRefresh(r)       BY <1>5 DEF MartRefresh
  <1>6. CASE CommitCheckpoint(r)  BY <1>6 DEF CommitCheckpoint
  <1>7. CASE MarkDone(r)          BY <1>7 DEF MarkDone
  <1>8. CASE StepFails(r)         BY <1>8 DEF StepFails
  <1>9. CASE WriteFails(r)        BY <1>9 DEF WriteFails
  <1> QED
    BY <1>1, <1>2, <1>3, <1>4, <1>5, <1>6, <1>7, <1>8, <1>9 DEF ThreadStep

(* A thread writes nothing into the runs table but the status of its run.  *)
LEMMA ThreadRuns ==
  ASSUME IInv, NEW r \in RunIds, ThreadStep(r)
  PROVE  /\ runs' \in [RunIds -> RunRow \cup {None}]
         /\ \A q \in RunIds : runs[q] \in RunRow => runs'[q] \in RunRow
  <1>1. runs \in [RunIds -> RunRow \cup {None}]
    BY DEF IInv, TypeOK, RunRow
  <1>2. Live(r) => runs[r] \in RunRow
    BY DEF IInv, WorkerHasRun
  <1>3. CASE UNCHANGED runs
    BY <1>1, <1>3
  <1>4. CASE Preflight(r)
    BY <1>1, <1>2, <1>4 DEF Preflight, At, RunRow
  <1>5. CASE MarkDone(r)
    BY <1>1, <1>2, <1>5 DEF MarkDone, At, RunRow
  <1> QED
    BY <1>3, <1>4, <1>5
    DEF ThreadStep, Start, Extract, Load, CoreSync, MartRefresh,
        CommitCheckpoint, StepFails, WriteFails

(* A thread keeps the tables and the warehouse well typed.                 *)
LEMMA ThreadData ==
  ASSUME IInv, NEW r \in RunIds, ThreadStep(r)
  PROVE  /\ sources' \in [Ids -> Row \cup {None}]
         /\ core' \in [Names -> SUBSET Changes]
         /\ mart' \in [Names -> SUBSET Changes]
         /\ advanced' \subseteq RunIds
  <1>0. TypeOK
    BY DEF IInv
  <1>1. Live(r) => worker[r] \in Worker
    BY <1>0 DEF TypeOK, Live
  <1>2. CASE UNCHANGED <<sources, core, mart, advanced>>
    BY <1>0, <1>2 DEF TypeOK
  <1>3. CASE CoreSync(r)
    BY <1>0, <1>1, <1>3
    DEF TypeOK, CoreSync, At, Worker, Job, tables
  <1>4. CASE MartRefresh(r)
    BY <1>0, <1>4 DEF TypeOK, MartRefresh, tables
  <1>5. CASE CommitCheckpoint(r)
    <2>1. worker[r].after \in Checkpoints
      BY <1>1, <1>5 DEF CommitCheckpoint, At, Worker
    <2>2. ASSUME NEW i \in Ids PROVE sources'[i] \in Row \cup {None}
      <3>1. sources[i] \in Row \cup {None}
        BY <1>0 DEF TypeOK
      <3>2. \/ sources'[i] = sources[i]
            \/ /\ sources[i] # None
               /\ sources'[i] =
                    [sources[i] EXCEPT !.checkpoint = worker[r].after]
        BY <1>5 DEF CommitCheckpoint, RowsNamed
      <3> QED
        BY <2>1, <3>1, <3>2 DEF Row
    <2>3. sources' = [i \in Ids |-> sources'[i]]
      BY <1>5 DEF CommitCheckpoint
    <2>4. sources' \in [Ids -> Row \cup {None}]
      BY <2>2, <2>3
    <2> QED
      BY <1>0, <1>5, <2>4 DEF TypeOK, CommitCheckpoint, warehouse
  <1> QED
    BY <1>2, <1>3, <1>4, <1>5
    DEF ThreadStep, Start, Preflight, Extract, Load, MarkDone, StepFails,
        WriteFails, tables, warehouse

LEMMA ThreadIInv ==
  ASSUME IInv, NEW r \in RunIds, ThreadStep(r)
  PROVE  IInv'
  <1>1. CASE Extract(r)
    BY <1>1, ExtractIInv
  <1>2. CASE ~Extract(r)
    <2>1. PICK pc \in Pcs : Goto(r, pc)
      BY <1>2, ThreadMoves
    <2>2. /\ Live(r)
          /\ UNCHANGED <<lastId, lastRun, running, loop, feed, gone,
                         unrecorded, restarts>>
      BY <1>2, ThreadMoves
    <2>3. /\ worker' \in [RunIds -> Worker \cup {None}]
          /\ \A q \in RunIds : Live(q)' => Live(q)
                                 /\ worker'[q].job = worker[q].job
      BY <2>1, <2>2, GotoKeepsJobs
    <2>4. NamesHeld' /\ WorkerHasRun' /\ OneRunPerName'
      BY <2>2, <2>3, ThreadRuns, WorkersKept DEF IInv, NamesHeld, WorkerHasRun
    <2>5. TypeOK'
      BY <2>2, <2>3, ThreadRuns, ThreadData DEF IInv, TypeOK, RunRow
    <2> QED
      BY <2>2, <2>4, <2>5 DEF IInv, LoopHasRoom
  <1> QED
    BY <1>1, <1>2

-----------------------------------------------------------------------------
(* The end of a worker: the name it gives back is held by no other.        *)
LEMMA LoopIInv ==
  ASSUME IInv, NEW r \in RunIds, LoopStep(r)
  PROVE  IInv'
  <1>1. /\ Live(r) /\ Forget(r)
        /\ UNCHANGED <<sources, lastId, lastRun, loop, feed, gone, core, mart,
                       advanced, restarts>>
        /\ unrecorded' \in {unrecorded, unrecorded \cup {r}}
    BY DEF LoopStep, Settle, RecordFailure, At, tables, warehouse
  <1>2. \/ UNCHANGED runs
        \/ runs' = [runs EXCEPT ![r].status = "failed"]
    BY DEF LoopStep, Settle, RecordFailure
  <1>3. /\ worker' \in [RunIds -> Worker \cup {None}]
        /\ worker'[r] = None
        /\ \A q \in RunIds \ {r} : worker'[q] = worker[q]
    BY <1>1 DEF Forget, IInv, TypeOK
  <1>4. /\ runs' \in [RunIds -> RunRow \cup {None}]
        /\ \A q \in RunIds \ {r} : runs'[q] = runs[q]
    BY <1>1, <1>2 DEF IInv, TypeOK, WorkerHasRun, RunRow
  <1>5. ASSUME NEW q \in RunIds, Live(q)'
        PROVE  /\ Live(q) /\ worker'[q].job = worker[q].job
               /\ worker[q].job.name \in running'
               /\ runs'[q] \in RunRow
    <2>1. q # r /\ Live(q)
      BY <1>3, <1>5 DEF Live
    <2>2. worker[q].job.name # worker[r].job.name
      BY <1>1, <2>1 DEF IInv, OneRunPerName
    <2> QED
      BY <1>1, <1>3, <1>4, <2>1, <2>2
      DEF Forget, IInv, NamesHeld, WorkerHasRun
  <1>6. NamesHeld' /\ WorkerHasRun' /\ OneRunPerName'
    BY <1>5, WorkersKept
  <1>7. TypeOK'
    BY <1>1, <1>3, <1>4 DEF IInv, TypeOK, Forget, RunRow
  <1> QED
    BY <1>1, <1>6, <1>7 DEF IInv, LoopHasRoom

(* What happens at an endpoint is seen by a run only when it asks.         *)
EndpointStep(u) == FeedChanges(u) \/ \E t \in Times : RecordGoes(u, t)

LEMMA EndpointIInv == ASSUME IInv, NEW u \in Urls, EndpointStep(u) PROVE IInv'
  <1> USE ConstantsAssumption
  <1>1. feed' \in [Urls -> 0..MaxTime] /\ gone' \subseteq Changes
    <2>1. CASE FeedChanges(u)
      BY <2>1 DEF FeedChanges, IInv, TypeOK
    <2>2. ASSUME NEW t \in Times, RecordGoes(u, t)
          PROVE  feed' = feed /\ gone' \subseteq Changes
      BY <2>2 DEF RecordGoes, Changes, IInv, TypeOK
    <2> QED
      BY <2>1, <2>2 DEF EndpointStep, IInv, TypeOK
  <1>2. UNCHANGED <<sources, lastId, runs, lastRun, running, loop, worker,
                    core, mart, advanced, unrecorded, restarts>>
    BY DEF EndpointStep, FeedChanges, RecordGoes, tables, process, warehouse
  <1> QED
    BY <1>1, <1>2 DEF IInv, TypeOK, NamesHeld, WorkerHasRun, LoopHasRoom,
                      OneRunPerName, Live

LEMMA RestartIInv == ASSUME IInv, Restart PROVE IInv'
  <1> USE ConstantsAssumption
  <1>1. \A r \in RunIds : ~Live(r)'
    BY DEF Restart, Live
  <1>2. NamesHeld' /\ WorkerHasRun' /\ OneRunPerName'
    BY <1>1 DEF NamesHeld, WorkerHasRun, OneRunPerName
  <1>3. /\ TypeOK
        /\ sources \in [Ids -> Row \cup {None}]
        /\ lastId \in 0..MaxSources
    BY DEF IInv, TypeOK
  <1>4. sources' \in [Ids -> Row \cup {None}] /\ lastId' \in 0..MaxSources
    BY <1>3, SeedAssumption DEF Restart, SeedAgain, tables
  <1>5. TypeOK' /\ LoopHasRoom'
    BY <1>3, <1>4 DEF Restart, TypeOK, LoopHasRoom, warehouse
  <1> QED
    BY <1>2, <1>5 DEF IInv

(* IInv is an invariant of the specification.                              *)
THEOREM Invariance == Spec => []IInv
  <1>1. ASSUME IInv, [Next]_vars PROVE IInv'
    <2>1. CASE Edit
      BY <1>1, <2>1, EditIInv
    <2>2. CASE \E i \in Ids, force \in BOOLEAN : ReadSource(i, force)
      BY <1>1, <2>2, ReadIInv
    <2>3. CASE Trigger
      BY <1>1, <2>3, TriggerIInv
    <2>4. CASE \E r \in RunIds : ThreadStep(r) \/ LoopStep(r)
      BY <1>1, <2>4, ThreadIInv, LoopIInv
    <2>5. CASE \E u \in Urls : EndpointStep(u)
      BY <1>1, <2>5, EndpointIInv
    <2>6. CASE Restart
      BY <1>1, <2>6, RestartIInv
    <2>7. CASE UNCHANGED vars
      BY <1>1, <2>7 DEF IInv, TypeOK, NamesHeld, WorkerHasRun, LoopHasRoom,
                        OneRunPerName, Live, vars
    <2> QED
      BY <1>1, <2>1, <2>2, <2>3, <2>4, <2>5, <2>6, <2>7
      DEF Next, EndpointStep
  <1> QED
    BY InitIInv, <1>1, PTL DEF Spec

(* The variables always have their types.                                  *)
THEOREM TypeCorrect == Spec => []TypeOK
  <1>1. IInv => TypeOK
    BY DEF IInv
  <1> QED
    BY Invariance, <1>1, PTL

(* Two workers never share a source name, whatever is edited, whichever    *)
(* write fails and whenever the process restarts.                          *)
THEOREM NamesNeverShared == Spec => []OneRunPerName
  <1>1. IInv => OneRunPerName
    BY DEF IInv
  <1> QED
    BY Invariance, <1>1, PTL

-----------------------------------------------------------------------------
(* The order of publication: Core before Mart before the checkpoint.       *)

MartBehindCore == \A n \in Names : mart[n] \subseteq core[n]

PayloadInCore ==
    \A r \in RunIds :
        At(r, "mart") => worker[r].got \subseteq core[worker[r].job.name]

PayloadInMart ==
    \A r \in RunIds :
        Live(r) /\ worker[r].pc \in {"commit", "finish", "returned"}
        => worker[r].got \subseteq mart[worker[r].job.name]

PInv == IInv /\ MartBehindCore /\ PayloadInCore /\ PayloadInMart

LEMMA InitPInv == Init => PInv
  BY InitIInv
  DEF Init, PInv, MartBehindCore, PayloadInCore, PayloadInMart, At, Live

(* Only two actions write the warehouse, and both add to it.               *)
LEMMA WarehouseGrows ==
  ASSUME PInv, [Next]_vars
  PROVE  /\ MartBehindCore'
         /\ \A n \in Names : core[n] \subseteq core'[n]
                             /\ mart[n] \subseteq mart'[n]
  <1>0. TypeOK /\ MartBehindCore
    BY DEF PInv, IInv
  <1>1. CASE UNCHANGED warehouse
    BY <1>0, <1>1 DEF MartBehindCore, warehouse
  <1>2. ASSUME NEW r \in RunIds, CoreSync(r)
        PROVE  /\ MartBehindCore'
               /\ \A n \in Names : core[n] \subseteq core'[n]
                                   /\ mart[n] \subseteq mart'[n]
    BY <1>0, <1>2 DEF CoreSync, TypeOK, MartBehindCore
  <1>3. ASSUME NEW r \in RunIds, MartRefresh(r)
        PROVE  /\ MartBehindCore'
               /\ \A n \in Names : core[n] \subseteq core'[n]
                                   /\ mart[n] \subseteq mart'[n]
    BY <1>0, <1>3 DEF MartRefresh, MartBehindCore
  <1>4. CASE Next /\ \A r \in RunIds : ~CoreSync(r) /\ ~MartRefresh(r)
    <2>1. UNCHANGED warehouse
      BY <1>4
      DEF Next, Edit, CreateSource, UpdateSource, DeleteSource, ReadSource,
          Trigger, Refuse, Launch, LaunchFails, ThreadStep, Start, Preflight,
          Extract, Load, CommitCheckpoint, MarkDone, StepFails, WriteFails,
          LoopStep, Settle, RecordFailure, FeedChanges, RecordGoes, Restart
    <2> QED
      BY <1>1, <2>1
  <1> QED
    BY <1>1, <1>2, <1>3, <1>4 DEF vars, warehouse

(* What a worker that is past the core step has left behind stays there.   *)
LEMMA SamePcStays ==
  ASSUME PInv, [Next]_vars, NEW r \in RunIds, worker'[r] = worker[r]
  PROVE  /\ At(r, "mart")' => worker'[r].got
                                \subseteq core'[worker'[r].job.name]
         /\ Live(r)' /\ worker'[r].pc \in {"commit", "finish", "returned"}
            => worker'[r].got \subseteq mart'[worker'[r].job.name]
  <1>1. Live(r) => worker[r].job.name \in Names
    BY DEF PInv, IInv, TypeOK, Live, Worker, Job
  <1> QED
    BY <1>1, WarehouseGrows
    DEF PInv, PayloadInCore, PayloadInMart, At, Live

(* A step of thread r, one case per action that can bring it to "mart" or  *)
(* beyond.                                                                 *)
LEMMA ThreadPublishes ==
  ASSUME PInv, NEW r \in RunIds, ThreadStep(r), [Next]_vars
  PROVE  PayloadInCore' /\ PayloadInMart'
  <1>0. /\ worker \in [RunIds -> Worker \cup {None}]
        /\ core \in [Names -> SUBSET Changes]
        /\ Live(r)
    BY DEF PInv, IInv, TypeOK, ThreadStep, Start, Preflight, Extract, Load,
           CoreSync, MartRefresh, CommitCheckpoint, MarkDone, StepFails,
           WriteFails, At
  <1>1. worker[r] \in Worker /\ worker[r].job.name \in Names
    BY <1>0 DEF Live, Worker, Job
  <1>2. \A q \in RunIds \ {r} : worker'[q] = worker[q]
    BY <1>0 DEF ThreadStep, Start, Preflight, Extract, Load, CoreSync,
                MartRefresh, CommitCheckpoint, MarkDone, StepFails,
                WriteFails, Goto, Advance
  <1>3. ASSUME NEW pc, Goto(r, pc)
        PROVE  /\ worker'[r].pc = pc /\ worker'[r].got = worker[r].got
               /\ worker'[r].job = worker[r].job
    <2>1. worker'[r] = [worker[r] EXCEPT !.pc = pc]
      BY <1>0, <1>3 DEF Goto
    <2> QED
      BY <1>1, <2>1 DEF Worker
  <1>4. /\ worker'[r].pc = "mart"
           => worker'[r].got \subseteq core'[worker'[r].job.name]
        /\ worker'[r].pc \in {"commit", "finish", "returned"}
           => worker'[r].got \subseteq mart'[worker'[r].job.name]
    <2>1. CASE Start(r)
      BY <2>1, <1>3 DEF Start
    <2>2. CASE Preflight(r)
      BY <2>2, <1>3 DEF Preflight, Advance, At, StepAfter
    <2>3. CASE Extract(r)
      BY <2>3, <1>0, <1>1 DEF Extract, StepAfter, Worker
    <2>4. CASE Load(r)
      BY <2>4, <1>3 DEF Load, Advance, At, StepAfter
    <2>5. CASE CoreSync(r)
      BY <2>5, <1>0, <1>1, <1>3 DEF CoreSync, Advance, At, StepAfter
    <2>6. CASE MartRefresh(r)
      BY <2>6, <1>1, <1>3
      DEF MartRefresh, Advance, At, StepAfter, PInv, PayloadInCore
    <2>7. CASE CommitCheckpoint(r)
      BY <2>7, <1>1, <1>3
      DEF CommitCheckpoint, Advance, At, StepAfter, PInv, PayloadInMart,
          warehouse
    <2>8. CASE MarkDone(r)
      BY <2>8, <1>1, <1>3 DEF MarkDone, At, PInv, PayloadInMart, warehouse
    <2>9. CASE StepFails(r)
      BY <2>9, <1>3 DEF StepFails
    <2>10. CASE WriteFails(r)
      BY <2>10, <1>3 DEF WriteFails
    <2> QED
      BY <2>1, <2>2, <2>3, <2>4, <2>5, <2>6, <2>7, <2>8, <2>9, <2>10
      DEF ThreadStep
  <1> QED
    BY <1>2, <1>4, SamePcStays DEF PayloadInCore, PayloadInMart, At, Live

LEMMA StepPInv == ASSUME PInv, [Next]_vars, IInv' PROVE PInv'
  <1>1. MartBehindCore'
    BY WarehouseGrows
  <1>2. ASSUME \A r \in RunIds : \/ worker'[r] = worker[r]
                                 \/ worker'[r] = None
                                 \/ worker'[r].pc = "queued"
        PROVE  PayloadInCore' /\ PayloadInMart'
    BY <1>2, SamePcStays DEF PayloadInCore, PayloadInMart, At, Live
  <1>3. worker \in [RunIds -> Worker \cup {None}]
    BY DEF PInv, IInv, TypeOK
  <1>4. PayloadInCore' /\ PayloadInMart'
    <2>1. CASE \E r \in RunIds : ThreadStep(r)
      BY <2>1, ThreadPublishes
    <2>2. CASE \E r \in RunIds : LoopStep(r)
      BY <1>2, <1>3, <2>2 DEF LoopStep, Settle, RecordFailure, Forget
    <2>3. CASE Trigger
      BY <1>2, <1>3, <2>3
      DEF Trigger, Refuse, Launch, LaunchFails, NewWorker
    <2>4. CASE Restart
      BY <1>2, <2>4 DEF Restart
    <2>5. CASE UNCHANGED worker
      BY <1>2, <2>5
    <2> QED
      BY <2>1, <2>2, <2>3, <2>4, <2>5
      DEF Next, Edit, CreateSource, UpdateSource, DeleteSource, ReadSource,
          FeedChanges, RecordGoes, vars
  <1> QED
    BY <1>1, <1>4 DEF PInv

(* Of all steps only CommitCheckpoint puts a new time into a row.          *)
LEMMA OnlyCommitAdvances ==
  ASSUME PInv, [Next]_vars, NEW i \in Ids,
         sources[i] # None, sources'[i] # None,
         sources'[i].checkpoint \notin {None, sources[i].checkpoint}
  PROVE  \E r \in RunIds :
           /\ At(r, "commit")
           /\ worker[r].job.name = sources[i].name
           /\ worker[r].after = sources'[i].checkpoint
           /\ worker[r].got \subseteq mart[sources[i].name]
  <1>1. sources \in [Ids -> Row \cup {None}]
    BY DEF PInv, IInv, TypeOK
  <1>2. ~UNCHANGED sources
    OBVIOUS
  <1>3. ~Edit
    <2>1. ASSUME NEW n \in Names, NEW c \in Contracts, CreateSource(n, c)
          PROVE  FALSE
      BY <1>1, <2>1 DEF CreateSource
    <2>2. ASSUME NEW j \in Ids, NEW n \in Names, NEW c \in Contracts,
                 UpdateSource(j, n, c)
          PROVE  FALSE
      BY <1>1, <2>2 DEF UpdateSource, EditedCheckpoint
    <2>3. ASSUME NEW j \in Ids, DeleteSource(j)
          PROVE  FALSE
      BY <1>1, <2>3 DEF DeleteSource
    <2> QED
      BY <2>1, <2>2, <2>3 DEF Edit
  <1>4. ~Restart
    BY <1>1, SeedAssumption DEF Restart, SeedAgain, tables
  <1>5. PICK r \in RunIds : CommitCheckpoint(r)
    BY <1>2, <1>3, <1>4
    DEF Next, ReadSource, Trigger, Refuse, Launch, LaunchFails, ThreadStep,
        Start, Preflight, Extract, Load, CoreSync, MartRefresh, MarkDone,
        StepFails, WriteFails, LoopStep, Settle, RecordFailure, FeedChanges,
        RecordGoes, tables, vars
  <1>6. /\ i \in RowsNamed(worker[r].job.name)
        /\ sources'[i] = [sources[i] EXCEPT !.checkpoint = worker[r].after]
    BY <1>5 DEF CommitCheckpoint, RowsNamed
  <1>7. sources'[i].checkpoint = worker[r].after
    BY <1>1, <1>6 DEF Row
  <1>8. worker[r].job.name = sources[i].name
    BY <1>6 DEF RowsNamed
  <1> QED
    BY <1>5, <1>7, <1>8 DEF CommitCheckpoint, At, PInv, PayloadInMart

(* pipeline.py:394 "Commit the watermark only after every downstream       *)
(* publish step succeeds", for any edits, failures and restarts.           *)
THEOREM CheckpointFollowsPublication == Spec => AdvanceOnlyAfterPublish
  <1>1. PInv /\ [Next]_vars /\ IInv' => PInv'
    BY StepPInv
  <1>2. PInv /\ [Next]_vars =>
          [\A i \in Ids :
             /\ sources[i] # None /\ sources'[i] # None
             /\ sources'[i].checkpoint \notin {None, sources[i].checkpoint}
             => \E r \in RunIds :
                  /\ At(r, "commit")
                  /\ worker[r].job.name = sources[i].name
                  /\ worker[r].after = sources'[i].checkpoint
                  /\ worker[r].got \subseteq mart[sources[i].name]]_vars
    BY OnlyCommitAdvances
  <1> QED
    BY InitPInv, Invariance, <1>1, <1>2, PTL
    DEF Spec, AdvanceOnlyAfterPublish

-----------------------------------------------------------------------------
(* What every step of a thread does to the workers.                        *)
LEMMA ThreadWorker ==
  ASSUME IInv, NEW r \in RunIds, ThreadStep(r)
  PROVE  /\ worker[r] \in Worker /\ worker'[r] \in Worker
         /\ Live(r) /\ Live(r)'
         /\ worker'[r].job = worker[r].job
         /\ \A q \in RunIds \ {r} : worker'[q] = worker[q]
         /\ UNCHANGED <<lastId, lastRun, running, loop, feed, gone,
                        unrecorded, restarts>>
  <1>0. /\ worker \in [RunIds -> Worker \cup {None}]
        /\ TypeOK
    BY DEF IInv, TypeOK
  <1>1. CASE Extract(r)
    <2>1. Live(r) /\ worker[r] \in Worker /\ worker[r].job \in Job
      BY <1>0, <1>1 DEF Extract, At, Live, Worker
    <2>2. PICK after \in Afters(worker[r].job) :
                 worker' = [worker EXCEPT ![r].pc = StepAfter.extract,
                                          ![r].got = Answer(worker[r].job),
                                          ![r].after = after]
      BY <1>1 DEF Extract
    <2>3. /\ worker'[r] = [worker[r] EXCEPT !.pc = "load",
                                            !.got = Answer(worker[r].job),
                                            !.after = after]
          /\ \A q \in RunIds \ {r} : worker'[q] = worker[q]
          /\ Answer(worker[r].job) \in SUBSET Changes
          /\ after \in Checkpoints
      BY <1>0, <2>1, <2>2, ExtractedValues DEF StepAfter
    <2>4. worker'[r] \in Worker /\ worker'[r].job = worker[r].job
      BY <2>1, <2>3 DEF Worker, Pcs, ThreadPcs
    <2>5. Live(r)'
      BY <2>4, NoneAssumption DEF Live
    <2> QED
      BY <1>1, <2>1, <2>3, <2>4, <2>5 DEF Extract, tables, process
  <1>2. CASE ~Extract(r)
    <2>1. PICK pc \in Pcs : Goto(r, pc)
      BY <1>2, ThreadMoves
    <2>2. /\ Live(r)
          /\ UNCHANGED <<lastId, lastRun, running, loop, feed, gone,
                         unrecorded, restarts>>
      BY <1>2, ThreadMoves
    <2>3. worker[r] \in Worker
      BY <1>0, <2>2 DEF Live
    <2>4. /\ worker'[r] = [worker[r] EXCEPT !.pc = pc]
          /\ \A q \in RunIds \ {r} : worker'[q] = worker[q]
      BY <1>0, <2>1 DEF Goto
    <2>5. worker'[r] \in Worker /\ worker'[r].job = worker[r].job
      BY <2>3, <2>4 DEF Worker
    <2>6. Live(r)'
      BY <2>5, NoneAssumption DEF Live
    <2> QED
      BY <2>2, <2>3, <2>4, <2>5, <2>6
  <1> QED
    BY <1>1, <1>2

(* What a trigger that starts a run does, if run numbers are never reused. *)
RunsNumbered == \A r \in RunIds : runs[r] # None => r <= lastRun

LEMMA LaunchWorker ==
  ASSUME IInv, RunsNumbered, Launch
  PROVE  /\ lastRun' \in RunIds /\ lastRun' = lastRun + 1
         /\ loop \in Job
         /\ worker[lastRun'] = None /\ runs[lastRun'] = None
         /\ worker'[lastRun'] = NewWorker(loop) /\ worker'[lastRun'] # None
         /\ runs'[lastRun'] = [source |-> loop.name, status |-> "queued"]
         /\ \A q \in RunIds \ {lastRun'} :
              worker'[q] = worker[q] /\ runs'[q] = runs[q]
  <1>0. TypeOK
    BY DEF IInv
  <1>1. lastRun' = lastRun + 1 /\ lastRun' \in RunIds /\ loop \in Job
    BY <1>0, ConstantsAssumption DEF Launch, IInv, LoopHasRoom, TypeOK, RunIds
  <1>2. ~(lastRun' <= lastRun)
    BY <1>0, <1>1 DEF TypeOK
  <1>3. runs[lastRun'] = None
    BY <1>1, <1>2 DEF RunsNumbered
  <1>4. worker[lastRun'] = None
    BY <1>1, <1>3, NoneAssumption DEF IInv, WorkerHasRun, Live, RunRow
  <1>5. /\ worker'[lastRun'] = NewWorker(loop)
        /\ runs'[lastRun'] = [source |-> loop.name, status |-> "queued"]
        /\ \A q \in RunIds \ {lastRun'} :
             worker'[q] = worker[q] /\ runs'[q] = runs[q]
    BY <1>0, <1>1 DEF Launch, TypeOK
  <1>6. NewWorker(loop) \in Worker
    BY <1>1 DEF NewWorker, Worker, Pcs, Checkpoints
  <1>7. worker'[lastRun'] # None
    BY <1>5, <1>6, NoneAssumption
  <1> QED
    BY <1>1, <1>3, <1>4, <1>5, <1>7

(* Every step of the specification, told apart by what it does to workers, *)
(* runs, running and loop.                                                 *)
LEMMA StepCases ==
  ASSUME [Next]_vars
  PROVE  \/ \E r \in RunIds : ThreadStep(r)
         \/ \E r \in RunIds : LoopStep(r)
         \/ Launch
         \/ LaunchFails
         \/ Restart
         \/ UNCHANGED <<runs, lastRun, running, worker, advanced>>
  BY DEF Next, Edit, CreateSource, UpdateSource, DeleteSource, ReadSource,
         Trigger, Refuse, FeedChanges, RecordGoes, process, vars

LEMMA NumberedNext ==
  ASSUME IInv, RunsNumbered, [Next]_vars
  PROVE  RunsNumbered'
  <1>0. TypeOK
    BY DEF IInv
  <1>1. ASSUME NEW r \in RunIds, ThreadStep(r) \/ LoopStep(r)
        PROVE  RunsNumbered'
    <2>1. Live(r) /\ lastRun' = lastRun
      BY <1>1, ThreadWorker DEF LoopStep, Settle, RecordFailure, At
    <2>2. runs[r] # None
      BY <2>1, NoneAssumption DEF IInv, WorkerHasRun
    <2>3. \A q \in RunIds \ {r} : runs'[q] = runs[q]
      BY <1>0, <1>1
      DEF TypeOK, ThreadStep, LoopStep, Start, Preflight, Extract, Load,
          CoreSync, MartRefresh, CommitCheckpoint, MarkDone, StepFails,
          WriteFails, Settle, RecordFailure
    <2> QED
      BY <2>1, <2>2, <2>3 DEF RunsNumbered
  <1>2. CASE Launch
    <2>1. lastRun \in Nat
      BY <1>0 DEF TypeOK
    <2> QED
      BY <1>2, <2>1, LaunchWorker DEF RunsNumbered, RunIds
  <1>3. CASE LaunchFails \/ Restart
    BY <1>3 DEF LaunchFails, Restart, RunsNumbered
  <1>4. CASE UNCHANGED <<runs, lastRun, running, worker, advanced>>
    BY <1>4 DEF RunsNumbered
  <1> QED
    BY <1>1, <1>2, <1>3, <1>4, StepCases

-----------------------------------------------------------------------------
(* A name that is refused belongs to a run.  Launch must not take the      *)
(* number of a live worker, which is why runs are numbered.                *)
HInv == IInv /\ RunsNumbered /\ HeldByARun

LEMMA HeldNext ==
  ASSUME HInv, ~WritesFail, [Next]_vars
  PROVE  HeldByARun'
  <1> USE DEF HInv
  <1>1. CASE \E r \in RunIds : ThreadStep(r)
    <2>1. PICK r \in RunIds : ThreadStep(r)
      BY <1>1
    <2>2. /\ running' = running
          /\ \A q \in RunIds : Live(q) =>
               Live(q)' /\ worker'[q].job = worker[q].job
      BY <2>1, ThreadWorker DEF Live
    <2> QED
      BY <2>2 DEF HeldByARun
  <1>2. CASE \E r \in RunIds : LoopStep(r)
    <2>1. PICK r \in RunIds : LoopStep(r)
      BY <1>2
    <2>2. /\ running' = running \ {worker[r].job.name}
          /\ \A q \in RunIds \ {r} : worker'[q] = worker[q]
      BY <2>1 DEF LoopStep, Settle, RecordFailure, Forget, IInv, TypeOK
    <2>3. ASSUME NEW n \in running'
          PROVE  \E q \in RunIds : Live(q)' /\ worker'[q].job.name = n
      <3>1. PICK q \in RunIds : Live(q) /\ worker[q].job.name = n
        BY <2>2 DEF HeldByARun
      <3>2. q # r
        BY <2>2, <3>1
      <3> QED
        BY <2>2, <3>1, <3>2 DEF Live
    <2> QED
      BY <2>3 DEF HeldByARun
  <1>3. CASE Launch
    <2>1. /\ lastRun' \in RunIds
          /\ worker[lastRun'] = None
          /\ worker'[lastRun'] = NewWorker(loop)
          /\ worker'[lastRun'] # None
          /\ \A q \in RunIds \ {lastRun'} : worker'[q] = worker[q]
      BY <1>3, LaunchWorker
    <2>2. NewWorker(loop).job.name = loop.name
      BY DEF NewWorker
    <2>3. running' = running \cup {loop.name}
      BY <1>3 DEF Launch
    <2>4. \A n \in running : \E q \in RunIds :
            Live(q)' /\ worker'[q].job.name = n
      BY <2>1 DEF HeldByARun, Live
    <2> QED
      BY <2>1, <2>2, <2>3, <2>4 DEF HeldByARun, Live
  <1>4. CASE LaunchFails
    BY <1>4 DEF LaunchFails
  <1>5. CASE Restart
    BY <1>5 DEF Restart, HeldByARun
  <1>6. CASE UNCHANGED <<runs, lastRun, running, worker, advanced>>
    BY <1>6 DEF HeldByARun, Live
  <1> QED
    BY <1>1, <1>2, <1>3, <1>4, <1>5, <1>6, StepCases

(* runner.py:31 _finish: as long as SQLite can be written, a name is       *)
(* refused only while a run of that name is in flight, whatever is edited  *)
(* or renamed meanwhile, however runs fail and whenever the process        *)
(* restarts.                                                               *)
THEOREM NamesGivenBack == ASSUME ~WritesFail PROVE Spec => []HeldByARun
  <1>1. Init => RunsNumbered /\ HeldByARun
    BY DEF Init, RunsNumbered, HeldByARun
  <1>2. IInv /\ RunsNumbered /\ [Next]_vars => RunsNumbered'
    BY NumberedNext
  <1>3. IInv /\ RunsNumbered /\ HeldByARun /\ [Next]_vars => HeldByARun'
    BY HeldNext DEF HInv
  <1> QED
    BY <1>1, <1>2, <1>3, Invariance, PTL DEF Spec

-----------------------------------------------------------------------------
(* A run that has moved a checkpoint has only the write of its status left *)
(* before it returns; a run that is failed has no worker to do anything.   *)
AdvancedIsLast ==
    \A r \in RunIds :
        r \in advanced =>
            /\ runs[r] # None
            /\ Live(r) => worker[r].pc \in {"finish", "returned"}

FailedIsOver ==
    \A r \in RunIds :
        runs[r] # None /\ runs[r].status = "failed" => ~Live(r)

FInv == /\ IInv /\ RunsNumbered /\ AdvancedIsLast
        /\ FailedIsOver /\ FailedKeepsCheckpoint

LEMMA ThreadStatus ==
  ASSUME IInv, NEW r \in RunIds, ThreadStep(r)
  PROVE  /\ runs[r] # None /\ runs'[r] # None
         /\ runs'[r].status = "failed" => runs[r].status = "failed"
         /\ \A q \in RunIds \ {r} : runs'[q] = runs[q]
  <1>1. runs \in [RunIds -> RunRow \cup {None}]
    BY DEF IInv, TypeOK
  <1>2. runs[r] \in RunRow
    BY ThreadWorker DEF IInv, WorkerHasRun
  <1>3. CASE UNCHANGED runs
    BY <1>2, <1>3, NoneAssumption
  <1>4. CASE Preflight(r)
    <2>1. runs'[r] = [runs[r] EXCEPT !.status = "running"]
      BY <1>1, <1>4 DEF Preflight
    <2>2. runs'[r] \in RunRow /\ runs'[r].status = "running"
      BY <1>2, <2>1 DEF RunRow
    <2> QED
      BY <1>1, <1>2, <1>4, <2>2, NoneAssumption DEF Preflight
  <1>5. CASE MarkDone(r)
    <2>1. runs'[r] = [runs[r] EXCEPT !.status = "done"]
      BY <1>1, <1>5 DEF MarkDone
    <2>2. runs'[r] \in RunRow /\ runs'[r].status = "done"
      BY <1>2, <2>1 DEF RunRow
    <2> QED
      BY <1>1, <1>2, <1>5, <2>2, NoneAssumption DEF MarkDone
  <1> QED
    BY <1>3, <1>4, <1>5
    DEF ThreadStep, Start, Extract, Load, CoreSync, MartRefresh,
        CommitCheckpoint, StepFails, WriteFails

(* Where the pc of a thread goes once its run has moved a checkpoint.      *)
LEMMA ThreadAdvanced ==
  ASSUME IInv, ~WritesFail, NEW r \in RunIds, ThreadStep(r)
  PROVE  /\ worker[r].pc \in {"finish", "returned"} =>
              worker'[r].pc = "returned"
         /\ advanced' = advanced \/ ( /\ advanced' = advanced \cup {r}
                                       /\ worker'[r].pc = "finish")
  <1>1. worker \in [RunIds -> Worker \cup {None}] /\ worker[r] \in Worker
    BY ThreadWorker DEF IInv, TypeOK
  <1>2. CASE CommitCheckpoint(r)
    <2>1. worker'[r] = [worker[r] EXCEPT !.pc = "finish"]
      BY <1>1, <1>2 DEF CommitCheckpoint, Advance, Goto, At, StepAfter
    <2>2. worker'[r].pc = "finish"
      BY <1>1, <2>1 DEF Worker
    <2> QED
      BY <1>2, <2>2 DEF CommitCheckpoint, At
  <1>3. CASE MarkDone(r)
    <2>1. worker'[r] = [worker[r] EXCEPT !.pc = "returned"]
      BY <1>1, <1>3 DEF MarkDone, Goto
    <2>2. worker'[r].pc = "returned"
      BY <1>1, <2>1 DEF Worker
    <2> QED
      BY <1>3, <2>2 DEF MarkDone
  <1>4. CASE ~CommitCheckpoint(r) /\ ~MarkDone(r)
    BY <1>4 DEF ThreadStep, Start, Preflight, Extract, Load, CoreSync,
                MartRefresh, StepFails, WriteFails, At
  <1> QED
    BY <1>2, <1>3, <1>4

LEMMA FailedNext ==
  ASSUME FInv, ~WritesFail, [Next]_vars
  PROVE  AdvancedIsLast' /\ FailedIsOver' /\ FailedKeepsCheckpoint'
  <1> USE DEF FInv
  <1>1. CASE \E r \in RunIds : ThreadStep(r)
    <2>1. PICK r \in RunIds : ThreadStep(r)
      BY <1>1
    <2>2. /\ Live(r)
          /\ \A q \in RunIds \ {r} :
               worker'[q] = worker[q] /\ runs'[q] = runs[q]
      BY <2>1, ThreadWorker, ThreadStatus
    <2>3. runs[r] # None /\ runs'[r] # None
      BY <2>1, ThreadStatus
    <2>4. runs'[r].status # "failed"
      BY <2>1, <2>2, <2>3, ThreadStatus DEF FailedIsOver
    <2>5. /\ \A q \in RunIds \ {r} : q \in advanced' => q \in advanced
          /\ r \in advanced' => worker'[r].pc \in {"finish", "returned"}
      BY <2>1, <2>2, ThreadAdvanced DEF AdvancedIsLast
    <2>6. AdvancedIsLast'
      BY <2>2, <2>3, <2>5 DEF AdvancedIsLast, Live
    <2> QED
      BY <2>2, <2>4, <2>5, <2>6
      DEF FailedIsOver, FailedKeepsCheckpoint, Live
  <1>2. CASE \E r \in RunIds : LoopStep(r)
    <2>1. PICK r \in RunIds : LoopStep(r)
      BY <1>2
    <2>2. /\ worker'[r] = None /\ advanced' = advanced
          /\ \A q \in RunIds \ {r} :
               worker'[q] = worker[q] /\ runs'[q] = runs[q]
          /\ Live(r)
      BY <2>1 DEF LoopStep, Settle, RecordFailure, Forget, IInv, TypeOK, At
    <2>3. runs[r] \in RunRow /\ runs[r] # None
      BY <2>2, NoneAssumption DEF IInv, WorkerHasRun
    <2>4. CASE runs' = runs
      BY <2>2, <2>4
      DEF AdvancedIsLast, FailedIsOver, FailedKeepsCheckpoint, Live
    <2>5. CASE RecordFailure(r) /\ runs' # runs
      <3>1. /\ r \notin advanced
            /\ runs'[r] = [runs[r] EXCEPT !.status = "failed"]
        BY <2>5, <2>2 DEF RecordFailure, At, AdvancedIsLast, IInv, TypeOK
      <3> QED
        BY <2>2, <3>1
        DEF AdvancedIsLast, FailedIsOver, FailedKeepsCheckpoint, Live
    <2> QED
      BY <2>1, <2>4, <2>5 DEF LoopStep, Settle
  <1>3. CASE Launch
    <2>1. /\ lastRun' \in RunIds /\ runs[lastRun'] = None
          /\ runs'[lastRun'] = [source |-> loop.name, status |-> "queued"]
          /\ \A q \in RunIds \ {lastRun'} :
               worker'[q] = worker[q] /\ runs'[q] = runs[q]
      BY <1>3, LaunchWorker
    <2>2. advanced' = advanced /\ lastRun' \notin advanced
      BY <1>3, <2>1 DEF Launch, AdvancedIsLast
    <2> QED
      BY <2>1, <2>2
      DEF AdvancedIsLast, FailedIsOver, FailedKeepsCheckpoint, Live
  <1>4. CASE LaunchFails
    BY <1>4 DEF LaunchFails
  <1>5. CASE Restart
    BY <1>5
    DEF Restart, AdvancedIsLast, FailedIsOver, FailedKeepsCheckpoint, Live
  <1>6. CASE UNCHANGED <<runs, lastRun, running, worker, advanced>>
    BY <1>6 DEF AdvancedIsLast, FailedIsOver, FailedKeepsCheckpoint, Live
  <1> QED
    BY <1>1, <1>2, <1>3, <1>4, <1>5, <1>6, StepCases

(* copilot-instructions.md:217 "Failed runs retain the prior checkpoint":  *)
(* as long as SQLite can be written, no run that ends failed has moved a   *)
(* checkpoint, whatever is edited and whichever step fails.                *)
THEOREM FailedRunsKeepCheckpoint ==
  ASSUME ~WritesFail PROVE Spec => []FailedKeepsCheckpoint
  <1>1. Init => /\ RunsNumbered /\ AdvancedIsLast /\ FailedIsOver
                /\ FailedKeepsCheckpoint
    BY DEF Init, RunsNumbered, AdvancedIsLast, FailedIsOver,
           FailedKeepsCheckpoint
  <1>2. IInv /\ RunsNumbered /\ [Next]_vars => RunsNumbered'
    BY NumberedNext
  <1>3. FInv /\ [Next]_vars =>
          AdvancedIsLast' /\ FailedIsOver' /\ FailedKeepsCheckpoint'
    BY FailedNext
  <1> QED
    BY <1>1, <1>2, <1>3, Invariance, PTL DEF Spec, FInv

-----------------------------------------------------------------------------
(* The checkpoint, while no source is edited during its runs and none is   *)
(* renamed.  A run then works for the row it was created for: the row has  *)
(* the name and contract the run was given, and, until the run commits,    *)
(* the checkpoint it was given.                                            *)

NamesUnique ==
    \A i, j \in Ids :
        sources[i] # None /\ sources[j] # None /\ i # j
        => sources[i].name # sources[j].name

IdsGrow == \A i \in Ids : sources[i] # None => i <= lastId

OwnRow(job) ==
    /\ sources[job.id] # None
    /\ sources[job.id].name = job.name
    /\ sources[job.id].contract = job.contract

SameCheckpoint(job) == sources[job.id].checkpoint = job.checkpoint

(* A job that was read before a run of its name committed is refused.      *)
LoopRow ==
    loop # None => /\ OwnRow(loop)
                   /\ SameCheckpoint(loop) \/ loop.name \in running

Uncommitted == Pcs \ {"finish", "returned", "raised"}

WorkerRow ==
    \A r \in RunIds : Live(r) =>
        /\ OwnRow(worker[r].job)
        /\ worker[r].pc \in Uncommitted => SameCheckpoint(worker[r].job)

RInv == /\ PInv /\ RunsNumbered
        /\ NamesUnique /\ IdsGrow /\ LoopRow /\ WorkerRow

(* An edit leaves the row of every run alone, and a row it creates or      *)
(* changes has no checkpoint.                                              *)
LEMMA EditedRows ==
  ASSUME RInv, ~EditsDuringRuns, ~Renames, Edit
  PROVE  /\ NamesUnique' /\ IdsGrow'
         /\ \A i \in Ids :
              \/ sources'[i] = sources[i]
              \/ /\ sources[i] # None => ~InFlight(sources[i].name)
                 /\ sources'[i] # None =>
                      /\ sources'[i].checkpoint = None
                      /\ sources[i] = None
                         \/ sources'[i].contract # sources[i].contract
         /\ UNCHANGED <<runs, lastRun, running, loop, worker, feed, gone,
                        core, mart, advanced, restarts>>
  <1>0. sources \in [Ids -> Row \cup {None}] /\ lastId \in Nat
    BY ConstantsAssumption DEF RInv, PInv, IInv, TypeOK
  <1>1. ASSUME NEW n \in Names, NEW c \in Contracts, CreateSource(n, c)
        PROVE  /\ NamesUnique' /\ IdsGrow'
               /\ \A i \in Ids :
                    \/ sources'[i] = sources[i]
                    \/ /\ sources[i] = None
                       /\ sources'[i].checkpoint = None
    <2>1. lastId' = lastId + 1 /\ lastId' \in Ids
      BY <1>0, <1>1, ConstantsAssumption DEF CreateSource, Ids
    <2>2. sources[lastId'] = None
      BY <1>0, <2>1 DEF RInv, IdsGrow
    <2>3. /\ sources'[lastId'] = [name |-> n, contract |-> c,
                                  checkpoint |-> None]
          /\ \A i \in Ids \ {lastId'} : sources'[i] = sources[i]
      BY <1>0, <1>1, <2>1 DEF CreateSource
    <2>4. \A i \in Ids : sources[i] # None => sources[i].name # n
      BY <1>1 DEF CreateSource, NameFree
    <2>5. NamesUnique'
      BY <2>3, <2>4 DEF RInv, NamesUnique
    <2>6. IdsGrow'
      BY <1>0, <2>1, <2>3 DEF RInv, IdsGrow, Ids
    <2> QED
      BY <2>2, <2>3, <2>5, <2>6
  <1>2. ASSUME NEW j \in Ids, NEW n \in Names, NEW c \in Contracts,
               UpdateSource(j, n, c)
        PROVE  /\ NamesUnique' /\ IdsGrow'
               /\ \A i \in Ids :
                    \/ sources'[i] = sources[i]
                    \/ /\ sources[i] # None /\ ~InFlight(sources[i].name)
                       /\ sources'[i].checkpoint = None
                       /\ sources'[i].contract # sources[i].contract
    <2>1. /\ sources[j] # None /\ ~InFlight(sources[j].name)
          /\ n = sources[j].name /\ c # sources[j].contract
          /\ lastId' = lastId
      BY <1>2 DEF UpdateSource, MayEdit
    <2>2. /\ sources'[j] = [name |-> n, contract |-> c,
                            checkpoint |-> EditedCheckpoint(sources[j], c)]
          /\ \A i \in Ids \ {j} : sources'[i] = sources[i]
      BY <1>0, <1>2 DEF UpdateSource
    <2>3. EditedCheckpoint(sources[j], c) = None
      BY <2>1 DEF EditedCheckpoint
    <2>4. NamesUnique' /\ IdsGrow'
      BY <2>1, <2>2 DEF RInv, NamesUnique, IdsGrow
    <2> QED
      BY <2>1, <2>2, <2>3, <2>4
  <1>3. ASSUME NEW j \in Ids, DeleteSource(j)
        PROVE  /\ NamesUnique' /\ IdsGrow'
               /\ \A i \in Ids :
                    \/ sources'[i] = sources[i]
                    \/ /\ sources[i] # None /\ ~InFlight(sources[i].name)
                       /\ sources'[i] = None
    <2>1. /\ sources[j] # None /\ ~InFlight(sources[j].name)
          /\ sources'[j] = None /\ lastId' = lastId
          /\ \A i \in Ids \ {j} : sources'[i] = sources[i]
      BY <1>0, <1>3 DEF DeleteSource, MayEdit
    <2> QED
      BY <2>1 DEF RInv, NamesUnique, IdsGrow
  <1>4. UNCHANGED <<runs, lastRun, running, loop, worker, feed, gone, core,
                    mart, advanced, restarts>>
    BY DEF Edit, CreateSource, UpdateSource, DeleteSource, process, warehouse
  <1> QED
    BY <1>1, <1>2, <1>3, <1>4 DEF Edit

(* At a restart the seed may come back, as a row without a checkpoint.     *)
LEMMA RestartedRows ==
  ASSUME RInv, Restart
  PROVE  /\ NamesUnique' /\ IdsGrow'
         /\ \A i \in Ids :
              \/ sources'[i] = sources[i]
              \/ sources[i] = None /\ sources'[i].checkpoint = None
  <1>0. sources \in [Ids -> Row \cup {None}] /\ lastId \in Nat
    BY ConstantsAssumption DEF RInv, PInv, IInv, TypeOK
  <1>1. CASE UNCHANGED tables
    BY <1>1 DEF RInv, NamesUnique, IdsGrow, tables
  <1>2. CASE ~UNCHANGED tables
    <2>1. /\ Seed # None /\ NameFree(Seed.name)
          /\ lastId' = lastId + 1 /\ lastId' \in Ids
          /\ sources' = [sources EXCEPT ![lastId'] = Seed]
      BY <1>0, <1>2, ConstantsAssumption DEF Restart, SeedAgain, Ids
    <2>2. sources[lastId'] = None
      BY <1>0, <2>1 DEF RInv, IdsGrow
    <2>3. /\ sources'[lastId'] = Seed /\ Seed.checkpoint = None
          /\ \A i \in Ids \ {lastId'} : sources'[i] = sources[i]
      BY <1>0, <2>1, SeedAssumption
    <2>4. NamesUnique'
      BY <2>1, <2>3 DEF RInv, NamesUnique, NameFree
    <2>5. IdsGrow'
      BY <1>0, <2>1, <2>3 DEF RInv, IdsGrow, Ids
    <2> QED
      BY <2>2, <2>3, <2>4, <2>5
  <1> QED
    BY <1>1, <1>2

(* The name in the UPDATE of a commit hits the row of the run alone.       *)
LEMMA CommittedRow ==
  ASSUME RInv, NEW r \in RunIds, CommitCheckpoint(r)
  PROVE  /\ worker[r].job.id \in Ids
         /\ \A i \in Ids \ {worker[r].job.id} : sources'[i] = sources[i]
         /\ LET row == sources[worker[r].job.id]
            IN  sources'[worker[r].job.id] =
                  IF worker[r].after = None THEN row
                  ELSE [row EXCEPT !.checkpoint = worker[r].after]
  <1>1. worker[r] \in Worker /\ Live(r)
    BY DEF RInv, PInv, IInv, TypeOK, CommitCheckpoint, At, Live
  <1>2. worker[r].job.id \in Ids /\ OwnRow(worker[r].job)
    BY <1>1 DEF Worker, Job, RInv, WorkerRow
  <1>3. RowsNamed(worker[r].job.name) = {worker[r].job.id}
    BY <1>2 DEF RowsNamed, OwnRow, RInv, NamesUnique
  <1> QED
    BY <1>2, <1>3 DEF CommitCheckpoint

(* A run commits once: no thread comes back from behind the commit.        *)
LEMMA ThreadBeforeCommit ==
  ASSUME IInv, NEW r \in RunIds, ThreadStep(r)
  PROVE  /\ worker'[r].pc \in Uncommitted =>
              worker[r].pc \in Uncommitted /\ ~CommitCheckpoint(r)
         /\ ~CommitCheckpoint(r) => UNCHANGED sources
  <1>1. worker \in [RunIds -> Worker \cup {None}] /\ worker[r] \in Worker
    BY ThreadWorker DEF IInv, TypeOK
  <1>2. worker[r].pc \in Pcs
    BY <1>1 DEF Worker
  <1>3. CASE CommitCheckpoint(r)
    <2>1. worker'[r] = [worker[r] EXCEPT !.pc = "finish"]
      BY <1>1, <1>3 DEF CommitCheckpoint, Advance, Goto, At, StepAfter
    <2>2. worker'[r].pc = "finish"
      BY <1>1, <2>1 DEF Worker
    <2> QED
      BY <1>3, <2>2 DEF Uncommitted
  <1>4. CASE MarkDone(r)
    <2>1. worker'[r] = [worker[r] EXCEPT !.pc = "returned"]
      BY <1>1, <1>4 DEF MarkDone, Goto
    <2>2. worker'[r].pc = "returned"
      BY <1>1, <2>1 DEF Worker
    <2> QED
      BY <1>4, <2>2 DEF Uncommitted, MarkDone, tables
  <1>5. CASE WriteFails(r)
    <2>1. worker'[r] = [worker[r] EXCEPT !.pc = "raised"]
      BY <1>1, <1>5 DEF WriteFails, Goto
    <2>2. worker'[r].pc = "raised"
      BY <1>1, <2>1 DEF Worker
    <2> QED
      BY <1>5, <2>2 DEF Uncommitted, WriteFails, tables
  <1>6. CASE ~CommitCheckpoint(r) /\ ~MarkDone(r) /\ ~WriteFails(r)
    BY <1>2, <1>6
    DEF ThreadStep, Start, Preflight, Extract, Load, CoreSync, MartRefresh,
        StepFails, At, Uncommitted, Pcs, ThreadPcs, tables
  <1> QED
    BY <1>3, <1>4, <1>5, <1>6

(* A step of a thread leaves the rows of the other runs alone.             *)
LEMMA ThreadRows ==
  ASSUME RInv, NEW r \in RunIds, ThreadStep(r)
  PROVE  NamesUnique' /\ IdsGrow' /\ LoopRow' /\ WorkerRow'
  <1>0. IInv /\ TypeOK
    BY DEF RInv, PInv, IInv
  <1>1. /\ Live(r) /\ worker'[r].job = worker[r].job
        /\ \A q \in RunIds \ {r} : worker'[q] = worker[q]
        /\ UNCHANGED <<lastId, running, loop>>
    BY <1>0, ThreadWorker
  <1>2. CASE ~CommitCheckpoint(r)
    <2>1. sources' = sources
      BY <1>0, <1>2, ThreadBeforeCommit
    <2>2. worker'[r].pc \in Uncommitted => worker[r].pc \in Uncommitted
      BY <1>0, ThreadBeforeCommit
    <2>3. NamesUnique' /\ IdsGrow' /\ LoopRow'
      BY <1>1, <2>1
      DEF RInv, NamesUnique, IdsGrow, LoopRow, OwnRow, SameCheckpoint
    <2> QED
      BY <1>1, <2>1, <2>2, <2>3
      DEF RInv, WorkerRow, OwnRow, SameCheckpoint, Live
  <1>3. CASE CommitCheckpoint(r)
    <2> DEFINE job == worker[r].job
    <2>1. /\ job.id \in Ids /\ OwnRow(job) /\ sources[job.id] \in Row
      BY <1>0, <1>1, <1>3, CommittedRow DEF RInv, WorkerRow, OwnRow, TypeOK
    <2>2. /\ sources'[job.id] \in [name : Names, contract : Contracts,
                                   checkpoint : {sources[job.id].checkpoint,
                                                 worker[r].after}]
          /\ sources'[job.id].name = sources[job.id].name
          /\ sources'[job.id].contract = sources[job.id].contract
      BY <1>3, <2>1, CommittedRow DEF Row
    <2>3. sources'[job.id] # None
      <3>1. sources'[job.id] \in Row \cup {None}
        BY <1>0, <2>1, ThreadData
      <3>2. worker[r].after \in Checkpoints
        BY <1>0, <1>1 DEF TypeOK, Live, Worker
      <3>3. sources'[job.id] \in Row
        BY <2>1, <2>2, <3>2 DEF Row
      <3> QED
        BY <3>3, NoneAssumption
    <2>4. \A i \in Ids \ {job.id} : sources'[i] = sources[i]
      BY <1>3, CommittedRow
    <2>5. NamesUnique' /\ IdsGrow'
      BY <1>1, <2>1, <2>2, <2>3, <2>4
      DEF RInv, NamesUnique, IdsGrow, OwnRow
    <2>6. LoopRow'
      <3> SUFFICES ASSUME loop # None PROVE LoopRow'
        BY <1>1 DEF LoopRow
      <3>1. loop \in Job /\ loop.id \in Ids /\ OwnRow(loop)
        BY <1>0 DEF TypeOK, Job, RInv, LoopRow
      <3>2. CASE loop.id # job.id
        BY <1>1, <2>4, <3>1, <3>2
        DEF RInv, LoopRow, OwnRow, SameCheckpoint
      <3>3. CASE loop.id = job.id
        <4>1. loop.name \in running
          BY <1>0, <1>1, <2>1, <3>1, <3>3 DEF IInv, NamesHeld, OwnRow
        <4> QED
          BY <1>1, <2>2, <2>3, <3>1, <3>3, <4>1 DEF LoopRow, OwnRow
      <3> QED
        BY <3>2, <3>3
    <2>7. WorkerRow'
      <3> SUFFICES ASSUME NEW q \in RunIds, Live(q)'
                   PROVE  /\ OwnRow(worker[q].job)'
                          /\ worker'[q].pc \in Uncommitted
                             => SameCheckpoint(worker[q].job)'
        BY DEF WorkerRow
      <3>1. CASE q = r
        <4>1. worker'[r].pc \notin Uncommitted
          BY <1>0, <1>3, ThreadBeforeCommit
        <4> QED
          BY <1>1, <2>1, <2>2, <2>3, <3>1, <4>1 DEF OwnRow
      <3>2. CASE q # r
        <4>1. /\ Live(q) /\ worker'[q] = worker[q]
              /\ OwnRow(worker[q].job) /\ worker[q].job.id \in Ids
          BY <1>0, <1>1, <3>2
          DEF Live, RInv, WorkerRow, TypeOK, Worker, Job
        <4>2. worker[q].job.name # job.name
          BY <1>0, <1>1, <3>2, <4>1 DEF IInv, OneRunPerName
        <4>3. worker[q].job.id # job.id
          BY <2>1, <4>1, <4>2 DEF OwnRow
        <4> QED
          BY <2>4, <4>1, <4>3 DEF RInv, WorkerRow, OwnRow, SameCheckpoint
      <3> QED
        BY <3>1, <3>2
    <2> QED
      BY <2>5, <2>6, <2>7
  <1> QED
    BY <1>2, <1>3

(* The other steps.                                                        *)
LEMMA RowsNext ==
  ASSUME RInv, ~EditsDuringRuns, ~Renames, [Next]_vars
  PROVE  NamesUnique' /\ IdsGrow' /\ LoopRow' /\ WorkerRow'
  <1> USE DEF RInv
  <1>0. IInv /\ TypeOK
    BY DEF PInv, IInv
  <1>1. CASE Edit
    <2>1. UNCHANGED <<running, loop, worker>>
      BY <1>1, EditedRows
    <2>2. loop # None =>
            loop.id \in Ids /\ sources'[loop.id] = sources[loop.id]
      <3> SUFFICES ASSUME loop # None
                   PROVE  loop.id \in Ids
                          /\ sources'[loop.id] = sources[loop.id]
        OBVIOUS
      <3>1. loop.id \in Ids /\ OwnRow(loop)
        BY <1>0 DEF TypeOK, Job, LoopRow
      <3>2. sources[loop.id] # None /\ InFlight(sources[loop.id].name)
        BY <3>1 DEF OwnRow, InFlight
      <3> QED
        BY <1>1, <3>1, <3>2, EditedRows
    <2>3. \A r \in RunIds : Live(r) =>
             sources'[worker[r].job.id] = sources[worker[r].job.id]
      <3> SUFFICES ASSUME NEW r \in RunIds, Live(r)
                   PROVE  sources'[worker[r].job.id]
                            = sources[worker[r].job.id]
        OBVIOUS
      <3>1. worker[r].job.id \in Ids /\ OwnRow(worker[r].job)
        BY <1>0 DEF TypeOK, Live, Worker, Job, WorkerRow
      <3>2. /\ sources[worker[r].job.id] # None
            /\ InFlight(sources[worker[r].job.id].name)
        BY <3>1 DEF OwnRow, InFlight
      <3> QED
        BY <1>1, <3>1, <3>2, EditedRows
    <2>4. LoopRow' /\ WorkerRow'
      BY <2>1, <2>2, <2>3
      DEF LoopRow, WorkerRow, OwnRow, SameCheckpoint, Live
    <2> QED
      BY <1>1, <2>4, EditedRows
  <1>2. ASSUME NEW i \in Ids, NEW force \in BOOLEAN, ReadSource(i, force)
        PROVE  NamesUnique' /\ IdsGrow' /\ LoopRow' /\ WorkerRow'
    BY <1>2 DEF ReadSource, tables, NamesUnique, IdsGrow, LoopRow, WorkerRow,
                OwnRow, SameCheckpoint, Live
  <1>3. CASE Refuse \/ LaunchFails
    BY <1>3 DEF Refuse, LaunchFails, tables, NamesUnique, IdsGrow, LoopRow,
                WorkerRow, OwnRow, SameCheckpoint, Live
  <1>4. CASE Launch
    <2>1. /\ UNCHANGED <<sources, lastId>> /\ loop' = None
          /\ OwnRow(loop) /\ SameCheckpoint(loop)
      BY <1>4 DEF Launch, CanStart, LoopRow, tables
    <2>2. /\ lastRun' \in RunIds
          /\ worker'[lastRun'].job = loop
          /\ \A q \in RunIds \ {lastRun'} : worker'[q] = worker[q]
      BY <1>0, <1>4, LaunchWorker DEF NewWorker
    <2> QED
      BY <2>1, <2>2 DEF NamesUnique, IdsGrow, LoopRow, WorkerRow, OwnRow,
                        SameCheckpoint, Live
  <1>5. CASE \E r \in RunIds : ThreadStep(r)
    BY <1>5, ThreadRows
  <1>6. CASE \E r \in RunIds : LoopStep(r)
    <2>1. PICK r \in RunIds : LoopStep(r)
      BY <1>6
    <2>2. /\ UNCHANGED <<sources, lastId, loop>> /\ loop = None
          /\ \A q \in RunIds : Live(q)' => worker'[q] = worker[q]
      BY <1>0, <2>1
      DEF LoopStep, Settle, RecordFailure, Forget, TypeOK, Live, tables
    <2> QED
      BY <2>2 DEF NamesUnique, IdsGrow, LoopRow, WorkerRow, OwnRow,
                  SameCheckpoint, Live
  <1>7. CASE Restart
    <2>1. loop' = None /\ \A r \in RunIds : ~Live(r)'
      BY <1>7 DEF Restart, Live
    <2> QED
      BY <1>7, <2>1, RestartedRows DEF LoopRow, WorkerRow
  <1>8. CASE UNCHANGED <<sources, lastId, running, loop, worker>>
    BY <1>8 DEF NamesUnique, IdsGrow, LoopRow, WorkerRow, OwnRow,
                SameCheckpoint, Live
  <1> QED
    BY <1>1, <1>2, <1>3, <1>4, <1>5, <1>6, <1>7, <1>8
    DEF Next, Trigger, FeedChanges, RecordGoes, tables, process, vars

-----------------------------------------------------------------------------
(* What a checkpoint promises.  The rows and the extracted checkpoints are *)
(* covered by what Mart has and what the run is about to put there.        *)

WithinFeed ==
    \A i \in Ids : sources[i] # None /\ sources[i].checkpoint # None =>
        sources[i].checkpoint <= feed[sources[i].contract.url]

Extracted == {"load", "core", "mart", "commit"}

(* The newest record of what a checkpoint covers has been published: a     *)
(* checkpoint is the watermark of a record, even when that is gone.        *)
NewestPublished ==
    \A i \in Ids : sources[i] # None /\ sources[i].checkpoint # None =>
        <<sources[i].contract.url, sources[i].checkpoint>>
            \in mart[sources[i].name]

(* What a run promises once it has extracted got and the checkpoint after. *)
Promise(job, got, after) ==
    /\ after <= feed[job.contract.url]
    /\ ({job.contract.url} \X (1..after)) \ gone
          \subseteq got \cup mart[job.name]
    /\ <<job.contract.url, after>> \in got \cup mart[job.name]
    /\ job.checkpoint # None =>
         {job.contract.url} \X ((after + 1)..job.checkpoint) \subseteq gone

Covers(w) == w.after # None => Promise(w.job, w.got, w.after)

AfterCovered ==
    \A r \in RunIds :
        Live(r) /\ worker[r].pc \in Extracted => Covers(worker[r])

CInv == /\ RInv /\ WithinFeed /\ NewestPublished
        /\ AfterCovered /\ CheckpointCovered

LEMMA InitCInv == Init => CInv
  <1> SUFFICES ASSUME Init PROVE CInv
    OBVIOUS
  <1>1. PInv
    BY InitPInv
  <1>2. RunsNumbered /\ LoopRow /\ WorkerRow /\ AfterCovered
    BY DEF Init, RunsNumbered, LoopRow, WorkerRow, AfterCovered, Live
  <1>3. NamesUnique /\ IdsGrow
    BY DEF Init, NamesUnique, IdsGrow, Ids
  <1>4. WithinFeed /\ NewestPublished /\ CheckpointCovered
    BY SeedAssumption
    DEF Init, WithinFeed, NewestPublished, CheckpointCovered
  <1> QED
    BY <1>1, <1>2, <1>3, <1>4 DEF CInv, RInv

(* An endpoint never takes back what it has shown or dropped.              *)
LEMMA EndpointGrows ==
  ASSUME IInv, [Next]_vars
  PROVE  /\ \A u \in Urls : feed[u] \in Nat /\ feed'[u] \in Nat
                            /\ feed[u] <= feed'[u]
         /\ gone \subseteq gone'
  <1>0. feed \in [Urls -> 0..MaxTime] /\ MaxTime \in Nat
    BY ConstantsAssumption DEF IInv, TypeOK
  <1>1. UNCHANGED feed => \A u \in Urls : feed'[u] = feed[u]
    OBVIOUS
  <1>2. ASSUME NEW u \in Urls, FeedChanges(u)
        PROVE  \A v \in Urls : feed'[v] = feed[v] \/ feed'[v] = feed[v] + 1
    BY <1>0, <1>2 DEF FeedChanges
  <1>3. /\ UNCHANGED feed \/ \E u \in Urls : FeedChanges(u)
        /\ UNCHANGED gone \/ \E u \in Urls, t \in Times : RecordGoes(u, t)
    BY DEF Next, Edit, CreateSource, UpdateSource, DeleteSource, ReadSource,
           Trigger, Refuse, Launch, LaunchFails, ThreadStep, Start, Preflight,
           Extract, Load, CoreSync, MartRefresh, CommitCheckpoint, MarkDone,
           StepFails, WriteFails, LoopStep, Settle, RecordFailure,
           FeedChanges, RecordGoes, Restart, vars
  <1>4. gone \subseteq gone'
    BY <1>3 DEF RecordGoes
  <1> QED
    BY <1>0, <1>1, <1>2, <1>3, <1>4

(* What an answer lacks below its watermark is gone, or is below the       *)
(* checkpoint that was sent, and published.  What it lacks above the       *)
(* watermark was asked for, if it is below the checkpoint of the row.      *)
LEMMA ExtractedCovers ==
  ASSUME CInv, NEW r \in RunIds, Live(r), worker[r].pc = "extract",
         NEW after \in Afters(worker[r].job), after # None
  PROVE  Promise(worker[r].job, Answer(worker[r].job), after)
  <1> DEFINE job == worker[r].job
             u == job.contract.url
  <1>0. TypeOK
    BY DEF CInv, RInv, PInv, IInv
  <1>1. job \in Job /\ job.id \in Ids /\ job.contract \in Contract
    BY <1>0, ConstantsAssumption DEF TypeOK, Live, Worker, Job
  <1>2. u \in Urls /\ feed[u] \in 0..MaxTime /\ MaxTime \in Nat
    BY <1>0, <1>1, ConstantsAssumption DEF Contract, TypeOK
  <1>3. OwnRow(job) /\ SameCheckpoint(job)
    BY DEF CInv, RInv, WorkerRow, Uncommitted, Pcs, ThreadPcs
  <1>4. job.checkpoint # None =>
          /\ job.checkpoint \in Nat \ {0} /\ job.checkpoint <= feed[u]
          /\ ({u} \X (1..job.checkpoint)) \ gone \subseteq mart[job.name]
          /\ <<u, job.checkpoint>> \in mart[job.name]
    BY <1>1, <1>3
    DEF CInv, WithinFeed, NewestPublished, CheckpointCovered, OwnRow,
        SameCheckpoint, Job, Checkpoints, Times
  <1>5. Before(job) \in {None, job.checkpoint}
    BY DEF Before
  <1>6. CASE Answer(job) = {}
    <2>1. after = job.checkpoint
      BY <1>5, <1>6 DEF Afters
    <2> QED
      BY <1>2, <1>4, <2>1 DEF Promise
  <1>7. CASE Answer(job) # {}
    <2>1. after \in Newest(Answer(job))
      BY <1>7 DEF Afters
    <2>2. PICK c \in Answer(job) : c[2] = after
      BY <2>1 DEF Newest
    <2>3. /\ after \in 1..feed[u] /\ after > Since(job)
          /\ <<u, after>> \in Answer(job)
      BY <1>2, <2>2 DEF Answer
    <2>4. ASSUME NEW t \in 1..feed[u], t > Since(job), <<u, t>> \notin gone
          PROVE  <<u, t>> \in Answer(job) /\ t <= after
      <3>1. <<u, t>> \in Answer(job)
        BY <2>4 DEF Answer
      <3> QED
        BY <2>1, <3>1 DEF Newest
    <2>5. Since(job) = 0 \/ (/\ Since(job) = job.checkpoint
                             /\ job.checkpoint # None)
      BY <1>5 DEF Since
    <2>6. ASSUME NEW t \in 1..after, <<u, t>> \notin gone
          PROVE  <<u, t>> \in Answer(job) \cup mart[job.name]
      <3>1. CASE t > Since(job)
        BY <1>2, <2>3, <2>4, <2>6, <3>1
      <3>2. CASE ~(t > Since(job))
        <4>1. Since(job) = job.checkpoint /\ job.checkpoint # None
          BY <1>2, <2>5, <3>2
        <4>2. t \in 1..job.checkpoint
          BY <1>2, <1>4, <3>2, <4>1
        <4> QED
          BY <1>4, <2>6, <4>1, <4>2
      <3> QED
        BY <3>1, <3>2
    <2>7. ASSUME job.checkpoint # None,
                 NEW t \in (after + 1)..job.checkpoint
          PROVE  <<u, t>> \in gone
      <3>1. /\ t \in 1..feed[u] /\ after < t /\ t <= job.checkpoint
            /\ after \in Nat /\ job.checkpoint \in Nat
        BY <1>2, <1>4, <2>3, <2>7
      <3>2. Since(job) = 0 \/ after > job.checkpoint
        BY <2>3, <2>5
      <3>3. t > Since(job)
        BY <3>1, <3>2
      <3> QED
        BY <2>3, <2>4, <3>1, <3>3
    <2> QED
      BY <1>2, <2>3, <2>6, <2>7 DEF Promise
  <1> QED
    BY <1>6, <1>7

(* What a step does to a row: nothing, a run's commit, or an edit that     *)
(* leaves no checkpoint.                                                   *)
LEMMA RowSteps ==
  ASSUME RInv, ~EditsDuringRuns, ~Renames, [Next]_vars, NEW i \in Ids
  PROVE  \/ sources'[i] = sources[i]
         \/ sources'[i] # None => /\ sources'[i].checkpoint = None
                                  /\ \/ sources[i] = None
                                     \/ sources'[i].contract
                                          # sources[i].contract
         \/ \E r \in RunIds :
              /\ At(r, "commit") /\ i = worker[r].job.id
              /\ worker[r].after # None
              /\ sources[i] # None
              /\ sources'[i] = [sources[i] EXCEPT !.checkpoint =
                                                    worker[r].after]
  <1>1. CASE Edit
    BY <1>1, EditedRows
  <1>2. CASE Restart
    BY <1>2, RestartedRows
  <1>3. ASSUME NEW r \in RunIds, CommitCheckpoint(r), sources'[i] # sources[i]
        PROVE  /\ At(r, "commit") /\ i = worker[r].job.id
               /\ worker[r].after # None /\ sources[i] # None
               /\ sources'[i] = [sources[i] EXCEPT !.checkpoint =
                                                     worker[r].after]
    <2>1. i = worker[r].job.id /\ worker[r].after # None
      BY <1>3, CommittedRow
    <2>2. sources[i] # None
      BY <1>3, <2>1 DEF CommitCheckpoint, At, RInv, WorkerRow, OwnRow
    <2> QED
      BY <1>3, <2>1, <2>2, CommittedRow DEF CommitCheckpoint
  <1>4. ASSUME NEW r \in RunIds, ThreadStep(r), ~CommitCheckpoint(r)
        PROVE  sources' = sources
    BY <1>4, ThreadBeforeCommit DEF RInv, PInv
  <1>5. CASE UNCHANGED sources
    BY <1>5
  <1> QED
    BY <1>1, <1>2, <1>3, <1>4, <1>5
    DEF Next, ReadSource, Trigger, Refuse, Launch, LaunchFails, LoopStep,
        Settle, RecordFailure, FeedChanges, RecordGoes, tables, vars

(* Only Extract writes what a run has got.                                 *)
LEMMA ThreadCarries ==
  ASSUME IInv, NEW r \in RunIds, ThreadStep(r), worker'[r].pc \in Extracted
  PROVE  \/ /\ worker[r].pc = "extract"
            /\ worker'[r].got = Answer(worker[r].job)
            /\ worker'[r].after \in Afters(worker[r].job)
         \/ /\ worker[r].pc \in Extracted
            /\ worker'[r].got = worker[r].got
            /\ worker'[r].after = worker[r].after
  <1>1. worker \in [RunIds -> Worker \cup {None}] /\ worker[r] \in Worker
    BY ThreadWorker DEF IInv, TypeOK
  <1>2. CASE Extract(r)
    <2>1. \E after \in Afters(worker[r].job) :
            worker'[r] = [worker[r] EXCEPT !.pc = "load",
                                           !.got = Answer(worker[r].job),
                                           !.after = after]
      BY <1>1, <1>2 DEF Extract, StepAfter
    <2> QED
      BY <1>1, <1>2, <2>1 DEF Extract, At, Worker
  <1>3. ASSUME NEW pc, Goto(r, pc)
        PROVE  /\ worker'[r].pc = pc /\ worker'[r].got = worker[r].got
               /\ worker'[r].after = worker[r].after
    <2>1. worker'[r] = [worker[r] EXCEPT !.pc = pc]
      BY <1>1, <1>3 DEF Goto
    <2> QED
      BY <1>1, <2>1 DEF Worker
  <1>4. CASE Start(r) \/ Preflight(r) \/ MarkDone(r)
    BY <1>3, <1>4
    DEF Start, Preflight, MarkDone, Advance, At, StepAfter, Extracted
  <1>5. CASE StepFails(r) \/ WriteFails(r)
    BY <1>3, <1>5 DEF StepFails, WriteFails, Extracted
  <1>6. CASE Load(r) \/ CoreSync(r) \/ MartRefresh(r) \/ CommitCheckpoint(r)
    BY <1>3, <1>6
    DEF Load, CoreSync, MartRefresh, CommitCheckpoint, Advance, At, StepAfter,
        Extracted
  <1> QED
    BY <1>2, <1>4, <1>5, <1>6 DEF ThreadStep

(* What was covered stays covered: feeds, what is gone and Mart only grow. *)
LEMMA CoversStays ==
  ASSUME PInv, [Next]_vars, NEW w \in Worker, Covers(w)
  PROVE  Covers(w)'
  <1>1. w.job.contract.url \in Urls /\ w.job.name \in Names
    BY ConstantsAssumption DEF Worker, Job, Contract
  <1>2. w.after # None => w.after \in Nat
    BY DEF Worker, Checkpoints, Times
  <1>3. /\ feed[w.job.contract.url] \in Nat
        /\ feed'[w.job.contract.url] \in Nat
        /\ feed[w.job.contract.url] <= feed'[w.job.contract.url]
        /\ gone \subseteq gone'
    BY <1>1, EndpointGrows DEF PInv
  <1>4. mart[w.job.name] \subseteq mart'[w.job.name]
    BY <1>1, WarehouseGrows
  <1> QED
    BY <1>2, <1>3, <1>4 DEF Covers, Promise

LEMMA AfterCoveredNext ==
  ASSUME CInv, [Next]_vars, IInv'
  PROVE  AfterCovered'
  <1>0. PInv /\ IInv /\ RunsNumbered
    BY DEF CInv, RInv, PInv
  <1> SUFFICES ASSUME NEW r \in RunIds, Live(r)', worker'[r].pc \in Extracted
               PROVE  Covers(worker[r])'
    BY DEF AfterCovered
  <1>1. worker'[r] \in Worker
    BY DEF IInv, TypeOK, Live
  <1>2. Covers(worker'[r])
    <2>1. CASE worker'[r] = worker[r]
      BY <2>1 DEF Live, CInv, AfterCovered
    <2>2. CASE ThreadStep(r)
      <3>1. Live(r) /\ worker'[r].job = worker[r].job
        BY <1>0, <2>2, ThreadWorker
      <3>2. CASE worker[r].pc = "extract"
        BY <1>0, <2>2, <3>1, <3>2, ThreadCarries, ExtractedCovers
        DEF Covers, Extracted
      <3>3. CASE worker[r].pc # "extract"
        BY <1>0, <2>2, <3>1, <3>3, ThreadCarries
        DEF Covers, CInv, AfterCovered
      <3> QED
        BY <3>2, <3>3
    <2>3. ASSUME worker'[r] # worker[r] PROVE ThreadStep(r)
      <3>1. CASE \E q \in RunIds : ThreadStep(q)
        BY <1>0, <2>3, <3>1, ThreadWorker
      <3>2. CASE \E q \in RunIds : LoopStep(q)
        BY <1>0, <2>3, <3>2
        DEF LoopStep, Settle, RecordFailure, Forget, IInv, TypeOK, Live
      <3>3. CASE Launch
        BY <1>0, <2>3, <3>3, LaunchWorker DEF NewWorker, Extracted
      <3>4. CASE Restart
        BY <3>4 DEF Restart, Live
      <3> QED
        BY <2>3, <3>1, <3>2, <3>3, <3>4, StepCases DEF LaunchFails
    <2> QED
      BY <2>1, <2>2, <2>3
  <1> QED
    BY <1>0, <1>1, <1>2, CoversStays DEF Covers

(* A checkpoint is stored when its run has published what it covers.       *)
LEMMA RowsCoveredNext ==
  ASSUME CInv, ~EditsDuringRuns, ~Renames, [Next]_vars, IInv'
  PROVE  WithinFeed' /\ NewestPublished' /\ CheckpointCovered'
  <1>0. /\ RInv /\ PInv /\ IInv
        /\ sources \in [Ids -> Row \cup {None}]
    BY DEF CInv, RInv, PInv, IInv, TypeOK
  <1> SUFFICES ASSUME NEW i \in Ids, sources'[i] # None,
                      sources'[i].checkpoint # None
               PROVE  /\ sources'[i].checkpoint
                           <= feed'[sources'[i].contract.url]
                      /\ <<sources'[i].contract.url, sources'[i].checkpoint>>
                           \in mart'[sources'[i].name]
                      /\ ({sources'[i].contract.url}
                            \X (1..sources'[i].checkpoint)) \ gone'
                           \subseteq mart'[sources'[i].name]
    BY DEF WithinFeed, NewestPublished, CheckpointCovered
  <1> DEFINE u == sources'[i].contract.url
             n == sources'[i].name
             t == sources'[i].checkpoint
             Held == /\ t <= feed[u] /\ <<u, t>> \in mart[n]
                     /\ ({u} \X (1..t)) \ gone \subseteq mart[n]
  <1>1. u \in Urls /\ n \in Names /\ t \in Nat
    <2>1. sources'[i] \in Row
      BY DEF IInv, TypeOK
    <2> QED
      BY <2>1, ConstantsAssumption DEF Row, Contract, Checkpoints, Times
  <1>2. Held
    <2>1. CASE sources'[i] = sources[i]
      BY <2>1 DEF CInv, WithinFeed, NewestPublished, CheckpointCovered
    <2>2. ASSUME NEW r \in RunIds, At(r, "commit"), i = worker[r].job.id,
                 worker[r].after # None, sources[i] # None,
                 sources'[i] = [sources[i] EXCEPT !.checkpoint =
                                                    worker[r].after]
          PROVE  Held
      <3>1. Live(r) /\ OwnRow(worker[r].job) /\ Covers(worker[r])
        BY <1>0, <2>2
        DEF At, RInv, WorkerRow, CInv, AfterCovered, Extracted
      <3>2. /\ t = worker[r].after
            /\ u = worker[r].job.contract.url /\ n = worker[r].job.name
        BY <1>0, <2>2, <3>1 DEF OwnRow, Row
      <3>3. worker[r].got \subseteq mart[n]
        BY <1>0, <2>2, <3>2 DEF PInv, PayloadInMart, At
      <3> QED
        BY <2>2, <3>1, <3>2, <3>3 DEF Covers, Promise
    <2> QED
      BY <1>0, <2>1, <2>2, RowSteps
  <1>3. /\ feed[u] \in Nat /\ feed'[u] \in Nat /\ feed[u] <= feed'[u]
        /\ gone \subseteq gone'
        /\ mart[n] \subseteq mart'[n]
    BY <1>0, <1>1, EndpointGrows, WarehouseGrows
  <1> QED
    BY <1>1, <1>2, <1>3

(* Every step keeps CInv under the two hypotheses.                         *)
LEMMA CInvNext ==
  ASSUME CInv, ~EditsDuringRuns, ~Renames, [Next]_vars, IInv'
  PROVE  CInv'
  <1>1. RInv /\ PInv /\ IInv /\ RunsNumbered
    BY DEF CInv, RInv, PInv
  <1>2. RInv'
    BY <1>1, StepPInv, NumberedNext, RowsNext DEF RInv
  <1> QED
    BY <1>2, AfterCoveredNext, RowsCoveredNext DEF CInv

(* CInv is an invariant of the specification while edits wait for runs to  *)
(* end and sources keep their names: what a run has extracted is what its  *)
(* name's tables are about to show up to the checkpoint it will store.     *)
THEOREM CheckpointInvariance ==
  ASSUME ~EditsDuringRuns, ~Renames PROVE Spec => []CInv
  <1>1. CInv /\ [Next]_vars /\ IInv' => CInv'
    BY CInvNext
  <1> QED
    BY InitCInv, <1>1, Invariance, PTL DEF Spec

(* pipeline.py:394, db.py update_source_checkpoint: while no source is     *)
(* edited during its runs and none is renamed, every change up to a stored *)
(* checkpoint that its URL still shows is in Mart, whatever is deleted     *)
(* there, whichever step or write fails and whenever the process restarts. *)
THEOREM CheckpointsAreCovered ==
  ASSUME ~EditsDuringRuns, ~Renames PROVE Spec => []CheckpointCovered
  <1>1. CInv => CheckpointCovered
    BY DEF CInv
  <1> QED
    BY CheckpointInvariance, <1>1, PTL

(* README.md:117 "a timestamp-based source's first run is always a full    *)
(* snapshot": an incremental run has a checkpoint, which is covered, so    *)
(* Core has data of its source.                                            *)
THEOREM FirstRunFills ==
  ASSUME ~EditsDuringRuns, ~Renames PROVE Spec => []FirstRunIsSnapshot
  <1>1. CInv => FirstRunIsSnapshot
    <2> SUFFICES ASSUME CInv, NEW r \in RunIds, Live(r),
                        worker[r].pc \in {"load", "core"},
                        Timestamped(worker[r].job.contract),
                        ~FullSnapshot(worker[r].job)
                 PROVE  core[worker[r].job.name] # {}
      BY DEF FirstRunIsSnapshot
    <2> DEFINE job == worker[r].job
    <2>1. /\ job.id \in Ids /\ job.name \in Names
          /\ job.checkpoint \in Checkpoints
      BY DEF CInv, RInv, PInv, IInv, TypeOK, Live, Worker, Job
    <2>2. OwnRow(job) /\ SameCheckpoint(job)
      BY DEF CInv, RInv, WorkerRow, Uncommitted, Pcs, ThreadPcs
    <2>3. job.checkpoint # None
      BY DEF FullSnapshot, Before, Timestamped
    <2>4. <<job.contract.url, job.checkpoint>> \in mart[job.name]
      BY <2>1, <2>2, <2>3
      DEF CInv, NewestPublished, OwnRow, SameCheckpoint
    <2> QED
      BY <2>1, <2>4 DEF CInv, RInv, PInv, MartBehindCore
  <1> QED
    BY CheckpointInvariance, <1>1, PTL

(* README.md:123, db.py update_source_checkpoint: under the same           *)
(* hypotheses a commit that moves a checkpoint back, as a full reload may, *)
(* only moves it over changes that its URL has dropped, so nothing that    *)
(* was published is asked for again.                                       *)
THEOREM ReloadsForgetOnlyTheGone ==
  ASSUME ~EditsDuringRuns, ~Renames PROVE Spec => OnlyTheGoneIsAskedAgain
  <1> DEFINE Reasked(i) ==
               {sources[i].contract.url} \X
                  ((sources'[i].checkpoint + 1)..sources[i].checkpoint)
  <1>1. ASSUME CInv, [Next]_vars, NEW i \in Ids,
               sources[i] # None, sources'[i] # None,
               sources'[i].contract = sources[i].contract,
               sources[i].checkpoint # None
        PROVE  /\ sources'[i].checkpoint # None
               /\ Reasked(i) \subseteq gone
    <2>0. RInv /\ sources[i] \in Row
      BY <1>1 DEF CInv, RInv, PInv, IInv, TypeOK
    <2>1. CASE sources'[i] = sources[i]
      <3>1. sources[i].checkpoint \in Nat
        BY <1>1, <2>0, ConstantsAssumption DEF Row, Checkpoints, Times
      <3>2. Reasked(i) = {}
        BY <2>1, <3>1
      <3> QED
        BY <1>1, <2>1, <3>2
    <2>2. ASSUME NEW r \in RunIds, At(r, "commit"), i = worker[r].job.id,
                 worker[r].after # None,
                 sources'[i] = [sources[i] EXCEPT !.checkpoint =
                                                    worker[r].after]
          PROVE  /\ sources'[i].checkpoint # None
                 /\ Reasked(i) \subseteq gone
      <3>1. /\ Covers(worker[r]) /\ OwnRow(worker[r].job)
            /\ SameCheckpoint(worker[r].job)
        BY <1>1, <2>2 DEF At, CInv, RInv, WorkerRow, Uncommitted, Pcs,
                          ThreadPcs, AfterCovered, Extracted
      <3>2. sources'[i].checkpoint = worker[r].after
        BY <2>0, <2>2 DEF Row
      <3> QED
        BY <1>1, <2>2, <3>1, <3>2
        DEF Covers, Promise, OwnRow, SameCheckpoint
    <2> QED
      BY <1>1, <2>0, <2>1, <2>2, RowSteps
  <1>2. CInv /\ [Next]_vars =>
          [\A i \in Ids :
             /\ sources[i] # None /\ sources'[i] # None
             /\ sources'[i].contract = sources[i].contract
             /\ sources[i].checkpoint # None
             => /\ sources'[i].checkpoint # None
                /\ {sources[i].contract.url} \X
                      ((sources'[i].checkpoint + 1)..sources[i].checkpoint)
                        \subseteq gone]_vars
    BY <1>1
  <1> QED
    BY CheckpointInvariance, <1>2, PTL DEF Spec, OnlyTheGoneIsAskedAgain
=============================================================================
