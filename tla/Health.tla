------------------------------- MODULE Health -------------------------------
(***************************************************************************)
(* The health checks of the Orchestrator, the preflight check of its runs, *)
(* and the thread pool they share (orchestrator/app/pipeline.py, runner.py *)
(* and the lifespan of main.py).                                           *)
(*                                                                         *)
(* The event loop starts a cycle of probes, one job per dependency, and    *)
(* triggers runs, one job each.  All jobs wait in the one queue of         *)
(* asyncio's default executor, first come first served, for one of its     *)
(* threads.  The steps of a run after preflight are the subject of module  *)
(* Orchestrator; here a run keeps its thread for some time.                *)
(***************************************************************************)
EXTENDS Naturals, Sequences, SequencesExt, FiniteSets

CONSTANTS
    Deps,         \* HEALTH_DEPENDENCIES
    PoolSize,     \* threads of asyncio's default executor
    MaxRuns,      \* bound: runs triggered
    MaxChanges,   \* bound: dependencies that go down or come up
    MaxRestarts   \* bound: restarts of the Orchestrator

ASSUME ConstantsAssumption ==
    /\ IsFiniteSet(Deps) /\ Deps # {}
    /\ PoolSize \in Nat \ {0}
    /\ {MaxRuns, MaxChanges, MaxRestarts} \subseteq Nat

RunIds == 1..MaxRuns
Probes == [probe : Deps]
Runs == [run : RunIds]
Jobs == Probes \cup Runs

Answers == {"unknown", "ok", "error"}
RunStates == {"none", "queued", "checked", "finished", "refused"}

VARIABLES
    up,         \* the dependencies that are up
    app,        \* "starting" until lifespan yields, then "serving"
    cycle,      \* is refresh_health under way?
    results,    \* what the probes of the cycle have returned
    details,    \* _health_details
    snapshot,   \* _health_snapshot: dependencies and details
    queue,      \* jobs waiting for a thread
    threads,    \* jobs that have one
    run,        \* what has become of each run
    changes,    \* history: changes of up
    restarts,   \* history: restarts
    seen        \* history: how each dependency has been in this cycle

vars == <<up, app, cycle, results, details, snapshot, queue, threads, run,
          changes, restarts, seen>>
process == <<app, cycle, results, details, snapshot, queue, threads>>

Unknown == [d \in Deps |-> "unknown"]
Now == [d \in Deps |-> {IF d \in up THEN "ok" ELSE "error"}]

TypeOK ==
    /\ up \subseteq Deps
    /\ app \in {"starting", "serving"}
    /\ cycle \in BOOLEAN
    /\ {results, details} \subseteq [Deps -> Answers]
    /\ snapshot \in [dependencies : [Deps -> Answers],
                    details : [Deps -> Answers]]
    /\ queue \in Seq(Jobs)
    /\ Cardinality(threads) <= PoolSize
    /\ threads \subseteq Jobs
    /\ run \in [RunIds -> RunStates]
    /\ changes \in 0..MaxChanges
    /\ restarts \in 0..MaxRestarts
    /\ seen \in [Deps -> SUBSET Answers]

NoAnswers == [dependencies |-> Unknown, details |-> Unknown]

(* The process starts: lifespan awaits refresh_health first.               *)
Init ==
    /\ up \in SUBSET Deps
    /\ app = "starting"
    /\ cycle = FALSE
    /\ results = Unknown
    /\ details = Unknown
    /\ snapshot = NoAnswers
    /\ queue = <<>>
    /\ threads = {}
    /\ run = [r \in RunIds |-> "none"]
    /\ changes = 0
    /\ restarts = 0
    /\ seen = Now

-----------------------------------------------------------------------------
(* The event loop.                                                         *)

(* Faulty: probes do not wait behind the runs.                             *)
InFront(q, jobs) == jobs \o q

(* run_in_executor.                                                        *)
Submitted(q, jobs) == q \o jobs

(* refresh_health is called, by lifespan or when the interval is over: one *)
(* to_thread per dependency.                                               *)
StartCycle ==
    /\ ~cycle
    /\ cycle' = TRUE
    /\ results' = Unknown
    /\ queue' = Submitted(queue, SetToSeq(Probes))
    /\ seen' = Now
    /\ UNCHANGED <<up, app, details, snapshot, threads, run, changes,
                   restarts>>

(* Faulty: the snapshot follows every probe.                               *)
SomeIn == \E d \in Deps : results[d] # "unknown"

(* gather returns when every probe has.                                    *)
AllIn == \A d \in Deps : results[d] # "unknown"

(* The rest of refresh_health, under its lock.  At the start lifespan then *)
(* starts the scheduler and lets requests in.                              *)
Publish ==
    /\ cycle
    /\ AllIn
    /\ cycle' = FALSE
    /\ snapshot' = [dependencies |-> results, details |-> details]
    /\ app' = "serving"
    /\ UNCHANGED <<up, results, details, queue, threads, run, changes,
                   restarts, seen>>

(* Faulty: requests are served while the first check is under way.         *)
AtOnce == TRUE

Serving == app = "serving"

(* trigger_run, called by a tick or by a request.                          *)
Trigger(r) ==
    /\ Serving
    /\ run[r] = "none"
    /\ \A q \in 1..(r - 1) : run[q] # "none"
    /\ run' = [run EXCEPT ![r] = "queued"]
    /\ queue' = Submitted(queue, <<[run |-> r]>>)
    /\ UNCHANGED <<up, app, cycle, results, details, snapshot, threads,
                   changes, restarts, seen>>

-----------------------------------------------------------------------------
(* The threads.                                                            *)

(* Faulty: one thread more than the pool has.                              *)
OneMore == Cardinality(threads) <= PoolSize

(* ThreadPoolExecutor: a thread is free, or can still be started.          *)
Idle == Cardinality(threads) < PoolSize

Take ==
    /\ queue # <<>>
    /\ Idle
    /\ threads' = threads \cup {Head(queue)}
    /\ queue' = Tail(queue)
    /\ UNCHANGED <<up, app, cycle, results, details, snapshot, run, changes,
                   restarts, seen>>

Answer(d) == IF d \in up THEN "ok" ELSE "error"

(* Faulty: an exception in a check is not an answer.                       *)
OnlyIfUp(d) == IF d \in up THEN [results EXCEPT ![d] = "ok"] ELSE results

(* The threads answer True or False, never an exception.                   *)
Returned(d) == [results EXCEPT ![d] = Answer(d)]

Released(job) == threads \ {job}

(* check_*: ask the dependency, note the answer in _health_details under   *)
(* the lock, return.                                                       *)
Probe(d) ==
    /\ [probe |-> d] \in threads
    /\ results[d] = "unknown"
    /\ results' = Returned(d)
    /\ details' = [details EXCEPT ![d] = Answer(d)]
    /\ threads' = Released([probe |-> d])
    /\ UNCHANGED <<up, app, cycle, snapshot, queue, run, changes, restarts,
                   seen>>

Healthy(d) == snapshot.dependencies[d] = "ok"

(* The start of run_pipeline_steps: the run ends unless the snapshot says  *)
(* that every dependency is up.                                            *)
Preflight(r) ==
    /\ [run |-> r] \in threads
    /\ run[r] = "queued"
    /\ IF \A d \in Deps : Healthy(d)
         THEN /\ run' = [run EXCEPT ![r] = "checked"]
              /\ UNCHANGED threads
         ELSE /\ run' = [run EXCEPT ![r] = "refused"]
              /\ threads' = Released([run |-> r])
    /\ UNCHANGED <<up, app, cycle, results, details, snapshot, queue, changes,
                   restarts, seen>>

(* All other steps of run_pipeline_steps; each of them has a timeout.      *)
Finish(r) ==
    /\ [run |-> r] \in threads
    /\ run[r] = "checked"
    /\ run' = [run EXCEPT ![r] = "finished"]
    /\ threads' = Released([run |-> r])
    /\ UNCHANGED <<up, app, cycle, results, details, snapshot, queue, changes,
                   restarts, seen>>

-----------------------------------------------------------------------------
(* The environment.                                                        *)

(* A dependency goes down or comes up.                                     *)
Change(d) ==
    /\ changes < MaxChanges
    /\ changes' = changes + 1
    /\ up' = IF d \in up THEN up \ {d} ELSE up \cup {d}
    /\ seen' = [seen EXCEPT ![d] = {"ok", "error"}]
    /\ UNCHANGED <<process, run, restarts>>

(* The process stops and starts again; its runs are lost.                  *)
Restart ==
    /\ restarts < MaxRestarts
    /\ restarts' = restarts + 1
    /\ app' = "starting"
    /\ cycle' = FALSE
    /\ results' = Unknown
    /\ details' = Unknown
    /\ snapshot' = NoAnswers
    /\ queue' = <<>>
    /\ threads' = {}
    /\ run' = [r \in RunIds |-> IF run[r] \in {"queued", "checked"}
                                  THEN "finished" ELSE run[r]]
    /\ UNCHANGED <<up, changes, seen>>

Work(r) == Preflight(r) \/ Finish(r)

Next ==
    \/ StartCycle \/ Publish \/ Take
    \/ \E r \in RunIds : Trigger(r) \/ Work(r)
    \/ \E d \in Deps : Probe(d) \/ Change(d)
    \/ Restart

Spec == Init /\ [][Next]_vars

(* The loop wakes up after every interval, threads take jobs while there   *)
(* are some, every probe and every step of a run has a timeout.            *)
Fairness ==
    /\ WF_vars(StartCycle) /\ WF_vars(Publish) /\ WF_vars(Take)
    /\ \A d \in Deps : WF_vars(Probe(d))
    /\ \A r \in RunIds : WF_vars(Work(r))

FairSpec == Spec /\ Fairness

-----------------------------------------------------------------------------
(* Properties.                                                             *)

(* README.md:136 "A restart performs a fresh initial check before serving  *)
(* the GUI": no run is ever triggered, so none is refused, for a           *)
(* dependency that this process has not probed yet.                        *)
CheckedBeforeRuns ==
    \A r \in RunIds : run[r] \in {"queued", "checked"} =>
        \A d \in Deps : snapshot.dependencies[d] # "unknown"

(* pipeline.py:172 "publish one complete snapshot": each answer that is    *)
(* published was true at some moment of the cycle that ends, and the       *)
(* detail beside it comes from the same probe, though the threads write    *)
(* the details one by one while the previous snapshot is still read.       *)
SnapshotOfOneCycle ==
    [][snapshot' # snapshot /\ app' = "serving" =>
         \A d \in Deps :
             /\ snapshot'.dependencies[d] \in seen[d]
             /\ snapshot'.details[d] = snapshot'.dependencies[d]]_vars

(* README.md:132 "probes every dependency at startup and then every five   *)
(* seconds": however long runs hold the threads, every cycle of probes     *)
(* comes to an end and is published, and the next one starts.              *)
CyclesGoOn == []<>cycle /\ []<>~cycle

(* A run that waits for a thread gets one and ends, although the probes of *)
(* one cycle after another want the same threads.                          *)
RunsGetThreads ==
    \A r \in RunIds : run[r] = "queued" ~> run[r] \in {"finished", "refused"}
=============================================================================
