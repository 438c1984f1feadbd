---------------------------- MODULE Health_proofs ----------------------------
(***************************************************************************)
(* Proofs about Health for every set of dependencies, size of the pool,    *)
(* number of runs and of restarts.                                         *)
(***************************************************************************)
EXTENDS Health, FiniteSetTheorems, TLAPS

(* lifespan awaits the first check: while the process starts there is no   *)
(* run that could look at the snapshot, and afterwards the snapshot is     *)
(* complete, whatever cycle is under way.                                  *)
StartsAlone ==
    app = "starting" => \A r \in RunIds : run[r] \notin {"queued", "checked"}

ServesChecked ==
    app = "serving" => \A d \in Deps : snapshot.dependencies[d] # "unknown"

(* seen is up to date, and an answer of the cycle under way is one that    *)
(* was true since the cycle began, with its detail beside it.              *)
SeenNow == \A d \in Deps : Answer(d) \in seen[d]

ResultsSeen ==
    \A d \in Deps : results[d] # "unknown" =>
        results[d] \in seen[d] /\ details[d] = results[d]

IInv == /\ TypeOK /\ IsFiniteSet(threads)
        /\ StartsAlone /\ ServesChecked /\ SeenNow /\ ResultsSeen

-----------------------------------------------------------------------------
(* The jobs that a cycle submits are a sequence of probes.                 *)
LEMMA ProbeJobs == SetToSeq(Probes) \in Seq(Jobs)
  <1>1. IsFiniteSet(Probes) /\ Cardinality(Probes) \in Nat
    <2> DEFINE f == [p \in Probes |-> p.probe]
    <2>1. f \in [Probes -> Deps]
      BY DEF Probes
    <2>2. \A p, q \in Probes : f[p] = f[q] => p = q
      BY DEF Probes
    <2>3. f \in Injection(Probes, Deps)
      BY <2>1, <2>2 DEF Injection, IsInjective
    <2> QED
      BY <2>3, FS_Injection, FS_CardinalityType, ConstantsAssumption
  <1> DEFINE n == Cardinality(Probes)
  <1>2. ExistsBijection(1..n, Probes)
    BY <1>1, FS_CardinalityType
  <1>3. PICK g : g \in Bijection(1..n, Probes)
    BY <1>2 DEF ExistsBijection
  <1>4. g \in [1..n -> Probes] /\ IsInjective(g)
    BY <1>3 DEF Bijection, Injection
  <1>5. SetToSeq(Probes) \in [1..n -> Probes]
    BY <1>4 DEF SetToSeq
  <1>6. \A h \in [1..n -> Probes] : h \in Seq(Jobs)
    BY <1>1 DEF Jobs
  <1> QED
    BY <1>5, <1>6

LEMMA AnswerTypes ==
  /\ Unknown \in [Deps -> Answers]
  /\ \A d \in Deps : Answer(d) \in Answers
  /\ Now \in [Deps -> SUBSET Answers]
  <1>1. \A d \in Deps : {IF d \in up THEN "ok" ELSE "error"} \subseteq Answers
    BY DEF Answers
  <1>2. Now \in [Deps -> SUBSET Answers]
    BY <1>1 DEF Now
  <1> QED
    BY <1>2 DEF Unknown, Answer, Answers

LEMMA InitIInv == Init => IInv
  <1> SUFFICES ASSUME Init PROVE IInv
    OBVIOUS
  <1> USE ConstantsAssumption DEF Init
  <1>1. IsFiniteSet(threads) /\ Cardinality(threads) = 0
    BY FS_EmptySet
  <1>2. NoAnswers \in [dependencies : [Deps -> Answers],
                       details : [Deps -> Answers]]
    BY AnswerTypes DEF NoAnswers
  <1>3. queue \in Seq(Jobs) /\ run \in [RunIds -> RunStates]
    BY DEF RunStates
  <1>4. TypeOK
    <2>1. Cardinality(threads) <= PoolSize /\ threads \subseteq Jobs
      BY <1>1
    <2>2. {results, details} \subseteq [Deps -> Answers]
      BY AnswerTypes
    <2>3. seen \in [Deps -> SUBSET Answers]
      BY AnswerTypes
    <2>4. changes \in 0..MaxChanges /\ restarts \in 0..MaxRestarts
      OBVIOUS
    <2> QED
      BY <1>2, <1>3, <2>1, <2>2, <2>3, <2>4 DEF TypeOK
  <1>5. StartsAlone /\ ServesChecked /\ SeenNow /\ ResultsSeen
    BY DEF StartsAlone, ServesChecked, SeenNow, ResultsSeen, Answer, Now,
           Unknown
  <1> QED
    BY <1>1, <1>4, <1>5 DEF IInv

(* A thread that takes a job, and one that gives it back.                  *)
LEMMA TakenThreads ==
  ASSUME IInv, Take
  PROVE  /\ threads' \subseteq Jobs /\ IsFiniteSet(threads')
         /\ Cardinality(threads') <= PoolSize
         /\ queue' \in Seq(Jobs)
  <1>1. queue \in Seq(Jobs) /\ queue # <<>>
    BY DEF IInv, TypeOK, Take
  <1>2. Head(queue) \in Jobs /\ Tail(queue) \in Seq(Jobs)
    BY <1>1
  <1>3. /\ IsFiniteSet(threads) /\ Cardinality(threads) \in Nat
        /\ Cardinality(threads) < PoolSize
    BY FS_CardinalityType DEF IInv, Take, Idle
  <1>4. threads' = threads \cup {Head(queue)}
    BY DEF Take
  <1>5. IsFiniteSet(threads') /\ Cardinality(threads') <= PoolSize
    <2>1. /\ IsFiniteSet(threads')
          /\ \/ Cardinality(threads') = Cardinality(threads)
             \/ Cardinality(threads') = Cardinality(threads) + 1
      BY <1>3, <1>4, FS_AddElement
    <2>2. PoolSize \in Nat
      BY ConstantsAssumption
    <2> QED
      BY <1>3, <2>1, <2>2
  <1> QED
    BY <1>2, <1>4, <1>5 DEF Take, IInv, TypeOK

LEMMA ReleasedThreads ==
  ASSUME IInv, NEW job
  PROVE  /\ Released(job) \subseteq Jobs /\ IsFiniteSet(Released(job))
         /\ Cardinality(Released(job)) <= PoolSize
  <1>1. /\ threads \subseteq Jobs /\ IsFiniteSet(threads)
        /\ Cardinality(threads) \in Nat
        /\ Cardinality(threads) <= PoolSize
    BY FS_CardinalityType DEF IInv, TypeOK
  <1>2. IsFiniteSet(threads \ {job})
        /\ Cardinality(threads \ {job}) <= Cardinality(threads)
    BY <1>1, FS_RemoveElement
  <1>3. Cardinality(threads \ {job}) \in Nat
    BY <1>2, FS_CardinalityType
  <1> QED
    BY <1>1, <1>2, <1>3, ConstantsAssumption DEF Released

-----------------------------------------------------------------------------
LEMMA TypeNext ==
  ASSUME IInv, [Next]_vars
  PROVE  TypeOK' /\ IsFiniteSet(threads')
  <1> USE ConstantsAssumption
  <1>0. TypeOK /\ IsFiniteSet(threads)
    BY DEF IInv
  <1>1. CASE StartCycle
    <2>1. queue' \in Seq(Jobs)
      BY <1>0, <1>1, ProbeJobs DEF StartCycle, Submitted, TypeOK
    <2> QED
      BY <1>0, <1>1, <2>1, AnswerTypes DEF StartCycle, TypeOK
  <1>2. CASE Publish
    BY <1>0, <1>2 DEF Publish, TypeOK
  <1>3. CASE Take
    BY <1>0, <1>3, TakenThreads DEF Take, TypeOK
  <1>4. ASSUME NEW r \in RunIds, Trigger(r)
        PROVE  TypeOK' /\ IsFiniteSet(threads')
    <2>1. <<[run |-> r]>> \in Seq(Jobs)
      BY DEF Jobs, Runs
    <2>2. queue' \in Seq(Jobs)
      BY <1>0, <1>4, <2>1 DEF Trigger, Submitted, TypeOK
    <2> QED
      BY <1>0, <1>4, <2>2 DEF Trigger, TypeOK, RunStates
  <1>5. ASSUME NEW r \in RunIds, Work(r)
        PROVE  TypeOK' /\ IsFiniteSet(threads')
    <2>1. threads' = threads \/ threads' = Released([run |-> r])
      BY <1>5 DEF Work, Preflight, Finish
    <2>2. /\ threads' \subseteq Jobs /\ IsFiniteSet(threads')
          /\ Cardinality(threads') <= PoolSize
      BY <1>0, <2>1, ReleasedThreads DEF TypeOK
    <2> QED
      BY <1>0, <1>5, <2>2 DEF Work, Preflight, Finish, TypeOK, RunStates
  <1>6. ASSUME NEW d \in Deps, Probe(d)
        PROVE  TypeOK' /\ IsFiniteSet(threads')
    <2>1. /\ threads' \subseteq Jobs /\ IsFiniteSet(threads')
          /\ Cardinality(threads') <= PoolSize
      BY <1>6, ReleasedThreads DEF Probe
    <2> QED
      BY <1>0, <1>6, <2>1 DEF Probe, TypeOK, Returned, Answer, Answers
  <1>7. ASSUME NEW d \in Deps, Change(d)
        PROVE  TypeOK' /\ IsFiniteSet(threads')
    BY <1>0, <1>7 DEF Change, TypeOK, Answers, process
  <1>8. CASE Restart
    <2>1. IsFiniteSet({}) /\ Cardinality({}) = 0
      BY FS_EmptySet
    <2>2. NoAnswers \in [dependencies : [Deps -> Answers],
                         details : [Deps -> Answers]]
      BY AnswerTypes DEF NoAnswers
    <2>3. queue' \in Seq(Jobs) /\ run' \in [RunIds -> RunStates]
      BY <1>0, <1>8 DEF Restart, TypeOK, RunStates
    <2>4. {results', details'} \subseteq [Deps -> Answers]
      BY <1>8, AnswerTypes DEF Restart
    <2>5. Cardinality(threads') <= PoolSize /\ threads' \subseteq Jobs
      BY <1>8, <2>1 DEF Restart
    <2>6. changes' \in 0..MaxChanges /\ restarts' \in 0..MaxRestarts
      BY <1>0, <1>8 DEF Restart, TypeOK
    <2>7. /\ app' \in {"starting", "serving"} /\ cycle' \in BOOLEAN
          /\ up' \subseteq Deps /\ seen' \in [Deps -> SUBSET Answers]
          /\ snapshot' = NoAnswers
      BY <1>0, <1>8 DEF Restart, TypeOK
    <2> QED
      BY <1>8, <2>1, <2>2, <2>3, <2>4, <2>5, <2>6, <2>7 DEF Restart, TypeOK
  <1>9. CASE UNCHANGED vars
    BY <1>0, <1>9 DEF TypeOK, vars
  <1> QED
    BY <1>1, <1>2, <1>3, <1>4, <1>5, <1>6, <1>7, <1>8, <1>9 DEF Next

(* Runs are created by a process that serves, and nothing goes back to     *)
(* starting but a restart, which loses them.                               *)
LEMMA StartNext ==
  ASSUME IInv, [Next]_vars
  PROVE  StartsAlone' /\ ServesChecked'
  <1>0. TypeOK /\ StartsAlone /\ ServesChecked
    BY DEF IInv
  <1>1. CASE Publish
    BY <1>0, <1>1 DEF Publish, AllIn, StartsAlone, ServesChecked
  <1>2. ASSUME NEW r \in RunIds, Trigger(r) \/ Work(r)
        PROVE  StartsAlone' /\ ServesChecked'
    BY <1>0, <1>2 DEF Trigger, Serving, Work, Preflight, Finish, StartsAlone,
                      ServesChecked, TypeOK
  <1>3. CASE Restart
    BY <1>3 DEF Restart, StartsAlone, ServesChecked
  <1>4. CASE UNCHANGED <<app, run, snapshot>>
    BY <1>0, <1>4 DEF StartsAlone, ServesChecked
  <1> QED
    BY <1>1, <1>2, <1>3, <1>4
    DEF Next, StartCycle, Take, Probe, Change, process, vars

LEMMA SeenNext ==
  ASSUME IInv, [Next]_vars
  PROVE  SeenNow' /\ ResultsSeen'
  <1>0. TypeOK /\ SeenNow /\ ResultsSeen
    BY DEF IInv
  <1>1. CASE StartCycle
    BY <1>0, <1>1
    DEF StartCycle, SeenNow, ResultsSeen, Answer, Now, Unknown
  <1>2. ASSUME NEW d \in Deps, Probe(d)
        PROVE  SeenNow' /\ ResultsSeen'
    BY <1>0, <1>2 DEF Probe, Returned, SeenNow, ResultsSeen, Answer, TypeOK
  <1>3. ASSUME NEW d \in Deps, Change(d)
        PROVE  SeenNow' /\ ResultsSeen'
    <2>1. /\ seen'[d] = {"ok", "error"}
          /\ \A e \in Deps \ {d} : seen'[e] = seen[e]
                                   /\ (e \in up' <=> e \in up)
      BY <1>0, <1>3 DEF Change, TypeOK
    <2>2. UNCHANGED <<results, details>> /\ results[d] \in Answers
      BY <1>0, <1>3 DEF Change, process, TypeOK
    <2> QED
      BY <1>0, <2>1, <2>2 DEF SeenNow, ResultsSeen, Answer, Answers
  <1>4. CASE Restart
    BY <1>0, <1>4 DEF Restart, SeenNow, ResultsSeen, Answer, Unknown
  <1>5. CASE UNCHANGED <<up, results, details, seen>>
    BY <1>0, <1>5 DEF SeenNow, ResultsSeen, Answer
  <1> QED
    BY <1>1, <1>2, <1>3, <1>4, <1>5
    DEF Next, Publish, Take, Trigger, Work, Preflight, Finish, vars

(* The answers and details of the cycle under way are of this process and  *)
(* of moments since the cycle began, and no run is served from a snapshot  *)
(* that this process has not published.                                    *)
THEOREM Invariance == Spec => []IInv
  <1>1. IInv /\ [Next]_vars => IInv'
    BY TypeNext, StartNext, SeenNext DEF IInv
  <1> QED
    BY InitIInv, <1>1, PTL DEF Spec

(* The variables have their types; in particular the executor never has    *)
(* more threads than the pool allows.                                      *)
THEOREM TypeCorrect == Spec => []TypeOK
  <1>1. IInv => TypeOK
    BY DEF IInv
  <1> QED
    BY Invariance, <1>1, PTL

(* main.py lifespan, README.md:136: whatever the dependencies do and       *)
(* whenever the process restarts, no run reaches preflight with a          *)
(* dependency that this process has not probed.                            *)
THEOREM ChecksComeFirst == Spec => []CheckedBeforeRuns
  <1>1. IInv => CheckedBeforeRuns
    BY DEF IInv, TypeOK, StartsAlone, ServesChecked, CheckedBeforeRuns
  <1> QED
    BY Invariance, <1>1, PTL

(* pipeline.py:172 refresh_health: what is published was answered in the   *)
(* cycle that ends, and every detail is of the same probe as its answer.   *)
THEOREM SnapshotsAreOfOneCycle == Spec => SnapshotOfOneCycle
  <1>1. ASSUME IInv, [Next]_vars, snapshot' # snapshot, app' = "serving",
               NEW d \in Deps
        PROVE  /\ snapshot'.dependencies[d] \in seen[d]
               /\ snapshot'.details[d] = snapshot'.dependencies[d]
    <2>1. Publish
      BY <1>1 DEF Next, StartCycle, Take, Trigger, Work, Preflight, Finish,
                  Probe, Change, Restart, process, vars
    <2> QED
      BY <1>1, <2>1 DEF Publish, AllIn, IInv, ResultsSeen
  <1>2. IInv /\ [Next]_vars =>
          [snapshot' # snapshot /\ app' = "serving" =>
             \A d \in Deps :
                 /\ snapshot'.dependencies[d] \in seen[d]
                 /\ snapshot'.details[d] = snapshot'.dependencies[d]]_vars
    BY <1>1
  <1> QED
    BY Invariance, <1>2, PTL DEF Spec, SnapshotOfOneCycle
=============================================================================
