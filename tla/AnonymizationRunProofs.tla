----------------------- MODULE AnonymizationRunProofs -----------------------
(***************************************************************************)
(* Safety of the Run reconciler for every set of specs, backoff limit,     *)
(* lagging cache and foreign deletion.                                     *)
(***************************************************************************)
EXTENDS AnonymizationRun, FiniteSetTheorems, TLAPS

Early == {"", "Pending", "Provisioning"}
Output == {"BackingUp", "Publishing", "Pruning"}

\* The snapshot exists before anything depends on it.
SeedInv ==
    \A r \in {run, cache.run} : r.phase \notin {"", "Pending", "Failed"} => seed # NoSpec

\* Attempts are counted against the snapshot.
BudgetInv ==
    /\ seed = NoSpec => run.attempts = 0
    /\ seed # NoSpec => /\ run.attempts <= seed.backoffLimit + 1
                        /\ run.jobName = 0 => run.attempts <= seed.backoffLimit
    /\ run.jobName \in {0, run.attempts}

FailInv == run.failed => run.phase = "Failed"

\* The restore is over before the first attempt and never starts again, and
\* once its name is recorded no reconciliation takes the Run to be provisioning:
\* the copy that is read is at most one patch of the controller behind.
RestoreInv ==
    /\ ~run.restoreName => restore = "none"
    /\ run.restoreName => /\ run.phase \notin Early
                          /\ "run" \in Lagging => cache.run.phase \notin Early
    /\ run.phase \in {"Anonymizing"} \cup Output \/ run.attempts # 0 =>
          run.restoreName /\ restore # "running"

\* Only the Job that the status names may have an active runner, cached pods tell
\* the truth about runners that ended, and completed work is never followed by an
\* attempt.
JobInv ==
    /\ \A k \in Attempts :
          /\ jobs[k] # "none" <=> pods[k] # "none"
          /\ pods[k] # "none" => k <= run.attempts
          /\ pods[k] = "active" => k = run.jobName
          /\ cache.pods[k] \in Ended => pods[k] \in {cache.pods[k], "deleted"}
    /\ run.lastResult = "transient" /\ run.jobName # 0 =>
          pods[run.jobName] \in {"transient", "deleted"}
    /\ data = "anonymized" =>
          /\ run.jobName # 0 /\ run.lastResult = "none"
          /\ pods[run.jobName] \notin {"none", "active", "transient"}
          /\ cache.pods[run.jobName] # "transient"

\* No source data is left and none can come back.
Clean ==
    /\ run.restoreName /\ restore # "running"
    /\ data = "anonymized" \/ (data = "empty" /\ cluster.st = "absent")

OutputAllowed == Clean /\ seed # NoSpec /\ ~seed.dryRun

\* The output stages and a backup follow completed work.  A backup that is asked
\* for when the cluster is gone is empty, and can only fail.
DataInv ==
    /\ \A r \in {run, cache.run} : r.phase \in Output => OutputAllowed
    /\ \A k \in Attempts : "ok" \in {pods[k], cache.pods[k]} /\ ~seed.dryRun => Clean
    /\ backup.st # "none" => OutputAllowed
    /\ backup.st = "running" => backup.content = "anonymized" \/ cluster.st = "absent"
    /\ backup.st = "succeeded" => backup.content = "anonymized"

PointerInv ==
    /\ pointer \in {"previous", "anonymized"}
    /\ pointer # "previous" => seed # NoSpec /\ seed.pointer
    /\ run.phase \in {"Pruning", "CleaningUp", "Completed"} /\ seed.pointer /\ ~seed.dryRun =>
          pointer # "previous"

IInv ==
    /\ TypeOK /\ SeedInv /\ BudgetInv /\ FailInv /\ RestoreInv /\ JobInv
    /\ DataInv /\ PointerInv

-----------------------------------------------------------------------------
(* Two shapes of step that cover most paths                                *)

SameAttempt ==
    /\ run'.restoreName = run.restoreName /\ run'.attempts = run.attempts
    /\ run'.jobName = run.jobName /\ run'.lastResult = run.lastResult

\* The Secrets change within their types; nothing else depends on them.
SecretsTyped == users' \in SecretStates /\ generated' \in [Generated -> SecretType]

\* The phase stays or becomes Failed, and children only disappear.
Benign ==
    /\ run' \in RunType /\ SameAttempt
    /\ run'.phase \in {run.phase, "Failed"} /\ (run'.failed => run'.phase = "Failed")
    /\ UNCHANGED <<cache, seed, pointer>>
    /\ cluster' \in ClusterType /\ (cluster.st = "absent" => cluster'.st = "absent")
    /\ SecretsTyped
    /\ restore' \in {restore} \/ (restore # "none" /\ restore' \in {"failed", "deleted"})
    /\ jobs' \in [Attempts -> JobType] /\ pods' \in [Attempts -> PodType]
    /\ \A k \in Attempts : jobs'[k] = jobs[k] \/ (jobs[k] # "none" /\ jobs'[k] # "none")
    /\ \A k \in Attempts : pods'[k] = pods[k] \/ (jobs[k] # "none" /\ pods'[k] = "deleted")
    /\ data' = data \/ (data' = "empty" /\ cluster'.st = "absent")
    /\ backup' \in {backup, NoBackup}
    /\ expired' \subseteq Timers
    /\ budget' \in 0..MaxDisturb

\* The Run moves on to a later phase.
Advance ==
    /\ run' \in RunType /\ SameAttempt
    /\ ~run'.failed
    /\ run'.phase \notin {"", "Pending", "Failed"} => seed # NoSpec
    /\ run'.phase \in {"Anonymizing"} \cup Output => run.restoreName /\ restore # "running"
    /\ run.phase \in Early \/ run'.phase \notin Early
    /\ run'.phase \in Output => OutputAllowed
    /\ run'.phase \in {"Pruning", "CleaningUp", "Completed"} /\ seed.pointer /\ ~seed.dryRun =>
          pointer # "previous"
    /\ UNCHANGED <<cache, seed, cluster, users, generated, restore, jobs, pods, data, backup, pointer,
                   expired, budget>>

LEMMA BenignStep == IInv /\ Benign => IInv'
<1> SUFFICES ASSUME IInv, Benign PROVE IInv'
  OBVIOUS
<1>1. TypeOK'
  <2>1. backup' \in BackupType /\ data' \in Contents
    BY DEF Benign, NoBackup, BackupType, Contents, IInv, TypeOK
  <2>2. restore' \in {"none", "running", "succeeded", "failed", "deleted"}
    BY DEF Benign, IInv, TypeOK
  <2> QED BY <2>1, <2>2 DEF Benign, SecretsTyped, IInv, TypeOK
<1>2. SeedInv' /\ BudgetInv' /\ FailInv'
  BY DEF Benign, SameAttempt, IInv, SeedInv, BudgetInv, FailInv
<1>3. RestoreInv'
  BY DEF Benign, SameAttempt, IInv, RestoreInv, Early, Output
<1>4. JobInv'
  <2>0. run.jobName # 0 => run.jobName \in Attempts
    BY DEF IInv, TypeOK, RunType, Attempts, MaxAttempts
  <2>1. ASSUME NEW k \in Attempts
        PROVE  /\ jobs'[k] # "none" <=> pods'[k] # "none"
               /\ pods'[k] # "none" => k <= run'.attempts
               /\ pods'[k] = "active" => k = run'.jobName
               /\ cache'.pods[k] \in Ended => pods'[k] \in {cache'.pods[k], "deleted"}
    <3>1. /\ jobs'[k] = jobs[k] \/ (jobs[k] # "none" /\ jobs'[k] # "none")
          /\ pods'[k] = pods[k] \/ (jobs[k] # "none" /\ pods'[k] = "deleted")
          /\ cache' = cache /\ run'.attempts = run.attempts /\ run'.jobName = run.jobName
      BY DEF Benign, SameAttempt
    <3>2. /\ jobs[k] # "none" <=> pods[k] # "none"
          /\ pods[k] # "none" => k <= run.attempts
          /\ pods[k] = "active" => k = run.jobName
          /\ cache.pods[k] \in Ended => pods[k] \in {cache.pods[k], "deleted"}
      BY DEF IInv, JobInv
    <3>3. cache.pods[k] \in Ended => cache.pods[k] # "none"
      BY DEF Ended
    <3> QED BY ONLY <3>1, <3>2, <3>3
  <2>2. run'.lastResult = "transient" /\ run'.jobName # 0 =>
          pods'[run'.jobName] \in {"transient", "deleted"}
    BY <2>0 DEF Benign, SameAttempt, IInv, JobInv
  <2>3. data' = "anonymized" =>
          /\ run'.jobName # 0 /\ run'.lastResult = "none"
          /\ pods'[run'.jobName] \notin {"none", "active", "transient"}
          /\ cache'.pods[run'.jobName] # "transient"
    BY <2>0 DEF Benign, SameAttempt, IInv, JobInv
  <2> QED BY <2>1, <2>2, <2>3 DEF JobInv
<1>5. Clean => Clean'
  BY DEF Clean, Benign, SameAttempt
<1>6. OutputAllowed => OutputAllowed'
  BY <1>5 DEF OutputAllowed, Benign
<1>7. DataInv'
  <2>1. \A r \in {run', cache'.run} : r.phase \in Output => OutputAllowed'
    BY <1>6 DEF Benign, Output, IInv, DataInv
  <2>2. \A k \in Attempts : "ok" \in {pods'[k], cache'.pods[k]} /\ ~seed'.dryRun => Clean'
    BY <1>5 DEF Benign, IInv, DataInv
  <2>3. /\ backup'.st # "none" => OutputAllowed'
        /\ backup'.st = "running" => backup'.content = "anonymized" \/ cluster'.st = "absent"
        /\ backup'.st = "succeeded" => backup'.content = "anonymized"
    BY <1>6 DEF Benign, IInv, DataInv, NoBackup
  <2> QED BY <2>1, <2>2, <2>3 DEF DataInv
<1>9. PointerInv'
  BY DEF Benign, IInv, PointerInv
<1> QED BY <1>1, <1>2, <1>3, <1>4, <1>7, <1>9 DEF IInv

LEMMA AdvanceStep == IInv /\ Advance => IInv'
<1> SUFFICES ASSUME IInv, Advance PROVE IInv'
  OBVIOUS
<1>1. TypeOK'
  BY DEF Advance, IInv, TypeOK
<1>2. SeedInv' /\ BudgetInv' /\ FailInv'
  BY DEF Advance, SameAttempt, IInv, SeedInv, BudgetInv, FailInv
<1>3. RestoreInv'
  BY DEF Advance, SameAttempt, IInv, RestoreInv, Early, Output
<1>4. JobInv'
  BY DEF Advance, SameAttempt, IInv, JobInv
<1>5. Clean => Clean'
  BY DEF Clean, Advance, SameAttempt
<1>6. OutputAllowed => OutputAllowed'
  BY <1>5 DEF OutputAllowed, Advance
<1>7. DataInv'
  BY <1>5, <1>6 DEF Advance, IInv, DataInv
<1>8. PointerInv'
  BY DEF Advance, IInv, PointerInv
<1> QED BY <1>1, <1>2, <1>3, <1>4, <1>7, <1>8 DEF IInv

\* A patch of the Run alone that keeps its phase and the attempt.
LEMMA PatchStep ==
    ASSUME IInv, run' \in RunType, SameAttempt, run'.phase = run.phase, run'.failed = run.failed,
           UNCHANGED apiVars, UNCHANGED <<cache, expired, budget>>
    PROVE  IInv'
<1>1. Benign
  BY DEF Benign, SecretsTyped, apiVars, IInv, TypeOK, FailInv
<1> QED BY <1>1, BenignStep

\* failRun leaves everything but the verdict alone.
LEMMA FailStep ==
    ASSUME IInv, NEW r, failRun(r), UNCHANGED <<cache, expired, budget>>
    PROVE  IInv'
<1>1. run' = [run EXCEPT !.phase = "Failed", !.failed = TRUE] /\ UNCHANGED apiVars
  BY DEF failRun, patchRun, Failing
<1>2. run' \in RunType /\ SameAttempt /\ run'.phase = "Failed"
  BY <1>1 DEF IInv, TypeOK, RunType, Phases, SameAttempt
<1>3. Benign
  BY <1>1, <1>2 DEF Benign, SecretsTyped, apiVars, IInv, TypeOK
<1> QED BY <1>3, BenignStep

-----------------------------------------------------------------------------
(* The pipeline                                                            *)

LEMMA InvStart ==
    ASSUME IInv, startRun, UNCHANGED <<cache, expired, budget>>
    PROVE  IInv'
<1>0. UNCHANGED apiVars
  BY DEF startRun
<1>1. CASE run.phase = "" /\ run' = [run EXCEPT !.phase = "Pending"]
  <2>1. run' \in RunType /\ SameAttempt /\ run'.phase = "Pending" /\ run'.failed = run.failed
    BY <1>1 DEF IInv, TypeOK, RunType, Phases, SameAttempt
  <2>2. ~run.failed
    BY <1>1 DEF IInv, FailInv
  <2>3. Advance
    BY <1>0, <1>1, <2>1, <2>2 DEF Advance, apiVars, Early, Output
  <2> QED BY <2>3, AdvanceStep
<1>2. CASE run' = [run EXCEPT !.finalizer = TRUE]
  <2>1. run' \in RunType /\ SameAttempt /\ run'.phase = run.phase /\ run'.failed = run.failed
    BY <1>2, Zenon DEF IInv, TypeOK, RunType, SameAttempt
  <2> QED BY <1>0, <2>1, PatchStep
<1> QED BY <1>1, <1>2 DEF startRun, patchRun

LEMMA InvResolve ==
    ASSUME IInv, resolveRun, UNCHANGED <<cache, expired, budget>>
    PROVE  IInv'
<1>1. CASE failRun(SeenRun)
  BY <1>1, FailStep
<1>2. CASE ~failRun(SeenRun)
  <2>1. /\ prepareRunSnapshot(SeenRun)
        /\ \/ /\ run.phase = "Pending" /\ ~run.failed
              /\ run' = [run EXCEPT !.phase = "Provisioning", !.tempCluster = TRUE]
           \/ UNCHANGED run
        /\ UNCHANGED <<cluster, users, generated, restore, jobs, pods, data, backup, pointer>>
    BY <1>2, Zenon DEF resolveRun, patchRun, Pipeline
  <2>2. SeenRun \in RunType /\ SeenRun.spec \in Specs
    BY DEF SeenRun, IInv, TypeOK, RunType
  <2>3. seed' \in Specs /\ seed' # NoSpec /\ (seed # NoSpec => seed' = seed)
    BY <2>1, <2>2, ConstantsAssumption DEF prepareRunSnapshot, IInv, TypeOK
  <2>4. seed'.backoffLimit \in Nat
    BY <2>3, ConstantsAssumption DEF SpecType
  <2>5. run' \in RunType /\ SameAttempt /\ run'.failed = run.failed
    <3>1. CASE UNCHANGED run
      BY <3>1 DEF IInv, TypeOK, SameAttempt
    <3>2. CASE run' = [run EXCEPT !.phase = "Provisioning", !.tempCluster = TRUE]
      BY <3>2 DEF IInv, TypeOK, RunType, Phases, SameAttempt
    <3> QED BY <2>1, <3>1, <3>2
  <2>6. run'.phase = run.phase \/ (run.phase = "Pending" /\ run'.phase = "Provisioning" /\ ~run.failed)
    BY <2>1, Zenon DEF IInv, TypeOK, RunType
  <2>7. TypeOK'
    BY <2>1, <2>3, <2>5 DEF IInv, TypeOK
  <2>8. SeedInv' /\ FailInv'
    BY <2>3, <2>5, <2>6 DEF IInv, SeedInv, FailInv
  <2>9. BudgetInv'
    <3>1. run.attempts \in Nat
      BY DEF IInv, TypeOK, RunType
    <3> QED BY <3>1, <2>3, <2>4, <2>5 DEF IInv, BudgetInv, SameAttempt
  <2>10. RestoreInv' /\ JobInv'
    BY <2>1, <2>5, <2>6 DEF IInv, RestoreInv, JobInv, SameAttempt, Early, Output
  <2>11. Clean => Clean'
    BY <2>1, <2>5, <2>6 DEF Clean, SameAttempt, Early
  <2>12. OutputAllowed => OutputAllowed'
    BY <2>3, <2>11 DEF OutputAllowed
  <2>13. DataInv'
    <3>1. \A r \in {run', cache.run} : r.phase \in Output => OutputAllowed'
      BY <2>6, <2>12 DEF IInv, DataInv, Output
    <3>2. \A k \in Attempts : "ok" \in {pods[k], cache.pods[k]} => seed # NoSpec
      <4> SUFFICES ASSUME NEW k \in Attempts, "ok" \in {pods[k], cache.pods[k]}
                   PROVE  run.attempts # 0
        BY DEF IInv, BudgetInv
      <4>1. pods[k] # "none" /\ k \in Nat /\ k # 0 /\ run.attempts \in Nat
        BY ConstantsAssumption, SMTT(30)
           DEF IInv, JobInv, Ended, Attempts, MaxAttempts, TypeOK, RunType
      <4> QED BY <4>1 DEF IInv, JobInv
    <3>3. \A k \in Attempts : "ok" \in {pods[k], cache.pods[k]} /\ ~seed'.dryRun => Clean'
      BY <2>3, <2>11, <3>2 DEF IInv, DataInv
    <3> QED BY <2>1, <2>12, <3>1, <3>3 DEF IInv, DataInv
  <2>15. PointerInv'
    BY <2>1, <2>3, <2>6 DEF IInv, PointerInv, SeedInv
  <2> QED BY <2>7, <2>8, <2>9, <2>10, <2>13, <2>15 DEF IInv
<1> QED BY <1>1, <1>2

LEMMA InvProvisionCreate ==
    ASSUME IInv, provisionCreate, UNCHANGED <<cache, expired, budget>>
    PROVE  IInv'
<1>1. /\ UNCHANGED <<run, seed, generated, restore, jobs, pods, backup, pointer>> /\ users' = "present"
      /\ \/ UNCHANGED <<cluster, data>>
         \/ cluster' = [st |-> "creating", uid |-> cluster.uid + 1] /\ data' = "empty"
  BY DEF provisionCreate
<1>2. cluster' \in ClusterType /\ data' \in {data, "empty"}
  BY <1>1 DEF IInv, TypeOK, ClusterType
<1>3. ~run.restoreName
  BY DEF provisionCreate, Pipeline, SeenRun, IInv, RestoreInv, Early
<1>4. TypeOK'
  BY <1>1, <1>2 DEF IInv, TypeOK, Contents, SecretStates
<1>5. SeedInv' /\ BudgetInv' /\ FailInv' /\ RestoreInv' /\ PointerInv'
  BY <1>1 DEF IInv, SeedInv, BudgetInv, FailInv, RestoreInv, PointerInv
<1>6. JobInv'
  BY <1>1, <1>2 DEF IInv, JobInv
<1>7. ~Clean
  BY <1>3 DEF Clean
<1>8. DataInv'
  BY <1>1, <1>7 DEF IInv, DataInv, OutputAllowed
<1> QED BY <1>4, <1>5, <1>6, <1>8 DEF IInv

LEMMA InvProvision ==
    ASSUME IInv, provisionRun, UNCHANGED <<cache, expired, budget>>
    PROVE  IInv'
<1>1. CASE failRun(SeenRun)
  BY <1>1, FailStep
<1>2. CASE run' = [run EXCEPT !.uid = cluster.uid] /\ UNCHANGED apiVars
  <2>1. cluster.uid \in Nat
    BY DEF IInv, TypeOK, ClusterType
  <2>2. run' \in RunType /\ SameAttempt /\ run'.phase = run.phase /\ run'.failed = run.failed
    BY <1>2, <2>1 DEF IInv, TypeOK, RunType, SameAttempt
  <2> QED BY <1>2, <2>2, PatchStep
<1>3. CASE /\ run.phase = "Provisioning" /\ ~run.failed
           /\ run' = [run EXCEPT !.phase = "Restoring"] /\ UNCHANGED apiVars
  <2>1. run' \in RunType /\ SameAttempt /\ run'.phase = "Restoring" /\ run'.failed = run.failed
    BY <1>3 DEF IInv, TypeOK, RunType, Phases, SameAttempt
  <2>2. Advance
    BY <1>3, <2>1 DEF Advance, apiVars, Early, Output, IInv, SeedInv
  <2> QED BY <2>2, AdvanceStep
<1> QED BY <1>1, <1>2, <1>3 DEF provisionRun, patchRun, Pipeline

LEMMA InvRestore ==
    ASSUME IInv, restoreRun, UNCHANGED <<cache, expired, budget>>
    PROVE  IInv'
<1>1. CASE failRun(SeenRun)
  BY <1>1, FailStep
<1>2. CASE /\ run.phase = "Restoring" /\ ~run.failed /\ restore = "succeeded" /\ run.restoreName
           /\ run' = [run EXCEPT !.phase = "Anonymizing"] /\ UNCHANGED apiVars
  <2>1. run' \in RunType /\ SameAttempt /\ run'.phase = "Anonymizing" /\ run'.failed = run.failed
    BY <1>2 DEF IInv, TypeOK, RunType, Phases, SameAttempt
  <2>2. Advance
    BY <1>2, <2>1 DEF Advance, apiVars, Early, Output, IInv, SeedInv
  <2> QED BY <2>2, AdvanceStep
<1>3. CASE /\ SeenRun = run /\ run.phase = "Restoring" /\ ~run.failed /\ ~run.restoreName
           /\ run' = [run EXCEPT !.restoreName = TRUE] /\ restore' \in {"running", restore}
           /\ UNCHANGED <<seed, cluster, users, generated, jobs, pods, data, backup, pointer>>
  <2>1. /\ run' \in RunType /\ run'.restoreName
        /\ run'.phase = run.phase /\ run'.failed = run.failed /\ run'.attempts = run.attempts
        /\ run'.jobName = run.jobName /\ run'.lastResult = run.lastResult
    BY <1>3, ZenonT(40) DEF IInv, TypeOK, RunType
  <2>2. TypeOK'
    BY <1>3, <2>1 DEF IInv, TypeOK
  <2>3. SeedInv' /\ BudgetInv' /\ FailInv' /\ JobInv' /\ PointerInv'
    BY <1>3, <2>1 DEF IInv, SeedInv, BudgetInv, FailInv, JobInv, PointerInv
  <2>4. RestoreInv'
    <3>1. "run" \in Lagging => cache.run.phase = "Restoring"
      BY <1>3 DEF SeenRun
    <3> QED BY <1>3, <2>1, <3>1 DEF IInv, RestoreInv, Output, Early
  <2>5. ~Clean
    BY <1>3 DEF Clean
  <2>6. DataInv'
    BY <1>3, <2>1, <2>5 DEF IInv, DataInv, OutputAllowed
  <2> QED BY <2>2, <2>3, <2>4, <2>6 DEF IInv
<1> QED BY <1>1, <1>2, <1>3 DEF restoreRun, restoreVanished, patchRun, Pipeline

\* The Run before a new attempt.
LEMMA BeforeAttempt ==
    ASSUME IInv, run.phase = "Anonymizing", run.jobName = 0
    PROVE  /\ seed \in Specs /\ seed.backoffLimit \in 0..MaxBackoff
           /\ run.attempts \in Nat /\ run.attempts <= seed.backoffLimit
           /\ run.attempts + 1 \in Attempts
           /\ \A k \in Attempts : pods[k] # "active"
           /\ pods[run.attempts + 1] = "none" /\ jobs[run.attempts + 1] = "none"
           /\ cache.pods[run.attempts + 1] \notin Ended
           /\ data # "anonymized"
<1>1. seed \in Specs /\ seed # NoSpec
  BY DEF IInv, SeedInv, TypeOK
<1>2. seed.backoffLimit \in 0..MaxBackoff
  BY <1>1, ConstantsAssumption DEF SpecType
<1>3. run.attempts \in Nat
  BY ConstantsAssumption DEF IInv, TypeOK, RunType, MaxAttempts
<1>4. run.attempts <= seed.backoffLimit
  BY <1>1 DEF IInv, BudgetInv
<1>5. run.attempts + 1 \in Attempts
  BY <1>2, <1>3, <1>4, ConstantsAssumption DEF Attempts, MaxAttempts
<1>6. \A k \in Attempts : pods[k] # "active"
  BY ConstantsAssumption DEF IInv, JobInv, Attempts, MaxAttempts
<1>7. pods[run.attempts + 1] = "none" /\ jobs[run.attempts + 1] = "none"
  BY <1>3, <1>5 DEF IInv, JobInv
<1>8. cache.pods[run.attempts + 1] \notin Ended
  BY <1>5, <1>7 DEF IInv, JobInv, Ended
<1>9. data # "anonymized"
  BY DEF IInv, JobInv
<1> QED BY <1>1, <1>2, <1>3, <1>4, <1>5, <1>6, <1>7, <1>8, <1>9

LEMMA InvAttempt ==
    ASSUME IInv, startAttempt, UNCHANGED <<cache, expired, budget>>
    PROVE  IInv'
<1> DEFINE k == run.attempts + 1
<1>1. /\ SeenRun = run /\ run.phase = "Anonymizing" /\ ~run.failed /\ run.jobName = 0
      /\ run' = [run EXCEPT !.attempts = k, !.jobName = k, !.lastResult = "none"]
      /\ \/ UNCHANGED <<jobs, pods>>
         \/ /\ jobs' = [jobs EXCEPT ![k] = "present"]
            /\ pods' = [pods EXCEPT ![k] = "active"]
      /\ UNCHANGED <<seed, cluster, users, generated, restore, data, backup, pointer>>
  BY DEF startAttempt, patchRun, Pipeline
<1>2. /\ seed \in Specs /\ seed.backoffLimit \in Nat /\ run.attempts \in Nat
      /\ run.attempts <= seed.backoffLimit /\ k \in Attempts /\ k # 0
      /\ pods[k] = "none" /\ jobs[k] = "none" /\ cache.pods[k] \notin Ended /\ data # "anonymized"
      /\ \A j \in Attempts : pods[j] # "active"
  BY <1>1, BeforeAttempt
<1> HIDE DEF k
<1>3. /\ run' \in RunType /\ run'.attempts = k /\ run'.jobName = k /\ run'.lastResult = "none"
      /\ run'.phase = run.phase /\ run'.failed = run.failed /\ run'.restoreName = run.restoreName
  <2>1. k \in 0..MaxAttempts
    BY <1>2 DEF Attempts
  <2> QED BY <1>1, <2>1, ZenonT(40) DEF IInv, TypeOK, RunType
<1>4. /\ jobs' \in [Attempts -> JobType] /\ pods' \in [Attempts -> PodType]
      /\ \/ jobs'[k] = "none" /\ pods'[k] = "none"
         \/ jobs'[k] = "present" /\ pods'[k] = "active"
      /\ \A j \in Attempts \ {k} : jobs'[j] = jobs[j] /\ pods'[j] = pods[j]
  <2>1. CASE UNCHANGED <<jobs, pods>>
    BY <1>2, <2>1 DEF IInv, TypeOK
  <2>2. CASE jobs' = [jobs EXCEPT ![k] = "present"] /\ pods' = [pods EXCEPT ![k] = "active"]
    BY <1>2, <2>2 DEF IInv, TypeOK, JobType, PodType
  <2> QED BY <1>1, <2>1, <2>2
<1>5. TypeOK'
  BY <1>1, <1>3, <1>4 DEF IInv, TypeOK
<1>6. SeedInv' /\ FailInv'
  BY <1>1, <1>3 DEF IInv, SeedInv, FailInv
<1>7. BudgetInv'
  <2>1. seed # NoSpec
    BY <1>2, ConstantsAssumption
  <2>2. k <= seed.backoffLimit + 1
    BY <1>2 DEF k
  <2> QED BY <1>1, <1>2, <1>3, <2>1, <2>2 DEF BudgetInv
<1>8. RestoreInv'
  BY <1>1, <1>3 DEF IInv, RestoreInv, Early
<1>9. JobInv'
  <2>1. \A j \in Attempts : j # k /\ pods[j] # "none" => j <= k
    BY <1>2, SMTT(30) DEF IInv, JobInv, k, Attempts
  <2> QED BY <1>1, <1>2, <1>3, <1>4, <2>1, SMTT(30) DEF IInv, JobInv, Ended, Attempts
<1>10. Clean => Clean'
  BY <1>1, <1>3 DEF Clean
<1>11. OutputAllowed => OutputAllowed'
  BY <1>1, <1>10 DEF OutputAllowed
<1>12. DataInv'
  BY <1>1, <1>3, <1>4, <1>10, <1>11 DEF IInv, DataInv
<1>13. PointerInv'
  BY <1>1, <1>3 DEF IInv, PointerInv
<1> QED BY <1>5, <1>6, <1>7, <1>8, <1>9, <1>12, <1>13 DEF IInv

\* Marking a Job for deletion.
LEMMA DeleteJobStep ==
    ASSUME IInv, NEW k \in Attempts, jobs[k] # "none",
           jobs' = [jobs EXCEPT ![k] = "deleting"],
           UNCHANGED <<run, seed, cluster, users, generated, restore, pods, data, backup, pointer>>,
           UNCHANGED <<cache, expired>>, budget' \in 0..MaxDisturb
    PROVE  IInv'
<1>1. /\ jobs' \in [Attempts -> JobType]
      /\ \A j \in Attempts : jobs'[j] = jobs[j] \/ (jobs[j] # "none" /\ jobs'[j] # "none")
  BY DEF IInv, TypeOK, JobType
<1>2. Benign
  BY <1>1 DEF Benign, SameAttempt, SecretsTyped, IInv, TypeOK, FailInv
<1> QED BY <1>2, BenignStep

\* The name of a Job is an attempt.
LEMMA JobNameType ==
    ASSUME TypeOK, NEW r \in {run, cache.run}, r.jobName # 0
    PROVE  r.jobName \in Attempts
  BY ConstantsAssumption DEF TypeOK, RunType, Attempts, MaxAttempts

LEMMA SeenRunIs == SeenRun \in {run, cache.run}
  BY DEF SeenRun

LEMMA InvRetry ==
    ASSUME IInv, retryRunAttempt, UNCHANGED <<cache, expired, budget>>
    PROVE  IInv'
<1>1. CASE failRun(SeenRun)
  BY <1>1, FailStep
<1>2. CASE /\ SeenRun.jobName # 0 /\ deleteJob(SeenRun.jobName)
           /\ UNCHANGED <<run, seed, cluster, users, generated, restore, pods, data, backup, pointer>>
  <2>1. SeenRun.jobName \in Attempts
    BY <1>2, JobNameType, SeenRunIs DEF IInv
  <2> QED BY <1>2, <2>1, DeleteJobStep DEF deleteJob, IInv, TypeOK
<1>3. CASE /\ SeenRun = run /\ run.phase = "Anonymizing" /\ ~run.failed
           /\ run.jobName # 0 /\ run.lastResult = "transient" /\ ~retryBudgetExhausted(run)
           /\ run' = [run EXCEPT !.jobName = 0] /\ UNCHANGED apiVars
  <2>1. /\ run' \in RunType /\ run'.jobName = 0 /\ run'.attempts = run.attempts
        /\ run'.lastResult = run.lastResult /\ run'.phase = run.phase /\ run'.failed = run.failed
        /\ run'.restoreName = run.restoreName
    <3>1. 0 \in 0..MaxAttempts
      BY ConstantsAssumption DEF MaxAttempts
    <3> QED BY <1>3, <3>1 DEF IInv, TypeOK, RunType
  <2>2. seed \in Specs /\ seed # NoSpec /\ run.attempts \in Nat
    <3>1. seed \in Specs /\ seed # NoSpec
      BY <1>3 DEF IInv, SeedInv, TypeOK
    <3>2. run.attempts \in 0..MaxAttempts
      BY DEF IInv, TypeOK, RunType
    <3> QED BY <3>1, <3>2
  <2>3. run.attempts <= seed.backoffLimit
    BY <1>3, <2>2, ConstantsAssumption DEF retryBudgetExhausted, SpecType
  <2>4. TypeOK'
    BY <1>3, <2>1 DEF apiVars, IInv, TypeOK
  <2>5. SeedInv' /\ FailInv' /\ BudgetInv'
    BY <1>3, <2>1, <2>2, <2>3 DEF apiVars, IInv, SeedInv, FailInv, BudgetInv
  <2>6. RestoreInv' /\ PointerInv'
    BY <1>3, <2>1 DEF apiVars, IInv, RestoreInv, PointerInv
  <2>7. JobInv'
    <3>1. run.jobName \in Attempts /\ pods[run.jobName] # "active"
      BY <1>3, JobNameType DEF IInv, JobInv
    <3>2. \A k \in Attempts : pods[k] # "active"
      BY <3>1 DEF IInv, JobInv
    <3>3. data # "anonymized"
      BY <1>3 DEF IInv, JobInv
    <3> QED BY <1>3, <2>1, <3>2, <3>3 DEF apiVars, IInv, JobInv
  <2>8. (Clean => Clean') /\ (OutputAllowed => OutputAllowed')
    BY <1>3, <2>1 DEF Clean, OutputAllowed, apiVars
  <2>9. DataInv'
    BY <1>3, <2>1, <2>8 DEF IInv, DataInv, apiVars
  <2> QED BY <2>4, <2>5, <2>6, <2>7, <2>9 DEF IInv
<1> QED BY <1>1, <1>2, <1>3 DEF retryRunAttempt, patchRun, Pipeline

LEMMA InvFinish ==
    ASSUME IInv, finishRunAttempt, UNCHANGED <<cache, expired, budget>>
    PROVE  IInv'
<1> DEFINE k == run.jobName
<1>1. CASE failRun(SeenRun)
  BY <1>1, FailStep
<1>2. CASE ~failRun(SeenRun)
  <2>1. /\ SeenRun = run /\ run.phase = "Anonymizing" /\ ~run.failed /\ k # 0
        /\ run.lastResult = "none" /\ UNCHANGED apiVars
        /\ \/ SeenPod(k) = "transient" /\ run' = [run EXCEPT !.lastResult = "transient"]
           \/ SeenPod(k) = "ok" /\ run' = attemptSucceeded(run)
    BY <1>2 DEF finishRunAttempt, attemptTimedOut, jobVanished, unreported, patchRun, Pipeline
  <2>2. k \in Attempts
    BY <2>1, JobNameType DEF IInv
  <2>3. SeenPod(k) \in {pods[k], cache.pods[k]}
    BY DEF SeenPod
  <2>4. seed \in Specs /\ seed # NoSpec
    BY <2>1 DEF IInv, SeedInv, TypeOK
  <2>5. CASE SeenPod(k) = "transient" /\ run' = [run EXCEPT !.lastResult = "transient"]
    <3>1. /\ run' \in RunType /\ run'.lastResult = "transient" /\ run'.jobName = run.jobName
          /\ run'.attempts = run.attempts /\ run'.phase = run.phase /\ run'.failed = run.failed
          /\ run'.restoreName = run.restoreName
      BY <2>5 DEF IInv, TypeOK, RunType
    <3>2. pods[k] \in {"transient", "deleted"}
      BY <2>2, <2>3, <2>5 DEF IInv, JobInv, Ended
    <3>3. data # "anonymized"
      BY <2>2, <2>3, <2>5 DEF IInv, JobInv
    <3>4. TypeOK'
      BY <2>1, <3>1 DEF apiVars, IInv, TypeOK
    <3>5. SeedInv' /\ FailInv' /\ BudgetInv' /\ RestoreInv' /\ PointerInv'
      BY <2>1, <3>1 DEF apiVars, IInv, SeedInv, FailInv, BudgetInv, RestoreInv, PointerInv
    <3>6. JobInv'
      BY <2>1, <3>1, <3>2, <3>3 DEF apiVars, IInv, JobInv
    <3>7. (Clean => Clean') /\ (OutputAllowed => OutputAllowed')
      BY <2>1, <3>1 DEF Clean, OutputAllowed, apiVars
    <3>8. DataInv'
      BY <2>1, <3>1, <3>7 DEF IInv, DataInv, apiVars
    <3> QED BY <3>4, <3>5, <3>6, <3>8 DEF IInv
  <2>6. CASE SeenPod(k) = "ok" /\ run' = attemptSucceeded(run)
    <3>1. CASE seed.dryRun
      <4>1. run' = [run EXCEPT !.phase = "CleaningUp", !.published = "True"]
        BY <2>6, <3>1 DEF attemptSucceeded
      <4>2. run' \in RunType /\ SameAttempt /\ run'.phase = "CleaningUp" /\ run'.failed = run.failed
        BY <4>1, ZenonT(40) DEF IInv, TypeOK, RunType, Phases, SameAttempt
      <4>3. Advance
        BY <2>1, <2>4, <3>1, <4>2 DEF Advance, apiVars, Early, Output
      <4> QED BY <4>3, AdvanceStep
    <3>2. CASE ~seed.dryRun
      <4>1. run' = [run EXCEPT !.phase = "BackingUp"]
        BY <2>6, <3>2 DEF attemptSucceeded
      <4>2. run' \in RunType /\ SameAttempt /\ run'.phase = "BackingUp" /\ run'.failed = run.failed
        BY <4>1 DEF IInv, TypeOK, RunType, Phases, SameAttempt
      <4>3. OutputAllowed
        BY <2>2, <2>3, <2>4, <2>6, <3>2 DEF OutputAllowed, IInv, DataInv
      <4>4. Advance
        BY <2>1, <2>4, <4>2, <4>3 DEF Advance, apiVars, Early, Output, OutputAllowed, Clean
      <4> QED BY <4>4, AdvanceStep
    <3> QED BY <3>1, <3>2
  <2> QED BY <2>1, <2>5, <2>6
<1> QED BY <1>1, <1>2

LEMMA InvBackup ==
    ASSUME IInv, backupRun, UNCHANGED <<cache, expired, budget>>
    PROVE  IInv'
<1>0. SeenRun.phase = "BackingUp" /\ OutputAllowed
  BY SeenRunIs DEF backupRun, Pipeline, IInv, DataInv, Output
<1>1. CASE failRun(SeenRun)
  BY <1>1, FailStep
<1>2. CASE run' = [run EXCEPT !.output = "named"] /\ UNCHANGED apiVars
  <2>1. run' \in RunType /\ SameAttempt /\ run'.phase = run.phase /\ run'.failed = run.failed
    BY <1>2 DEF IInv, TypeOK, RunType, SameAttempt
  <2> QED BY <1>2, <2>1, PatchStep
<1>3. CASE /\ SeenRun = run /\ ~run.failed
           /\ run' = [run EXCEPT !.output = "destination", !.phase = "Publishing", !.published = "False"]
           /\ UNCHANGED apiVars
  <2>1. run' \in RunType
    <3>1. "Publishing" \in Phases
      BY DEF Phases
    <3> QED BY <1>3, <3>1, ZenonT(40) DEF IInv, TypeOK, RunType
  <2>2. SameAttempt /\ run'.phase = "Publishing" /\ run'.failed = run.failed
    BY <1>3 DEF IInv, TypeOK, RunType, SameAttempt
  <2>3. Advance
    BY <1>0, <1>3, <2>1, <2>2 DEF Advance, apiVars, Early, Output, OutputAllowed, Clean
  <2> QED BY <2>3, AdvanceStep
<1>4. CASE /\ backup' = [st |-> "running", content |-> data]
           /\ UNCHANGED <<run, seed, cluster, users, generated, restore, jobs, pods, data, pointer>>
  <2>1. data \in {"anonymized", "empty"}
    BY <1>0 DEF OutputAllowed, Clean
  <2>2. /\ backup' \in BackupType /\ backup'.st = "running" /\ backup'.content = data
    BY <1>4, <2>1 DEF BackupType, Contents
  <2>3. TypeOK'
    BY <1>4, <2>2 DEF IInv, TypeOK
  <2>4. SeedInv' /\ FailInv' /\ BudgetInv' /\ RestoreInv' /\ PointerInv' /\ JobInv'
    <3>1. SeedInv' /\ FailInv' /\ RestoreInv' /\ PointerInv'
      BY <1>4 DEF IInv, SeedInv, FailInv, RestoreInv, PointerInv
    <3>2. BudgetInv'
      BY <1>4 DEF IInv, BudgetInv
    <3>3. JobInv'
      BY <1>4 DEF IInv, JobInv
    <3> QED BY <3>1, <3>2, <3>3
  <2>5. (Clean => Clean') /\ (OutputAllowed => OutputAllowed')
    BY <1>4 DEF Clean, OutputAllowed
  <2>6. DataInv'
    <3>1. data = "anonymized" \/ cluster.st = "absent"
      BY <1>0 DEF OutputAllowed, Clean
    <3> QED BY <1>0, <1>4, <2>2, <2>5, <3>1 DEF IInv, DataInv
  <2> QED BY <2>3, <2>4, <2>6 DEF IInv
<1> QED BY <1>1, <1>2, <1>3, <1>4, Zenon DEF backupRun, patchRun, Pipeline

LEMMA InvPublish ==
    ASSUME IInv, publishRun, UNCHANGED <<cache, expired, budget>>
    PROVE  IInv'
<1>0. SeenRun.phase = "Publishing" /\ OutputAllowed
  BY SeenRunIs DEF publishRun, Pipeline, IInv, DataInv, Output
<1>1. CASE failRun(SeenRun)
  BY <1>1, FailStep
<1>2. CASE /\ SeenRun = run /\ ~run.failed /\ ~seed.pointer
           /\ run' = [run EXCEPT !.phase = "Pruning", !.published = "True"] /\ UNCHANGED apiVars
  <2>1. run' \in RunType /\ SameAttempt /\ run'.phase = "Pruning" /\ run'.failed = run.failed
    BY <1>2, ZenonT(40) DEF IInv, TypeOK, RunType, Phases, SameAttempt
  <2>2. Advance
    BY <1>0, <1>2, <2>1 DEF Advance, apiVars, Early, Output, OutputAllowed, Clean
  <2> QED BY <2>2, AdvanceStep
<1> QED BY <1>1, <1>2, Zenon DEF publishRun, publishTimedOut, outputPointer, patchRun, Pipeline

LEMMA InvUpload ==
    ASSUME IInv, publishUpload, UNCHANGED <<cache, expired, budget>>
    PROVE  IInv'
<1>1. /\ SeenRun.phase = "Publishing" /\ seed.pointer /\ backup.st = "succeeded"
      /\ pointer' = backup.content
      /\ \/ UNCHANGED run
         \/ /\ run.phase = "Publishing" /\ ~run.failed
            /\ run' = [run EXCEPT !.phase = "Pruning", !.published = "True"]
      /\ UNCHANGED <<seed, cluster, users, generated, restore, jobs, pods, data, backup>>
  BY Zenon DEF publishUpload, outputPointer, patchRun, Pipeline
<1>2. OutputAllowed /\ seed # NoSpec
  BY <1>1, SeenRunIs DEF IInv, DataInv, Output, OutputAllowed
<1>4. pointer' = "anonymized"
  BY <1>1 DEF IInv, DataInv
<1>5. /\ run' \in RunType /\ SameAttempt /\ run'.failed = run.failed
      /\ run'.phase = run.phase \/ (run.phase = "Publishing" /\ run'.phase = "Pruning" /\ ~run.failed)
  <2>1. CASE UNCHANGED run
    BY <2>1 DEF IInv, TypeOK, SameAttempt
  <2>2. CASE run' = [run EXCEPT !.phase = "Pruning", !.published = "True"]
    <3>1. /\ run' \in RunType /\ SameAttempt /\ run'.failed = run.failed
          /\ run'.phase = "Pruning"
      BY <2>2, ZenonT(40) DEF IInv, TypeOK, RunType, Phases, SameAttempt
    <3>2. CASE UNCHANGED run
      BY <3>2, <2>1
    <3>3. CASE run.phase = "Publishing" /\ ~run.failed
      BY <3>1, <3>3
    <3> QED BY <1>1, <3>2, <3>3
  <2> QED BY <1>1, <2>1, <2>2
<1>6. TypeOK'
  BY <1>1, <1>4, <1>5 DEF IInv, TypeOK, Contents
<1>7. SeedInv' /\ FailInv' /\ BudgetInv' /\ JobInv'
  <2>1. SeedInv' /\ FailInv'
    BY <1>1, <1>2, <1>5 DEF IInv, SeedInv, FailInv
  <2>2. BudgetInv'
    BY <1>1, <1>5 DEF IInv, BudgetInv, SameAttempt
  <2>3. JobInv'
    BY <1>1, <1>5 DEF IInv, JobInv, SameAttempt
  <2> QED BY <2>1, <2>2, <2>3
<1>8. RestoreInv'
  BY <1>1, <1>5 DEF IInv, RestoreInv, SameAttempt, Output, Early
<1>9. (Clean => Clean') /\ (OutputAllowed => OutputAllowed')
  BY <1>1, <1>5 DEF Clean, OutputAllowed, SameAttempt, Early
<1>10. DataInv'
  BY <1>1, <1>2, <1>9 DEF IInv, DataInv
<1>11. PointerInv'
  BY <1>1, <1>2, <1>4 DEF IInv, PointerInv
<1> QED BY <1>6, <1>7, <1>8, <1>10, <1>11 DEF IInv

LEMMA InvPrune ==
    ASSUME IInv, pruneRun, UNCHANGED <<cache, expired, budget>>
    PROVE  IInv'
<1>1. /\ run.phase = "Pruning" /\ ~run.failed
      /\ run' = [run EXCEPT !.phase = "CleaningUp"] /\ UNCHANGED apiVars
  BY DEF pruneRun, patchRun, Pipeline
<1>2. run' \in RunType /\ SameAttempt /\ run'.phase = "CleaningUp" /\ run'.failed = run.failed
  BY <1>1 DEF IInv, TypeOK, RunType, Phases, SameAttempt
<1>3. Advance
  BY <1>1, <1>2 DEF Advance, apiVars, Early, Output, IInv, SeedInv, PointerInv
<1> QED BY <1>3, AdvanceStep

-----------------------------------------------------------------------------
(* Cleanup                                                                 *)

LEMMA InvCleanupCluster ==
    ASSUME IInv, NEW r, cleanupRunCluster(r), UNCHANGED <<cache, expired, budget>>
    PROVE  IInv'
<1>1. /\ UNCHANGED <<seed, users, generated, restore, jobs, pods, data, backup, pointer>>
      /\ \/ run' = [run EXCEPT !.uid = cluster.uid]
         \/ run' = [run EXCEPT !.cleaned = "False"]
         \/ UNCHANGED run
  BY DEF cleanupRunCluster, patchRun
<1>2. /\ cluster' \in ClusterType /\ (cluster.st = "absent" => cluster'.st = "absent")
  <2>1. \/ UNCHANGED cluster
        \/ cluster.st # "absent" /\ cluster' = [cluster EXCEPT !.st = "deleting"]
    BY DEF cleanupRunCluster
  <2> QED BY <2>1 DEF IInv, TypeOK, ClusterType
<1>3. cluster.uid \in Nat
  BY DEF IInv, TypeOK, ClusterType
<1>4. run' \in RunType /\ SameAttempt /\ run'.phase = run.phase /\ run'.failed = run.failed
  <2>1. CASE run' = [run EXCEPT !.uid = cluster.uid]
    BY <1>3, <2>1 DEF IInv, TypeOK, RunType, SameAttempt
  <2>2. CASE run' = [run EXCEPT !.cleaned = "False"]
    BY <2>2 DEF IInv, TypeOK, RunType, SameAttempt
  <2>3. CASE UNCHANGED run
    BY <2>3 DEF IInv, TypeOK, SameAttempt
  <2> QED BY <1>1, <2>1, <2>2, <2>3
<1>5. Benign
  BY <1>1, <1>2, <1>4 DEF Benign, SecretsTyped, IInv, TypeOK, FailInv
<1> QED BY <1>5, BenignStep

LEMMA InvCleanupDone ==
    ASSUME IInv, NEW r, NEW deleting, cleanupDone(r, deleting), UNCHANGED <<cache, expired, budget>>,
           deleting \/ r.failed \/ r.phase = "CleaningUp"
    PROVE  IInv'
<1>1. /\ r = run /\ UNCHANGED apiVars
      /\ \/ (deleting \/ run.failed) /\ run' = [run EXCEPT !.cleaned = "True", !.phase = run.phase]
         \/ ~run.failed /\ run.phase = "CleaningUp" /\ run' = [run EXCEPT !.cleaned = "True", !.phase = "Completed"]
         \/ run' = [run EXCEPT !.finalizer = FALSE, !.alive = FALSE]
  BY Zenon DEF cleanupDone, patchRun
<1>2. CASE run' = [run EXCEPT !.cleaned = "True", !.phase = run.phase]
  <2>1. run' \in RunType /\ SameAttempt /\ run'.phase = run.phase /\ run'.failed = run.failed
    BY <1>2, ZenonT(40) DEF IInv, TypeOK, RunType, SameAttempt
  <2> QED BY <1>1, <2>1, PatchStep
<1>3. CASE ~run.failed /\ run.phase = "CleaningUp" /\ run' = [run EXCEPT !.cleaned = "True", !.phase = "Completed"]
  <2>1. run' \in RunType /\ SameAttempt /\ run'.phase = "Completed" /\ run'.failed = run.failed
    BY <1>3, ZenonT(40) DEF IInv, TypeOK, RunType, Phases, SameAttempt
  <2>2. Advance
    BY <1>1, <1>3, <2>1 DEF Advance, apiVars, Early, Output, IInv, SeedInv, PointerInv
  <2> QED BY <2>2, AdvanceStep
<1>4. CASE run' = [run EXCEPT !.finalizer = FALSE, !.alive = FALSE]
  <2>1. run' \in RunType /\ SameAttempt /\ run'.phase = run.phase /\ run'.failed = run.failed
    BY <1>4, ZenonT(40) DEF IInv, TypeOK, RunType, SameAttempt
  <2> QED BY <1>1, <2>1, PatchStep
<1> QED BY <1>1, <1>2, <1>3, <1>4

LEMMA InvCleanup ==
    ASSUME IInv, NEW r \in {run, cache.run}, NEW spec, NEW deleting, cleanupRun(r, spec, deleting),
           UNCHANGED <<cache, expired, budget>>, deleting \/ r.failed \/ r.phase = "CleaningUp"
    PROVE  IInv'
<1>1. CASE /\ r.jobName # 0 /\ deleteJob(r.jobName)
           /\ UNCHANGED <<run, seed, cluster, users, generated, restore, pods, data, backup, pointer>>
  <2>1. r.jobName \in Attempts
    BY <1>1, JobNameType DEF IInv
  <2> QED BY <1>1, <2>1, DeleteJobStep DEF deleteJob, IInv, TypeOK
<1>2. CASE run' = [run EXCEPT !.retained = TRUE] /\ UNCHANGED apiVars
  <2>1. run' \in RunType /\ SameAttempt /\ run'.phase = run.phase /\ run'.failed = run.failed
    BY <1>2, Zenon DEF IInv, TypeOK, RunType, SameAttempt
  <2> QED BY <1>2, <2>1, PatchStep
<1>3. CASE cleanupRunCluster(r)
  BY <1>3, InvCleanupCluster
<1>4. CASE /\ \/ users' = "deleting" /\ UNCHANGED generated
              \/ deleteRunGeneratedSecrets(r) /\ UNCHANGED users
           /\ UNCHANGED <<run, seed, cluster, restore, jobs, pods, data, backup, pointer>>
  <2>1. SecretsTyped
    BY <1>4, SMTT(30) DEF SecretsTyped, deleteRunGeneratedSecrets, SecretStates, SecretType, IInv, TypeOK
  <2>2. Benign
    BY <1>4, <2>1, ZenonT(40) DEF Benign, SameAttempt, IInv, TypeOK, FailInv
  <2> QED BY <2>2, BenignStep
<1>5. CASE cleanupDone(r, deleting)
  BY <1>5, InvCleanupDone
<1> QED BY <1>1, <1>2, <1>3, <1>4, <1>5, Zenon DEF cleanupRun, patchRun

\* Every reconciliation preserves the invariant.
LEMMA InvReconcile == ASSUME IInv, Reconcile PROVE IInv'
<1>1. CASE finishRun \/ cleanupFailed \/ cleanupDeleting
  <2>1. \E spec, deleting : cleanupRun(SeenRun, spec, deleting)
           /\ (deleting \/ SeenRun.failed \/ SeenRun.phase = "CleaningUp")
    BY <1>1, Zenon DEF finishRun, cleanupFailed, cleanupDeleting, Pipeline
  <2> QED BY <2>1, InvCleanup, SeenRunIs DEF Reconcile
<1>2. CASE loadRunSnapshotFails
  BY <1>2, FailStep DEF loadRunSnapshotFails, Reconcile
<1> QED BY SMTT(20), <1>1, <1>2, InvStart, InvResolve, InvProvisionCreate, InvProvision, InvRestore, InvAttempt,
           InvRetry, InvFinish, InvBackup, InvPublish, InvUpload, InvPrune DEF Reconcile

-----------------------------------------------------------------------------
(* The rest of the world                                                   *)

LEMMA InvSync == ASSUME IInv, Sync PROVE IInv'
<1>1. UNCHANGED <<run, seed, cluster, users, generated, restore, jobs, pods, data, backup, pointer, expired, budget>>
  BY DEF Sync
<1>2. /\ cache' \in [run : RunType, jobs : [Attempts -> JobType], pods : [Attempts -> PodType]]
      /\ cache'.run \in {cache.run, run} /\ cache'.pods \in {cache.pods, pods}
  BY DEF Sync, IInv, TypeOK
<1>3. TypeOK'
  BY <1>1, <1>2 DEF IInv, TypeOK
<1>4. SeedInv' /\ BudgetInv' /\ FailInv' /\ RestoreInv' /\ PointerInv'
  BY <1>1, <1>2 DEF IInv, SeedInv, BudgetInv, FailInv, RestoreInv, PointerInv
<1>5. JobInv'
  BY <1>1, <1>2 DEF IInv, JobInv
<1>6. (Clean' <=> Clean) /\ (OutputAllowed' <=> OutputAllowed)
  BY <1>1 DEF Clean, OutputAllowed
<1>7. DataInv'
  <2>1. \A r \in {run', cache'.run} : r.phase \in Output => OutputAllowed'
    BY <1>1, <1>2, <1>6 DEF IInv, DataInv
  <2>2. \A k \in Attempts : "ok" \in {pods'[k], cache'.pods[k]} /\ ~seed'.dryRun => Clean'
    BY <1>1, <1>2, <1>6 DEF IInv, DataInv
  <2>3. /\ backup'.st # "none" => OutputAllowed'
        /\ backup'.st = "running" => backup'.content = "anonymized" \/ cluster'.st = "absent"
        /\ backup'.st = "succeeded" => backup'.content = "anonymized"
    BY <1>1, <1>6 DEF IInv, DataInv
  <2> QED BY <2>1, <2>2, <2>3 DEF DataInv
<1> QED BY <1>3, <1>4, <1>5, <1>7 DEF IInv

\* Deadlines, deletions and the ends of children that carry no data.
LEMMA InvWorldBenign ==
    ASSUME IInv, \/ DeadlinePasses \/ ClusterProgress \/ ClusterGone \/ SecretGone
                 \/ UserDeletes \/ UserEdits \/ ForeignDelete \/ GarbageCollect
                 \/ \E k \in Attempts : PodGone(k) \/ JobGone(k)
    PROVE  IInv'
<1>1. CASE DeadlinePasses
  <2>1. expired' \subseteq Timers
    <3>1. PICK r \in {run, SeenRun} : expired' = expired \cup {Timer(r)}
      BY <1>1 DEF DeadlinePasses
    <3>2. r \in RunType
      BY SeenRunIs DEF IInv, TypeOK
    <3>3. Timer(r) \in Timers
      BY <3>2 DEF Timer, Timers, RunType
    <3> QED BY <3>1, <3>3 DEF IInv, TypeOK
  <2>2. Benign
    BY <1>1, <2>1 DEF DeadlinePasses, Benign, SameAttempt, SecretsTyped, IInv, TypeOK, FailInv
  <2> QED BY <2>2, BenignStep
<1>2. CASE ClusterProgress \/ ClusterGone
  <2>1. /\ cluster' \in ClusterType /\ cluster.st # "absent"
        /\ data' = data \/ (data' = "empty" /\ cluster'.st = "absent")
    BY <1>2 DEF ClusterProgress, ClusterGone, IInv, TypeOK, ClusterType
  <2>2. SecretsTyped
    BY <1>2, <2>1, SMTT(30) DEF ClusterProgress, ClusterGone, SecretsTyped, SecretStates, SecretType,
                      ClusterType, IInv, TypeOK
  <2>3. Benign
    BY <1>2, <2>1, <2>2 DEF ClusterProgress, ClusterGone, Benign, SameAttempt, IInv, TypeOK, FailInv
  <2> QED BY <2>3, BenignStep
<1>3. CASE UserDeletes \/ UserEdits
  <2>1. run' \in RunType /\ SameAttempt /\ run'.phase = run.phase /\ run'.failed = run.failed
    <3>1. CASE run' = [run EXCEPT !.deleting = TRUE, !.alive = run.finalizer]
      BY <3>1, ZenonT(40) DEF IInv, TypeOK, RunType, SameAttempt
    <3>2. CASE \E s \in Specs : run' = [run EXCEPT !.spec = s]
      BY <3>2 DEF IInv, TypeOK, RunType, SameAttempt
    <3> QED BY <1>3, <3>1, <3>2 DEF UserDeletes, UserEdits
  <2>2. budget' \in 0..MaxDisturb
    BY <1>3, ConstantsAssumption DEF UserDeletes, UserEdits, IInv, TypeOK
  <2>3. Benign
    BY <1>3, <2>1, <2>2 DEF UserDeletes, UserEdits, Benign, SecretsTyped, IInv, TypeOK, FailInv
  <2> QED BY <2>3, BenignStep
<1>4. CASE ForeignDelete \/ GarbageCollect
  <2>1. budget' \in 0..MaxDisturb
    <3>1. MaxDisturb \in Nat /\ budget \in 0..MaxDisturb
      BY ConstantsAssumption DEF IInv, TypeOK
    <3>2. budget' = budget \/ (budget > 0 /\ budget' = budget - 1)
      BY <1>4 DEF ForeignDelete, GarbageCollect
    <3> QED BY ONLY <3>1, <3>2
  <2>2. /\ cluster' \in ClusterType /\ (cluster.st = "absent" => cluster'.st = "absent")
        /\ backup' \in {backup, NoBackup}
        /\ restore' = restore \/ (restore # "none" /\ restore' = "deleted")
    BY <1>4, Zenon DEF ForeignDelete, GarbageCollect, IInv, TypeOK, ClusterType
  <2>3. SecretsTyped
    BY <1>4 DEF ForeignDelete, GarbageCollect, SecretsTyped, SecretStates, IInv, TypeOK
  <2>4. /\ jobs' \in [Attempts -> JobType]
        /\ \A j \in Attempts : jobs'[j] = jobs[j] \/ (jobs[j] # "none" /\ jobs'[j] # "none")
    <3>1. CASE UNCHANGED jobs
      BY <3>1 DEF IInv, TypeOK
    <3>2. ASSUME NEW k \in Attempts, NEW st \in {"deleting", "deleted"}, Exists(jobs[k]),
                 jobs' = [jobs EXCEPT ![k] = st]
          PROVE  /\ jobs' \in [Attempts -> JobType]
                 /\ \A j \in Attempts : jobs'[j] = jobs[j] \/ (jobs[j] # "none" /\ jobs'[j] # "none")
      BY <3>2, SMTT(20) DEF Exists, IInv, TypeOK, JobType
    <3> QED BY <1>4, <3>1, <3>2 DEF ForeignDelete, GarbageCollect, Exists
  <2>5. Benign
    BY <1>4, <2>1, <2>2, <2>3, <2>4
       DEF ForeignDelete, GarbageCollect, Benign, SameAttempt, IInv, TypeOK, FailInv
  <2> QED BY <2>5, BenignStep
<1>5. ASSUME NEW k \in Attempts, PodGone(k) \/ JobGone(k) PROVE IInv'
  <2>1. /\ jobs' \in [Attempts -> JobType] /\ pods' \in [Attempts -> PodType]
        /\ jobs[k] # "none" /\ jobs'[k] \in {jobs[k], "deleted"} /\ pods'[k] \in {pods[k], "deleted"}
        /\ \A j \in Attempts \ {k} : jobs'[j] = jobs[j] /\ pods'[j] = pods[j]
    BY <1>5, SMTT(20) DEF PodGone, JobGone, IInv, TypeOK, JobType, PodType
  <2>2. Benign
    BY <1>5, <2>1 DEF PodGone, JobGone, Benign, SameAttempt, SecretsTyped, IInv, TypeOK, FailInv
  <2> QED BY <2>2, BenignStep
<1>6. CASE SecretGone
  <2>1. SecretsTyped
    BY <1>6, SMTT(20) DEF SecretGone, SecretsTyped, NoSecret, SecretStates, SecretType, IInv, TypeOK
  <2>2. Benign
    BY <1>6, <2>1 DEF SecretGone, Benign, SameAttempt, IInv, TypeOK, FailInv
  <2> QED BY <2>2, BenignStep
<1> QED BY <1>1, <1>2, <1>3, <1>4, <1>5, <1>6

LEMMA InvRestoreEnds == ASSUME IInv, RestoreEnds PROVE IInv'
<1>0. restore = "running" /\ ~Clean
  BY DEF RestoreEnds, Clean
<1>1. CASE restore' = "failed" /\ UNCHANGED data
  <2>1. Benign
    BY <1>0, <1>1 DEF RestoreEnds, Benign, SameAttempt, SecretsTyped, IInv, TypeOK, FailInv
  <2> QED BY <2>1, BenignStep
<1>2. CASE restore' = "succeeded" /\ data' = "source"
  <2>1. UNCHANGED <<run, cache, seed, cluster, users, generated, jobs, pods, backup, pointer, expired, budget>>
    BY DEF RestoreEnds
  <2>2. TypeOK'
    BY <1>2, <2>1 DEF IInv, TypeOK, Contents
  <2>3. SeedInv' /\ BudgetInv' /\ FailInv' /\ PointerInv' /\ JobInv'
    <3>1. SeedInv' /\ FailInv' /\ PointerInv'
      BY <2>1 DEF IInv, SeedInv, FailInv, PointerInv
    <3>2. BudgetInv'
      BY <2>1 DEF IInv, BudgetInv
    <3>3. JobInv'
      BY <1>2, <2>1 DEF IInv, JobInv
    <3> QED BY <3>1, <3>2, <3>3
  <2>4. RestoreInv'
    BY <1>0, <1>2, <2>1 DEF IInv, RestoreInv
  <2>5. DataInv'
    BY <1>0, <2>1 DEF IInv, DataInv, OutputAllowed
  <2> QED BY <2>2, <2>3, <2>4, <2>5 DEF IInv
<1> QED BY <1>1, <1>2 DEF RestoreEnds

LEMMA InvBackupEnds == ASSUME IInv, BackupEnds PROVE IInv'
<1>1. /\ backup.st = "running" /\ OutputAllowed
      /\ cluster.st # "absent" => backup.content = "anonymized" /\ data = "anonymized"
      /\ UNCHANGED <<run, cache, seed, cluster, users, generated, restore, jobs, pods, data, pointer,
                     expired, budget>>
  BY DEF BackupEnds, IInv, DataInv, OutputAllowed, Clean
<1>2. /\ backup' \in BackupType /\ backup'.st \in {"succeeded", "failed"}
      /\ backup'.st = "succeeded" => cluster.st # "absent" /\ backup'.content \in {backup.content, data}
  BY <1>1 DEF BackupEnds, IInv, TypeOK, BackupType
<1>3. TypeOK'
  BY <1>1, <1>2 DEF IInv, TypeOK
<1>4. SeedInv' /\ BudgetInv' /\ FailInv' /\ RestoreInv' /\ PointerInv' /\ JobInv'
  <2>1. SeedInv' /\ FailInv' /\ RestoreInv' /\ PointerInv'
    BY <1>1 DEF IInv, SeedInv, FailInv, RestoreInv, PointerInv
  <2>2. BudgetInv'
    BY <1>1 DEF IInv, BudgetInv
  <2>3. JobInv'
    BY <1>1 DEF IInv, JobInv
  <2> QED BY <2>1, <2>2, <2>3
<1>5. (Clean => Clean') /\ (OutputAllowed => OutputAllowed')
  BY <1>1, SMTT(20) DEF Clean, OutputAllowed
<1>6. DataInv'
  BY <1>1, <1>2, <1>5 DEF IInv, DataInv
<1> QED BY <1>3, <1>4, <1>6 DEF IInv

\* An active runner works for the attempt that the status names.
LEMMA ActiveRunner ==
    ASSUME IInv, NEW k \in Attempts, pods[k] = "active"
    PROVE  /\ k = run.jobName /\ run.jobName # 0 /\ run.attempts # 0 /\ run.lastResult = "none"
           /\ data # "anonymized"
           /\ cache.pods[k] \notin Ended
           /\ run.restoreName /\ restore # "running" /\ run.phase \notin Early
<1>1. k = run.jobName /\ k # 0 /\ run.attempts # 0
  <2>1. k = run.jobName /\ run.jobName \in {0, run.attempts}
    BY DEF IInv, JobInv, BudgetInv
  <2>2. k # 0
    BY ONLY k \in Attempts, ConstantsAssumption DEF Attempts, MaxAttempts
  <2> QED BY ONLY <2>1, <2>2
<1>2. run.lastResult = "none"
  BY <1>1 DEF IInv, JobInv, TypeOK, RunType
<1>3. data # "anonymized" /\ cache.pods[k] \notin Ended
  BY <1>1 DEF IInv, JobInv, Ended
<1> QED BY <1>1, <1>2, <1>3 DEF IInv, RestoreInv

LEMMA InvRunnerWrites == ASSUME IInv, NEW k \in Attempts, RunnerWrites(k) PROVE IInv'
<1>1. /\ data = "source" /\ data' = "partial" /\ ~Clean
      /\ UNCHANGED <<run, cache, seed, cluster, users, generated, restore, jobs, pods, backup, pointer, expired, budget>>
  BY DEF RunnerWrites, Clean
<1>2. TypeOK'
  BY <1>1 DEF IInv, TypeOK, Contents
<1>3. SeedInv' /\ BudgetInv' /\ FailInv' /\ RestoreInv'
  BY <1>1 DEF IInv, SeedInv, BudgetInv, FailInv, RestoreInv
<1>4. PointerInv'
  BY <1>1 DEF IInv, PointerInv
<1>5. JobInv'
  BY <1>1, SMTT(20) DEF IInv, JobInv
<1>6. DataInv'
  BY <1>1 DEF IInv, DataInv, OutputAllowed
<1> QED BY <1>2, <1>3, <1>4, <1>5, <1>6 DEF IInv

LEMMA InvRunnerEnds == ASSUME IInv, NEW k \in Attempts, RunnerEnds(k) PROVE IInv'
<1>1. /\ pods[k] = "active"
      /\ UNCHANGED <<run, cache, seed, cluster, users, generated, restore, jobs, backup, pointer,
                     expired, budget>>
      /\ data' = data \/ data' = "anonymized"
  BY DEF RunnerEnds
<1>2. /\ k = run.jobName /\ run.jobName # 0 /\ run.attempts # 0 /\ run.lastResult = "none"
      /\ data # "anonymized" /\ cache.pods[k] \notin Ended
      /\ run.restoreName /\ restore # "running" /\ run.phase \notin Early
  BY <1>1, ActiveRunner
<1>3. /\ pods' \in [Attempts -> PodType] /\ pods'[k] \in Ended
      /\ \A j \in Attempts \ {k} : pods'[j] = pods[j]
  <2>1. PICK st \in Ended : pods' = [pods EXCEPT ![k] = st]
    BY DEF RunnerEnds, Ended
  <2> QED BY <2>1 DEF IInv, TypeOK, PodType
<1>4. /\ pods'[k] = "transient" => data' = data
      /\ pods'[k] = "ok" /\ ~seed.dryRun => data' = "anonymized"
  BY DEF RunnerEnds, IInv, TypeOK, PodType
<1>5. TypeOK'
  BY <1>1, <1>3 DEF IInv, TypeOK, Contents
<1>6. SeedInv' /\ BudgetInv' /\ FailInv' /\ RestoreInv' /\ PointerInv'
  <2>1. SeedInv' /\ FailInv' /\ RestoreInv'
    BY <1>1 DEF IInv, SeedInv, FailInv, RestoreInv
  <2>2. BudgetInv'
    BY <1>1 DEF IInv, BudgetInv
  <2>3. PointerInv'
    BY <1>1 DEF IInv, PointerInv
  <2> QED BY <2>1, <2>2, <2>3, SMTT(20)
<1>7. JobInv'
  <2>1. \A j \in Attempts :
          /\ jobs[j] # "none" <=> pods'[j] # "none"
          /\ pods'[j] # "none" => j <= run.attempts
          /\ pods'[j] = "active" => j = run.jobName
          /\ cache.pods[j] \in Ended => pods'[j] \in {cache.pods[j], "deleted"}
    BY <1>1, <1>2, <1>3 DEF IInv, JobInv, Ended
  <2>2. data' = "anonymized" =>
          /\ pods'[run.jobName] \notin {"none", "active", "transient"}
          /\ cache.pods[run.jobName] # "transient"
    BY <1>2, <1>3, <1>4 DEF Ended
  <2> QED BY <1>1, <1>2, <2>1, <2>2, SMTT(20) DEF JobInv
<1>8. data' = "anonymized" => Clean'
  BY <1>1, <1>2 DEF Clean
<1>9. (Clean => Clean') /\ (OutputAllowed => OutputAllowed')
  BY <1>1, <1>8, SMTT(20) DEF Clean, OutputAllowed
<1>10. DataInv'
  <2>1. \A j \in Attempts : "ok" \in {pods'[j], cache.pods[j]} /\ ~seed.dryRun => Clean'
    BY <1>2, <1>3, <1>4, <1>8, <1>9 DEF IInv, DataInv, Ended
  <2> QED BY <1>1, <1>9, <2>1 DEF IInv, DataInv
<1> QED BY <1>5, <1>6, <1>7, <1>10 DEF IInv

-----------------------------------------------------------------------------
(* Theorems                                                                *)

LEMMA InvInit == Init => IInv
<1> SUFFICES ASSUME Init PROVE IInv
  OBVIOUS
<1>0. PICK s \in Specs : run = NewRun(s)
  BY DEF Init
<1>1. /\ run \in RunType /\ run.phase = "" /\ ~run.failed /\ ~run.restoreName
      /\ run.attempts = 0 /\ run.jobName = 0 /\ run.lastResult = "none"
  <2>1. 0 \in 0..MaxAttempts /\ "" \in Phases
    BY ConstantsAssumption DEF MaxAttempts, Phases
  <2> QED BY <1>0, <2>1 DEF NewRun, RunType
<1>2. /\ jobs = [k \in Attempts |-> "none"] /\ pods = [k \in Attempts |-> "none"]
      /\ cache.run = run /\ cache.jobs = jobs /\ cache.pods = pods
      /\ cache = [run |-> run, jobs |-> jobs, pods |-> pods]
  BY DEF Init
<1>3. TypeOK
  <2>1. cluster \in ClusterType /\ backup \in BackupType
    BY DEF Init, NoCluster, ClusterType, NoBackup, BackupType, Contents
  <2>2. budget \in 0..MaxDisturb
    BY ConstantsAssumption DEF Init
  <2>3. users \in SecretStates /\ generated \in [Generated -> SecretType]
    BY DEF Init, NoSecret, SecretStates, SecretType
  <2>4. jobs \in [Attempts -> JobType] /\ pods \in [Attempts -> PodType]
    BY <1>2 DEF JobType, PodType
  <2>5. cache \in [run : RunType, jobs : [Attempts -> JobType], pods : [Attempts -> PodType]]
    BY <1>1, <1>2, <2>4
  <2> QED BY <1>1, <2>1, <2>2, <2>3, <2>4, <2>5 DEF Init, TypeOK, Contents
<1>4. SeedInv /\ BudgetInv /\ FailInv /\ RestoreInv
  BY <1>1, <1>2 DEF Init, SeedInv, BudgetInv, FailInv, RestoreInv, Output
<1>5. JobInv
  BY <1>1, <1>2 DEF Init, JobInv, Ended
<1>6. DataInv
  <2>1. \A r \in {run, cache.run} : r.phase \notin Output
    BY <1>1, <1>2 DEF Output
  <2>2. \A k \in Attempts : "ok" \notin {pods[k], cache.pods[k]}
    BY <1>2
  <2>3. backup.st = "none"
    BY DEF Init, NoBackup
  <2>4. \A r \in {run, cache.run} : r.phase \in Output => OutputAllowed
    BY ONLY <2>1
  <2>5. \A k \in Attempts : "ok" \in {pods[k], cache.pods[k]} /\ ~seed.dryRun => Clean
    BY ONLY <2>2
  <2> QED BY ONLY <2>3, <2>4, <2>5 DEF DataInv
<1>7. PointerInv
  BY <1>1 DEF Init, PointerInv
<1> QED BY <1>3, <1>4, <1>5, <1>6, <1>7 DEF IInv

LEMMA InvNext == IInv /\ [Next]_vars => IInv'
<1> SUFFICES ASSUME IInv, [Next]_vars PROVE IInv'
  OBVIOUS
<1>1. CASE UNCHANGED vars
  <2>1. Benign
    BY <1>1 DEF vars, Benign, SameAttempt, SecretsTyped, IInv, TypeOK, FailInv
  <2> QED BY <2>1, BenignStep
<1>2. CASE Reconcile
  BY <1>2, InvReconcile
<1>3. CASE World
  BY <1>3, InvSync, InvWorldBenign, InvRestoreEnds, InvBackupEnds, InvRunnerWrites, InvRunnerEnds
     DEF World
<1> QED BY <1>1, <1>2, <1>3 DEF Next, Finished

\* The inductive invariant holds of every reachable state of the Run.
THEOREM Invariance == Spec => []IInv
  BY InvInit, InvNext, PTL DEF Spec

\* The objects keep their types; in particular no attempt is started beyond
\* the largest backoffLimit (startAttempt, retryRunAttempt).
THEOREM TypeCorrect == Spec => []TypeOK
  BY Invariance, PTL DEF IInv

\* Whatever lags and whatever is deleted, the stored pointer leads to completely
\* anonymized data or is the one that was there before (publishRun).
THEOREM PublicationSafe == Spec => []PublishedIsAnonymized
<1>1. IInv => PublishedIsAnonymized
  BY DEF IInv, PointerInv, PublishedIsAnonymized
<1> QED BY <1>1, Invariance, PTL

\* At most one runner works on the temporary database (startAttempt).
THEOREM OneRunner == Spec => []SingleRunner
<1>1. IInv => SingleRunner
  BY DEF IInv, JobInv, SingleRunner
<1> QED BY <1>1, Invariance, PTL

\* A dry run creates no backup and a Run without output pointer publishes
\* none, whatever the user edits later (backupRun, publishRun).
THEOREM OutputFrozen == Spec => []FrozenOutput
<1>1. IInv => FrozenOutput
  BY DEF IInv, DataInv, OutputAllowed, PointerInv, FrozenOutput
<1> QED BY <1>1, Invariance, PTL

\* No more Jobs are created than the frozen backoffLimit allows (retryRunAttempt).
THEOREM BoundedAttempts == Spec => []AttemptsBounded
<1>1. IInv => AttemptsBounded
  <2> SUFFICES ASSUME IInv, seed # NoSpec
               PROVE  Cardinality({k \in Attempts : jobs[k] # "none"}) <= seed.backoffLimit + 1
    BY DEF AttemptsBounded
  <2> DEFINE J == {k \in Attempts : jobs[k] # "none"}
  <2>1. seed.backoffLimit \in Nat
    <3>1. seed.backoffLimit \in 0..MaxBackoff /\ MaxBackoff \in Nat
      BY ConstantsAssumption DEF IInv, TypeOK, SpecType
    <3> QED BY ONLY <3>1
  <2>2. run.attempts \in Nat /\ run.attempts <= seed.backoffLimit + 1
    <3>1. run.attempts \in 0..MaxAttempts /\ run.attempts <= seed.backoffLimit + 1
      BY DEF IInv, BudgetInv, TypeOK, RunType
    <3> QED BY ONLY <3>1, ConstantsAssumption DEF MaxAttempts
  <2>3. J \subseteq 1..(seed.backoffLimit + 1)
    <3> SUFFICES ASSUME NEW k \in J PROVE k \in 1..(seed.backoffLimit + 1)
      OBVIOUS
    <3>1. k \in Nat /\ 1 <= k /\ k <= run.attempts
      <4>1. k \in Attempts /\ k <= run.attempts
        BY DEF IInv, JobInv
      <4> QED BY ONLY <4>1, ConstantsAssumption DEF Attempts, MaxAttempts
    <3> QED BY ONLY <2>1, <2>2, <3>1
  <2>4. /\ IsFiniteSet(1..(seed.backoffLimit + 1))
        /\ Cardinality(1..(seed.backoffLimit + 1)) = seed.backoffLimit + 1
    BY ONLY <2>1, FS_Interval
  <2> QED BY ONLY <2>3, <2>4, <2>1, FS_Subset
<1> QED BY <1>1, Invariance, PTL

\* Completed covers publication, whatever lags (publishRun, cleanupRun).
THEOREM CompletionPublished == Spec => []CompleteIsPublished
<1>1. IInv => CompleteIsPublished
  BY DEF IInv, PointerInv, CompleteIsPublished
<1> QED BY <1>1, Invariance, PTL

-----------------------------------------------------------------------------
(* Action properties                                                       *)

\* Which steps change the pods, and how.
LEMMA PodsChange ==
    ASSUME Next
    PROVE  \/ startAttempt
           \/ UNCHANGED pods
           \/ \E j, st : st # "active" /\ pods' = [pods EXCEPT ![j] = st]
<1>1. CASE Reconcile
  <2>1. CASE finishRun \/ cleanupFailed \/ cleanupDeleting
    <3>1. \E spec, deleting : cleanupRun(SeenRun, spec, deleting)
      BY <2>1, ZenonT(40) DEF finishRun, cleanupFailed, cleanupDeleting
    <3> QED BY <3>1 DEF cleanupRun, cleanupRunCluster, cleanupDone, apiVars
  <2>2. CASE startRun \/ resolveRun \/ loadRunSnapshotFails \/ provisionCreate \/ provisionRun \/ restoreRun
    BY <2>2 DEF startRun, resolveRun, loadRunSnapshotFails, provisionCreate, provisionRun, restoreRun,
                restoreVanished, failRun, apiVars
  <2>3. CASE retryRunAttempt
    BY <2>3 DEF retryRunAttempt, failRun, apiVars
  <2>4. CASE finishRunAttempt \/ backupRun \/ publishRun \/ publishUpload \/ pruneRun
    BY <2>4 DEF finishRunAttempt, attemptTimedOut, jobVanished, unreported, backupRun, publishRun,
                publishTimedOut, publishUpload, pruneRun, failRun, apiVars
  <2> QED BY <1>1, <2>1, <2>2, <2>3, <2>4, Zenon DEF Reconcile
<1>2. CASE World
  <2>1. ASSUME NEW k \in Attempts, RunnerEnds(k) \/ PodGone(k)
        PROVE  \E j, st : st # "active" /\ pods' = [pods EXCEPT ![j] = st]
    BY <2>1, ZenonT(40) DEF RunnerEnds, PodGone
  <2> QED BY <1>2, <2>1, SMTT(20) DEF World, Sync, DeadlinePasses, ClusterProgress, ClusterGone, SecretGone, RestoreEnds,
             BackupEnds, RunnerWrites, JobGone, UserDeletes, UserEdits, ForeignDelete, GarbageCollect
<1> QED BY <1>1, <1>2 DEF Next, Finished, vars

\* Only startAttempt starts a runner.
LEMMA RunnerStarted ==
    ASSUME TypeOK, [Next]_vars, NEW k \in Attempts, pods[k] # "active", pods'[k] = "active"
    PROVE  startAttempt
<1>1. CASE UNCHANGED pods
  BY <1>1
<1>2. ASSUME NEW j, NEW st, st # "active", pods' = [pods EXCEPT ![j] = st] PROVE FALSE
  BY <1>2 DEF TypeOK
<1> QED BY <1>1, <1>2, PodsChange DEF vars

\* A runner is started once per attempt, and never on data that a runner
\* finished without its progress record (anonymizeRun).
THEOREM NoAttemptReplayed == Spec => NoReplay
<1>1. ASSUME IInv, [Next]_vars
      PROVE  [\A k \in Attempts : pods[k] # "active" /\ pods'[k] = "active" =>
                 pods[k] = "none" /\ data # "anonymized"]_vars
  <2> SUFFICES ASSUME NEW k \in Attempts, pods[k] # "active", pods'[k] = "active"
               PROVE  pods[k] = "none" /\ data # "anonymized"
    OBVIOUS
  <2>1. startAttempt
    BY <1>1, RunnerStarted DEF IInv
  <2>2. /\ run.phase = "Anonymizing" /\ run.jobName = 0
        /\ UNCHANGED pods \/ pods' = [pods EXCEPT ![run.attempts + 1] = "active"]
    BY <2>1 DEF startAttempt, patchRun, Pipeline
  <2>3. k = run.attempts + 1
    BY <1>1, <2>2 DEF IInv, TypeOK
  <2> QED BY <1>1, <2>2, <2>3, BeforeAttempt
<1> QED BY <1>1, Invariance, PTL DEF Spec, NoReplay

\* Only restoreRun creates a restore, before its name is recorded.
LEMMA RestoreCreated ==
    ASSUME [Next]_vars, restore # "running", restore' = "running"
    PROVE  ~run.restoreName /\ ~run.failed
<1>1. CASE Reconcile
  <2>1. CASE finishRun \/ cleanupFailed \/ cleanupDeleting
    <3>1. \E spec, deleting : cleanupRun(SeenRun, spec, deleting)
      BY <2>1, Zenon DEF finishRun, cleanupFailed, cleanupDeleting
    <3> QED BY <3>1 DEF cleanupRun, cleanupRunCluster, cleanupDone, apiVars
  <2>2. CASE restoreRun
    BY <2>2 DEF restoreRun, restoreVanished, failRun, patchRun, Pipeline, apiVars
  <2>3. CASE startRun \/ resolveRun \/ loadRunSnapshotFails \/ provisionCreate \/ provisionRun
    BY <2>3 DEF startRun, resolveRun, loadRunSnapshotFails, provisionCreate, provisionRun, failRun, apiVars
  <2>4. CASE startAttempt \/ retryRunAttempt \/ finishRunAttempt \/ backupRun \/ publishRun
             \/ publishUpload \/ pruneRun
    BY <2>4 DEF startAttempt, retryRunAttempt, finishRunAttempt, attemptTimedOut, jobVanished, unreported,
                backupRun, publishRun, publishTimedOut, publishUpload, pruneRun, failRun, apiVars
  <2> QED BY <1>1, <2>1, <2>2, <2>3, <2>4 DEF Reconcile
<1>2. CASE World
  BY <1>2 DEF World, Sync, DeadlinePasses, ClusterProgress, ClusterGone, SecretGone, RestoreEnds, BackupEnds,
     RunnerWrites, RunnerEnds, PodGone, JobGone, UserDeletes, UserEdits, ForeignDelete, GarbageCollect
<1> QED BY <1>1, <1>2 DEF Next, Finished, vars

\* A restore is created at most once per Run and never after a runner started
\* (restoreRun).
THEOREM RestoredOnce == Spec => RestoreOnce
<1>1. ASSUME IInv, [Next]_vars
      PROVE  [restore # "running" /\ restore' = "running" =>
                 restore = "none" /\ \A k \in Attempts : jobs[k] = "none"]_vars
  <2> SUFFICES ASSUME restore # "running", restore' = "running"
               PROVE  restore = "none" /\ \A k \in Attempts : jobs[k] = "none"
    OBVIOUS
  <2>1. ~run.restoreName
    BY <1>1, RestoreCreated
  <2>2. restore = "none" /\ run.attempts = 0
    BY <1>1, <2>1 DEF IInv, RestoreInv
  <2>3. \A k \in Attempts : ~(k <= 0)
    BY DEF Attempts
  <2> QED BY <1>1, <2>2, <2>3 DEF IInv, JobInv
<1> QED BY <1>1, Invariance, PTL DEF Spec, RestoreOnce

\* The verdict and the phase of a failed Run stay.
LEMMA FailedStays ==
    ASSUME IInv, [Next]_vars, run.failed
    PROVE  run'.failed /\ run'.phase = "Failed"
<1>0. run \in RunType /\ run.phase = "Failed"
  BY DEF IInv, TypeOK, FailInv
<1>1. ASSUME NEW r, failRun(r) PROVE run'.failed /\ run'.phase = "Failed"
  BY <1>0, <1>1 DEF failRun, patchRun, Failing, RunType
<1>2. CASE Reconcile
  <2>1. CASE finishRun \/ cleanupFailed \/ cleanupDeleting
    <3>1. PICK spec, deleting : cleanupRun(SeenRun, spec, deleting)
      BY <2>1, Zenon DEF finishRun, cleanupFailed, cleanupDeleting
    <3>2. \/ UNCHANGED run
          \/ run' = [run EXCEPT !.retained = TRUE]
          \/ run' = [run EXCEPT !.uid = cluster.uid]
          \/ run' = [run EXCEPT !.cleaned = "False"]
          \/ cleanupDone(SeenRun, deleting)
      BY <3>1 DEF cleanupRun, cleanupRunCluster, patchRun
    <3>3. cleanupDone(SeenRun, deleting) =>
             \/ run' = [run EXCEPT !.cleaned = "True", !.phase = run.phase]
             \/ run' = [run EXCEPT !.finalizer = FALSE, !.alive = FALSE]
      BY ZenonT(40) DEF cleanupDone, patchRun
    <3> QED BY <1>0, <3>2, <3>3, ZenonT(40) DEF RunType
  <2>2. CASE startRun
    <3>1. run' = [run EXCEPT !.finalizer = TRUE]
      BY <1>0, <2>2 DEF startRun, patchRun
    <3> QED BY <1>0, <3>1 DEF RunType
  <2>3. CASE resolveRun \/ loadRunSnapshotFails \/ provisionCreate \/ provisionRun \/ restoreRun
    BY <1>0, <1>1, <2>3 DEF resolveRun, loadRunSnapshotFails, provisionCreate, provisionRun, restoreRun,
       restoreVanished, patchRun, Pipeline
  <2>4. CASE startAttempt \/ retryRunAttempt \/ finishRunAttempt \/ backupRun
    BY <1>0, <1>1, <2>4 DEF startAttempt, retryRunAttempt, finishRunAttempt, attemptTimedOut, jobVanished,
       unreported, backupRun, patchRun, Pipeline
  <2>5. CASE publishRun \/ publishUpload \/ pruneRun
    BY <1>0, <1>1, <2>5 DEF publishRun, publishTimedOut, publishUpload, pruneRun, patchRun, Pipeline
  <2> QED BY <1>2, <2>1, <2>2, <2>3, <2>4, <2>5 DEF Reconcile
<1>3. CASE World
  <2>1. \/ UNCHANGED run
        \/ run' = [run EXCEPT !.deleting = TRUE, !.alive = run.finalizer]
        \/ \E s \in Specs : run' = [run EXCEPT !.spec = s]
    BY <1>3 DEF World, Sync, DeadlinePasses, ClusterProgress, ClusterGone, SecretGone, RestoreEnds, BackupEnds,
       RunnerWrites, RunnerEnds, PodGone, JobGone, UserDeletes, UserEdits, ForeignDelete, GarbageCollect
  <2> QED BY <1>0, <2>1, ZenonT(40) DEF RunType
<1> QED BY <1>0, <1>2, <1>3 DEF Next, Finished, vars

\* Failed is absorbing for the pipeline (markRunFailed, reconcileRun).
THEOREM FailureAbsorbs == Spec => FailedAbsorbs
<1>1. ASSUME IInv, [Next]_vars
      PROVE  [run.failed =>
                 /\ run'.failed /\ run'.phase = "Failed"
                 /\ restore # "running" => restore' # "running"
                 /\ \A k \in Attempts : pods[k] # "active" => pods'[k] # "active"]_vars
  <2> SUFFICES ASSUME run.failed
               PROVE  /\ run'.failed /\ run'.phase = "Failed"
                      /\ restore # "running" => restore' # "running"
                      /\ \A k \in Attempts : pods[k] # "active" => pods'[k] # "active"
    OBVIOUS
  <2>1. run'.failed /\ run'.phase = "Failed"
    BY <1>1, FailedStays
  <2>2. restore # "running" => restore' # "running"
    BY <1>1, RestoreCreated
  <2>3. ~startAttempt
    BY DEF startAttempt, patchRun, Pipeline
  <2>4. \A k \in Attempts : pods[k] # "active" => pods'[k] # "active"
    BY <1>1, <2>3, RunnerStarted DEF IInv
  <2> QED BY <2>1, <2>2, <2>4
<1> QED BY <1>1, Invariance, PTL DEF Spec, FailedAbsorbs

=============================================================================
