-------------------------- MODULE AnonymizationRun --------------------------
(***************************************************************************)
(* The reconciler of one AnonymizationRun                                  *)
(* (src/internal/controller/anonymizationrun_controller.go and             *)
(* run_resources.go) together with the API server it talks to.             *)
(*                                                                         *)
(* A reconciliation reads the Run from the informer cache, decides what to *)
(* do from its status, performs at most one kind of side effect and        *)
(* patches the Run with an optimistic lock.  One action below is one path  *)
(* through that handler.  Three things make the code hard to test and are  *)
(* modelled explicitly:                                                    *)
(*                                                                         *)
(*  - cached reads.  r.Get and r.List of a typed object (the Run, the Job, *)
(*    its pods) answer from an informer: SeenRun, SeenJob and SeenPod are  *)
(*    an older state of a kind in Lagging until the next Sync.  The Percona*)
(*    objects are unstructured, which the client always reads from the API *)
(*    server (cmd/main.go sets no Cache.Unstructured), and r.APIReader is  *)
(*    never cached: those reads use the variable itself.  A patch of the   *)
(*    Run succeeds only when the copy that was read is the current one.    *)
(*  - interruption.  Where a handler patches and then creates, or creates  *)
(*    and then patches, the second half may be lost (a crash, a failed     *)
(*    call, a conflict).  A lost tail leaves exactly the first half.       *)
(*  - the rest of the world.  The Percona operator, the runner Job, the    *)
(*    object store, the user and the garbage collector act at any time.    *)
(***************************************************************************)
EXTENDS Naturals, FiniteSets

CONSTANTS
    Specs,          \* the specs a user may write: records of SpecType
    NoSpec,         \* the immutable seed Secret does not exist yet
    MaxBackoff,     \* bound on spec.backoffLimit
    Generated,      \* Secrets the Percona operator generates for a cluster
    Lagging,        \* kinds whose informer cache may be behind the server
    Interference,   \* kinds of children that somebody else may delete
    MaxDisturb      \* bound on user edits plus foreign deletions

Kinds == {"run", "job", "pod"}

SpecType == [dryRun : BOOLEAN, pointer : BOOLEAN, retain : BOOLEAN,
             hold : BOOLEAN, backoffLimit : 0..MaxBackoff]

ASSUME ConstantsAssumption ==
    /\ MaxBackoff \in Nat
    /\ MaxDisturb \in Nat
    /\ Specs \subseteq SpecType
    /\ NoSpec \notin Specs
    /\ Lagging \subseteq Kinds
    /\ Interference \subseteq {"cluster", "restore", "job", "backup"}

MaxAttempts == MaxBackoff + 1
Attempts == 1..MaxAttempts

Phases == {"", "Pending", "Provisioning", "Restoring", "Anonymizing",
           "BackingUp", "Publishing", "Pruning", "CleaningUp", "Completed",
           "Failed"}

VARIABLES
    run,        \* the AnonymizationRun object on the API server
    cache,      \* what the informers hold for the lagging kinds
    seed,       \* the spec frozen in the immutable seed Secret
    cluster,    \* the temporary PXC cluster
    users,      \* the copied system-users Secret
    generated,  \* the Secrets generated for the cluster, with their owner
    restore,    \* the PerconaXtraDBClusterRestore
    jobs,       \* the runner Job of each attempt
    pods,       \* the pod of each Job: the runner itself
    data,       \* what the temporary database holds
    backup,     \* the output PerconaXtraDBClusterBackup
    pointer,    \* what the stored output pointer leads to
    expired,    \* stage timers whose deadline has passed
    budget      \* disturbances left

apiVars == <<seed, cluster, users, generated, restore, jobs, pods, data, backup, pointer>>
vars == <<run, cache, seed, cluster, users, generated, restore, jobs, pods, data, backup,
          pointer, expired, budget>>

-----------------------------------------------------------------------------
(* State                                                                   *)

RunType ==
    [alive : BOOLEAN, deleting : BOOLEAN, finalizer : BOOLEAN, spec : Specs,
     phase : Phases, failed : BOOLEAN,
     tempCluster : BOOLEAN,               \* status.tempCluster is set
     uid : Nat,                           \* status.tempCluster.uid, 0 = ""
     restoreName : BOOLEAN,               \* status.restoreName is set
     attempts : 0..MaxAttempts,
     jobName : 0..MaxAttempts,            \* attempt the Job is named after, 0 = ""
     lastResult : {"none", "transient"},  \* with status.anonymize.completedAt
     output : {"none", "named", "destination"},
     published : {"none", "False", "True"},
     cleaned : {"none", "False", "True"},
     retained : BOOLEAN]

\* "deleting" is the API object with a deletion timestamp; "absent" is NotFound.
ClusterType == [st : {"absent", "creating", "ready", "error", "deleting"}, uid : Nat]

\* A Job object may be gone while its pod still runs, and the reverse.
JobType == {"none", "present", "deleting", "deleted"}

\* The end of the runner container is its termination report: "absorbing" is a
\* valid report of a non-transient class, "noreport" any other end.  "active"
\* includes the wait for a node, "deleted" is a pod that was stopped and removed.
Ended == {"ok", "transient", "absorbing", "noreport"}
PodType == {"none", "active", "deleted"} \cup Ended

\* A generated Secret is owned by the cluster of that UID.
SecretStates == {"absent", "present", "deleting"}
SecretType == [st : SecretStates, owner : Nat]

\* "anonymized": the runner has finished and dropped its progress record, so
\* another runner would start over; "partial": the record still protects it.
Contents == {"empty", "source", "partial", "anonymized"}
BackupType == [st : {"none", "running", "succeeded", "failed"}, content : Contents]

Timers == Phases \X (0..MaxAttempts)

\* The deadline a handler compares with starts with the phase, and for the
\* runner with each attempt.
Timer(r) == <<r.phase, r.attempts>>

NewRun(s) ==
    [alive |-> TRUE, deleting |-> FALSE, finalizer |-> FALSE, spec |-> s,
     phase |-> "", failed |-> FALSE, tempCluster |-> FALSE, uid |-> 0,
     restoreName |-> FALSE, attempts |-> 0, jobName |-> 0,
     lastResult |-> "none", output |-> "none", published |-> "none",
     cleaned |-> "none", retained |-> FALSE]

NoSecret == [st |-> "absent", owner |-> 0]
NoCluster == [st |-> "absent", uid |-> 0]
NoBackup == [st |-> "none", content |-> "empty"]

Init ==
    /\ \E s \in Specs : run = NewRun(s)
    /\ jobs = [k \in Attempts |-> "none"]
    /\ pods = [k \in Attempts |-> "none"]
    /\ cache = [run |-> run, jobs |-> jobs, pods |-> pods]
    /\ seed = NoSpec
    /\ cluster = NoCluster
    /\ users = "absent"
    /\ generated = [g \in Generated |-> NoSecret]
    /\ restore = "none"
    /\ data = "empty"
    /\ backup = NoBackup
    /\ pointer = "previous"
    /\ expired = {}
    /\ budget = MaxDisturb

-----------------------------------------------------------------------------
(* Reads and writes of the controller                                      *)

SeenRun == IF "run" \in Lagging THEN cache.run ELSE run
SeenJob(k) == IF "job" \in Lagging THEN cache.jobs[k] ELSE jobs[k]
SeenPod(k) == IF "pod" \in Lagging THEN cache.pods[k] ELSE pods[k]

Exists(j) == j \in {"present", "deleting"}

\* Mutant: a plain merge patch overwrites whatever the server holds.
patchRunUnlocked(r, new) == new # run /\ run' = new

\* A merge patch with the optimistic lock: a stale copy conflicts and the
\* reconciliation is requeued without effect.
patchRun(r, new) == r = run /\ new # run /\ run' = new

\* Mutant: the verdict is recorded and the phase is left alone.
FailingInPlace(r) == [r EXCEPT !.failed = TRUE]

Failing(r) == [r EXCEPT !.phase = "Failed", !.failed = TRUE]
failRun(r) == patchRun(r, Failing(r)) /\ UNCHANGED apiVars

\* The pipeline handlers run for a live, finalized Run that has not failed.
Pipeline(r, phase) ==
    r.alive /\ ~r.deleting /\ r.finalizer /\ ~r.failed /\ r.phase = phase

\* Mutant: the deadline is never reached.
runNeverExpires(r) == FALSE

runExpired(r) == Timer(r) \in expired

\* deleteRunObject sends the UID and version that were read: it acts on the
\* object only when the cached copy is current, and not on one already deleting.
\* Propagation is foreground: the Job stays until its pod is gone.
deleteJob(k) ==
    /\ SeenJob(k) = "present" /\ jobs[k] = "present"
    /\ jobs' = [jobs EXCEPT ![k] = "deleting"]

-----------------------------------------------------------------------------
(* The pipeline: one action per handler, one disjunct per path through it   *)

\* The first reconciliations record the start and take the finalizer.
startRun ==
    LET r == SeenRun IN
    /\ r.alive /\ ~r.deleting
    /\ \/ r.phase = "" /\ patchRun(r, [r EXCEPT !.phase = "Pending"])
       \/ r.phase # "" /\ ~r.finalizer /\ patchRun(r, [r EXCEPT !.finalizer = TRUE])
    /\ UNCHANGED apiVars

\* Mutant: the whole object is frozen instead of its spec.
prepareWholeObject(r) ==
    seed' = r

\* The seed Secret commits the whole snapshot before the status records it; a
\* seed left by an interrupted resolution is reused, never rewritten.
prepareRunSnapshot(r) ==
    seed' = IF seed = NoSpec THEN r.spec ELSE seed

resolveRun ==
    LET r == SeenRun IN
    /\ Pipeline(r, "Pending")
    /\ \/ runExpired(r) /\ failRun(r)
       \/ ~runExpired(r) /\ seed = NoSpec /\ failRun(r)      \* a validation error
       \/ /\ ~runExpired(r)
          /\ prepareRunSnapshot(r)
          /\ \/ patchRun(r, [r EXCEPT !.phase = "Provisioning", !.tempCluster = TRUE])
             \/ UNCHANGED run
          /\ UNCHANGED <<cluster, users, generated, restore, jobs, pods, data, backup, pointer>>

\* Any error reading the snapshot Secret, or rendering a child from it, fails
\* a Run that is past resolution.
loadRunSnapshotFails ==
    LET r == SeenRun IN
    /\ \E phase \in {"Provisioning", "Restoring", "Anonymizing", "BackingUp",
                      "Publishing", "Pruning", "CleaningUp"} : Pipeline(r, phase)
    /\ failRun(r)

\* createRunChild on the copied Secret and then on the cluster.  An absent
\* cluster is created whatever UID the status records: the UIDs are compared
\* afterwards.
provisionCreate ==
    LET r == SeenRun IN
    /\ Pipeline(r, "Provisioning") /\ ~runExpired(r)
    /\ users # "deleting" /\ users' = "present"
    /\ \/ /\ cluster.st = "absent"
          /\ cluster' = [st |-> "creating", uid |-> cluster.uid + 1]
          /\ data' = "empty"
       \/ UNCHANGED <<cluster, data>>
    /\ UNCHANGED <<run, seed, generated, restore, jobs, pods, backup, pointer>>

provisionRun ==
    LET r == SeenRun
        c == cluster IN
    /\ Pipeline(r, "Provisioning")
    /\ \/ runExpired(r) /\ failRun(r)
       \/ /\ ~runExpired(r) /\ users = "present"
          /\ c.st \in {"creating", "ready", "error"}
          /\ \/ r.uid = 0 /\ patchRun(r, [r EXCEPT !.uid = c.uid]) /\ UNCHANGED apiVars
             \/ r.uid \notin {0, c.uid} /\ failRun(r)
             \/ r.uid = c.uid /\ c.st = "error" /\ failRun(r)
             \/ /\ r.uid = c.uid /\ c.st = "ready"
                /\ patchRun(r, [r EXCEPT !.phase = "Restoring"])
                /\ UNCHANGED apiVars

\* Mutant: a recorded restore that is absent is created again.
restoreRecreated(r) ==
    /\ r = run /\ restore' = "running"
    /\ UNCHANGED <<run, seed, cluster, users, generated, jobs, pods, data, backup, pointer>>

restoreVanished(r) == failRun(r)

\* Mutant: any cluster of the recorded name is restored into.
clusterUnavailable(r) == cluster.st \in {"absent", "deleting"}

clusterLost(r) == cluster.st \in {"absent", "deleting"} \/ cluster.uid # r.uid

\* The name is recorded before the first Create call; a recorded restore that
\* is absent is never created again.  Adopting a restore whose name is not
\* recorded has no disjunct: the name always precedes the object.
restoreRun ==
    LET r == SeenRun IN
    /\ Pipeline(r, "Restoring")
    /\ \/ runExpired(r) /\ failRun(r)
       \/ ~runExpired(r) /\ clusterLost(r) /\ failRun(r)
       \/ /\ ~runExpired(r) /\ ~clusterLost(r)
          /\ \/ restore \in {"none", "deleted"} /\ r.restoreName /\ restoreVanished(r)
             \/ /\ restore \in {"none", "deleted"} /\ ~r.restoreName
                /\ patchRun(r, [r EXCEPT !.restoreName = TRUE])
                /\ restore' \in {"running", restore}      \* the Create may be lost
                /\ UNCHANGED <<seed, cluster, users, generated, jobs, pods, data, backup, pointer>>
             \/ restore = "failed" /\ r.restoreName /\ failRun(r)
             \/ /\ restore = "succeeded" /\ r.restoreName
                /\ patchRun(r, [r EXCEPT !.phase = "Anonymizing"])
                /\ UNCHANGED apiVars

\* The attempt is recorded before its Job is created.
startAttempt ==
    LET r == SeenRun
        k == r.attempts + 1 IN
    /\ Pipeline(r, "Anonymizing") /\ r.jobName = 0
    /\ patchRun(r, [r EXCEPT !.attempts = k, !.jobName = k, !.lastResult = "none"])
    /\ \/ /\ ~Exists(SeenJob(k)) /\ ~Exists(jobs[k])
          /\ jobs' = [jobs EXCEPT ![k] = "present"]
          /\ pods' = [pods EXCEPT ![k] = "active"]
       \/ UNCHANGED <<jobs, pods>>                        \* the Create may be lost
    /\ UNCHANGED <<seed, cluster, users, generated, restore, data, backup, pointer>>

\* Mutant: the budget is read from the live spec.
liveRetryBudgetExhausted(r) == r.attempts > r.spec.backoffLimit

\* backoffLimit counts the retries after the first attempt.
retryBudgetExhausted(r) == r.attempts > seed.backoffLimit

\* A persisted transient verdict: the old Job is deleted, and only when it is
\* gone is the name cleared for the next attempt.
retryRunAttempt ==
    LET r == SeenRun
        k == r.jobName IN
    /\ Pipeline(r, "Anonymizing") /\ k # 0 /\ r.lastResult = "transient"
    /\ \/ retryBudgetExhausted(r) /\ failRun(r)
       \/ /\ ~retryBudgetExhausted(r) /\ Exists(SeenJob(k))
          /\ deleteJob(k)
          /\ UNCHANGED <<run, seed, cluster, users, generated, restore, pods, data, backup, pointer>>
       \/ /\ ~retryBudgetExhausted(r) /\ ~Exists(SeenJob(k))
          /\ patchRun(r, [r EXCEPT !.jobName = 0]) /\ UNCHANGED apiVars

\* Mutant: an attempt without a verdict is tried again.
attemptRestarts(r) ==
    \/ retryBudgetExhausted(r) /\ failRun(r)
    \/ /\ ~retryBudgetExhausted(r)
       /\ patchRun(r, [r EXCEPT !.jobName = 0]) /\ UNCHANGED apiVars

attemptTimedOut(r) == failRun(r)
jobVanished(r) == failRun(r)

attemptSucceeded(r) ==
    IF seed.dryRun THEN [r EXCEPT !.phase = "CleaningUp", !.published = "True"]
    ELSE [r EXCEPT !.phase = "BackingUp"]

\* Mutant: a Job that ended is taken to have succeeded.
unreportedSucceeds(r) == patchRun(r, attemptSucceeded(r)) /\ UNCHANGED apiVars

\* No valid report: the runner may have finished, so replay is unsafe.
unreported(r) == failRun(r)

\* The verdict of the attempt: the Job is read live, its pod from the cache.  A
\* Job that ended while the cache shows no terminated runner has no report.
finishRunAttempt ==
    LET r == SeenRun
        k == r.jobName IN
    /\ Pipeline(r, "Anonymizing") /\ k # 0 /\ r.lastResult = "none"
    /\ \/ runExpired(r) /\ attemptTimedOut(r)
       \/ ~runExpired(r) /\ ~Exists(jobs[k]) /\ jobVanished(r)
       \/ /\ ~runExpired(r) /\ Exists(jobs[k])
          /\ \/ SeenPod(k) = "absorbing" /\ failRun(r)
             \/ SeenPod(k) = "noreport" /\ unreported(r)
             \/ /\ pods[k] \in Ended \cup {"deleted"} /\ SeenPod(k) \notin Ended
                /\ unreported(r)
             \/ /\ SeenPod(k) = "transient"
                /\ \/ retryBudgetExhausted(r) /\ failRun(r)
                   \/ /\ ~retryBudgetExhausted(r)
                      /\ patchRun(r, [r EXCEPT !.lastResult = "transient"])
                      /\ UNCHANGED apiVars
             \/ /\ SeenPod(k) = "ok"
                /\ patchRun(r, attemptSucceeded(r)) /\ UNCHANGED apiVars

\* The backup name is recorded first, but an absent backup may be created again.
backupRun ==
    LET r == SeenRun IN
    /\ Pipeline(r, "BackingUp")
    /\ \/ r.output = "none" /\ patchRun(r, [r EXCEPT !.output = "named"]) /\ UNCHANGED apiVars
       \/ r.output # "none" /\ runExpired(r) /\ failRun(r)
       \/ /\ r.output # "none" /\ ~runExpired(r)
          /\ \/ /\ backup.st = "none"
                /\ backup' = [st |-> "running", content |-> data]
                /\ UNCHANGED <<run, seed, cluster, users, generated, restore, jobs, pods, data, pointer>>
             \/ backup.st = "failed" /\ failRun(r)
             \/ /\ backup.st = "succeeded"
                /\ patchRun(r, [r EXCEPT !.output = "destination", !.phase = "Publishing",
                                         !.published = "False"])
                /\ UNCHANGED apiVars

\* Mutant: publication follows the live spec.
liveOutputPointer(r) == r.spec.pointer

outputPointer(r) == seed.pointer

\* Mutant: a publication that times out is skipped.
publishSkipped(r) ==
    /\ patchRun(r, [r EXCEPT !.phase = "Pruning", !.published = "True"])
    /\ UNCHANGED apiVars

publishTimedOut(r) == failRun(r)

publishRun ==
    LET r == SeenRun IN
    /\ Pipeline(r, "Publishing")
    /\ \/ /\ ~outputPointer(r)
          /\ patchRun(r, [r EXCEPT !.phase = "Pruning", !.published = "True"])
          /\ UNCHANGED apiVars
       \/ outputPointer(r) /\ runExpired(r) /\ publishTimedOut(r)
       \/ outputPointer(r) /\ ~runExpired(r) /\ backup.st \in {"running", "failed"} /\ failRun(r)

\* The upload, then the patch.  The answer of the store or the patch may be
\* lost after the pointer object was replaced.
publishUpload ==
    LET r == SeenRun IN
    /\ Pipeline(r, "Publishing") /\ outputPointer(r) /\ ~runExpired(r)
    /\ backup.st = "succeeded"
    /\ pointer' = backup.content
    /\ \/ patchRun(r, [r EXCEPT !.phase = "Pruning", !.published = "True"])
       \/ UNCHANGED run
    /\ UNCHANGED <<seed, cluster, users, generated, restore, jobs, pods, data, backup>>

\* Retention deletes backups of other settled Runs, none a variable here, and
\* never the Run's own.
pruneRun ==
    LET r == SeenRun IN
    /\ Pipeline(r, "Pruning") /\ r.output # "none" /\ r.published = "True"
    /\ patchRun(r, [r EXCEPT !.phase = "CleaningUp"]) /\ UNCHANGED apiVars

-----------------------------------------------------------------------------
(* Cleanup                                                                  *)

\* The cluster exists: record its UID, refuse a different one, delete it and
\* report the wait.
cleanupRunCluster(r) ==
    LET waiting == [r EXCEPT !.cleaned = "False"] IN
    /\ r.tempCluster /\ cluster.st # "absent"
    /\ UNCHANGED <<seed, users, generated, restore, jobs, pods, data, backup, pointer>>
    /\ \/ r.uid = 0 /\ patchRun(r, [r EXCEPT !.uid = cluster.uid]) /\ UNCHANGED cluster
       \/ /\ r.uid = cluster.uid /\ cluster.st # "deleting"
          /\ cluster' = [cluster EXCEPT !.st = "deleting"]
          /\ (patchRun(r, waiting) \/ UNCHANGED run)
       \/ /\ r.uid = cluster.uid /\ cluster.st = "deleting"
          /\ patchRun(r, waiting) /\ UNCHANGED cluster

\* Mutant: a cluster that is still deleting counts as gone.
clusterGoing(r) == r.tempCluster => cluster.st \in {"absent", "deleting"}

clusterGone(r) == r.tempCluster => cluster.st = "absent"

\* Mutant: a Secret whose deletion was requested counts as gone.
usersGoing(r) == r.tempCluster => users \in {"absent", "deleting"}

usersGone(r) == r.tempCluster => users = "absent"

\* Mutant: a generated Secret whose deletion was requested counts as gone.
ownedPresent(r) ==
    IF ~r.tempCluster \/ r.uid = 0 THEN {}
    ELSE {g \in Generated : generated[g] = [st |-> "present", owner |-> r.uid]}

\* The generated Secrets the recorded cluster owns; without a recorded UID the
\* code looks for none and leaves them to the garbage collector.
ownedGenerated(r) ==
    IF ~r.tempCluster \/ r.uid = 0 THEN {}
    ELSE {g \in Generated : generated[g].st # "absent" /\ generated[g].owner = r.uid}

\* One pass over the generated Secrets; a failing call ends it early, and the
\* next reconciliation looks again at what is left.
deleteRunGeneratedSecrets(r) ==
    \E D \in SUBSET ownedGenerated(r) :
        /\ \E g \in D : generated[g].st = "present"
        /\ generated' = [g \in Generated |->
                            IF g \in D THEN [generated[g] EXCEPT !.st = "deleting"]
                            ELSE generated[g]]

\* Everything owned is absent: record it, complete a successful Run, and let a
\* deleted Run go once the record is persisted.
cleanupDone(r, deleting) ==
    LET new == [r EXCEPT !.cleaned = "True",
                         !.phase = IF deleting \/ r.failed THEN r.phase ELSE "Completed"] IN
    /\ UNCHANGED apiVars
    /\ \/ patchRun(r, new)
       \/ /\ deleting /\ new = r
          /\ patchRun(r, [r EXCEPT !.finalizer = FALSE, !.alive = FALSE])

\* Mutant: retention also applies to a deleted Run.
retainsForever(r, spec, deleting) == spec.retain /\ r.failed

retains(r, spec, deleting) == ~deleting /\ spec.retain /\ r.failed

\* The runner first, then the cluster, then the copied Secret, then the
\* generated ones; each must be seen absent before the next is touched.
cleanupRun(r, spec, deleting) ==
    LET runner == (deleting \/ r.failed) /\ r.jobName # 0 /\ Exists(SeenJob(r.jobName))
        keep == retains(r, spec, deleting) IN
    \/ /\ runner /\ deleteJob(r.jobName)
       /\ UNCHANGED <<run, seed, cluster, users, generated, restore, pods, data, backup, pointer>>
    \/ ~runner /\ keep /\ patchRun(r, [r EXCEPT !.retained = TRUE]) /\ UNCHANGED apiVars
    \/ ~runner /\ ~keep /\ cleanupRunCluster(r)
    \/ /\ ~runner /\ ~keep /\ clusterGone(r) /\ ~usersGone(r)
       /\ users = "present" /\ users' = "deleting"
       /\ UNCHANGED <<run, seed, cluster, generated, restore, jobs, pods, data, backup, pointer>>
    \/ /\ ~runner /\ ~keep /\ clusterGone(r) /\ usersGone(r)
       /\ deleteRunGeneratedSecrets(r)
       /\ UNCHANGED <<run, seed, cluster, users, restore, jobs, pods, data, backup, pointer>>
    \/ /\ ~runner /\ ~keep /\ clusterGone(r) /\ usersGone(r) /\ ownedGenerated(r) = {}
       /\ cleanupDone(r, deleting)

\* A successful Run may hold its cluster for a while first.
finishRun ==
    LET r == SeenRun IN
    /\ Pipeline(r, "CleaningUp") /\ (seed.hold => runExpired(r))
    /\ cleanupRun(r, seed, FALSE)

\* A failed Run is cleaned up with the frozen spec, or with the live one when
\* the snapshot cannot be read.
cleanupFailed ==
    LET r == SeenRun IN
    /\ r.alive /\ ~r.deleting /\ r.finalizer /\ r.failed
    /\ r.cleaned # "True" /\ ~r.retained
    /\ \E spec \in {r.spec, seed} \ {NoSpec} : cleanupRun(r, spec, FALSE)

cleanupDeleting ==
    LET r == SeenRun IN
    /\ r.alive /\ r.deleting /\ r.finalizer
    /\ cleanupRun(r, r.spec, TRUE)

Reconcile ==
    /\ \/ startRun \/ resolveRun \/ loadRunSnapshotFails
       \/ provisionCreate \/ provisionRun \/ restoreRun
       \/ startAttempt \/ retryRunAttempt \/ finishRunAttempt
       \/ backupRun \/ publishRun \/ publishUpload \/ pruneRun
       \/ finishRun \/ cleanupFailed \/ cleanupDeleting
    /\ UNCHANGED <<cache, expired, budget>>

-----------------------------------------------------------------------------
(* The rest of the world                                                   *)

\* An informer delivers the current state of one kind.
Sync ==
    /\ \/ "run" \in Lagging /\ cache' = [cache EXCEPT !.run = run]
       \/ "job" \in Lagging /\ cache' = [cache EXCEPT !.jobs = jobs]
       \/ "pod" \in Lagging /\ cache' = [cache EXCEPT !.pods = pods]
    /\ cache' # cache
    /\ UNCHANGED <<run, seed, cluster, users, generated, restore, jobs, pods, data, backup, pointer,
                   expired, budget>>

\* Phases whose handler consults a deadline (CleaningUp: the hold time).
TimedPhases == {"Pending", "Provisioning", "Restoring", "Anonymizing",
                "BackingUp", "Publishing", "CleaningUp"}

DeadlinePasses ==
    /\ \E r \in {run, SeenRun} : r.phase \in TimedPhases /\ expired' = expired \cup {Timer(r)}
    /\ UNCHANGED <<run, cache, seed, cluster, users, generated, restore, jobs, pods, data, backup,
                   pointer, budget>>

\* The Percona operator, which also generates the Secrets of the cluster.
ClusterProgress ==
    /\ \/ cluster.st \in {"creating", "error"} /\ cluster' = [cluster EXCEPT !.st = "ready"]
       \/ cluster.st = "creating" /\ cluster' = [cluster EXCEPT !.st = "error"]
    /\ \E G \in SUBSET {g \in Generated : generated[g].st = "absent"} :
          generated' = [g \in Generated |->
                           IF g \in G THEN [st |-> "present", owner |-> cluster.uid]
                           ELSE generated[g]]
    /\ UNCHANGED <<run, cache, seed, users, restore, jobs, pods, data, backup, pointer,
                   expired, budget>>

ClusterGone ==
    /\ cluster.st = "deleting"
    /\ cluster' = [cluster EXCEPT !.st = "absent"]
    /\ data' = "empty"
    /\ UNCHANGED <<run, cache, seed, users, generated, restore, jobs, pods, backup, pointer, expired, budget>>

\* Accepted deletions finish, and a generated Secret follows its cluster.
SecretGone ==
    /\ \/ users = "deleting" /\ users' = "absent" /\ UNCHANGED generated
       \/ /\ \E g \in Generated :
                /\ \/ generated[g].st = "deleting"
                   \/ /\ generated[g].st = "present"
                      /\ \/ cluster.st \in {"absent", "deleting"}
                         \/ cluster.uid # generated[g].owner
                /\ generated' = [generated EXCEPT ![g] = NoSecret]
          /\ UNCHANGED users
    /\ UNCHANGED <<run, cache, seed, cluster, restore, jobs, pods, data, backup, pointer,
                   expired, budget>>

RestoreEnds ==
    /\ restore = "running"
    /\ \/ restore' = "succeeded" /\ cluster.st # "absent" /\ data' = "source"
       \/ restore' = "failed" /\ UNCHANGED data
    /\ UNCHANGED <<run, cache, seed, cluster, users, generated, jobs, pods, backup, pointer, expired, budget>>

\* The copy is taken while the backup runs.
BackupEnds ==
    /\ backup.st = "running"
    /\ \/ /\ cluster.st # "absent"
          /\ backup' \in {[st |-> "succeeded", content |-> c] : c \in {backup.content, data}}
       \/ backup' = [backup EXCEPT !.st = "failed"]
    /\ UNCHANGED <<run, cache, seed, cluster, users, generated, restore, jobs, pods, data, pointer,
                   expired, budget>>

\* The runner container.  A transient report promises that the progress record
\* survives (module Runner); any other unsuccessful end promises nothing.
RunnerWrites(k) ==
    /\ pods[k] = "active" /\ ~seed.dryRun /\ data = "source"
    /\ data' = "partial"
    /\ UNCHANGED <<run, cache, seed, cluster, users, generated, restore, jobs, pods, backup, pointer,
                   expired, budget>>

RunnerEnds(k) ==
    /\ pods[k] = "active"
    /\ \/ /\ pods' = [pods EXCEPT ![k] = "ok"]
          /\ cluster.st # "absent"
          /\ data' = IF seed.dryRun THEN data ELSE "anonymized"
       \/ pods' = [pods EXCEPT ![k] = "transient"] /\ UNCHANGED data
       \/ /\ \E st \in {"absorbing", "noreport"} : pods' = [pods EXCEPT ![k] = st]
          /\ \/ UNCHANGED data
             \/ ~seed.dryRun /\ cluster.st # "absent" /\ data' = "anonymized"
    /\ UNCHANGED <<run, cache, seed, cluster, users, generated, restore, jobs, backup, pointer,
                   expired, budget>>

\* The garbage collector stops and removes the pod of a deleted Job; a Job
\* deleted in the foreground goes after its pod.
PodGone(k) ==
    /\ jobs[k] \in {"deleting", "deleted"} /\ pods[k] # "deleted"
    /\ pods' = [pods EXCEPT ![k] = "deleted"]
    /\ UNCHANGED <<run, cache, seed, cluster, users, generated, restore, jobs, data, backup,
                   pointer, expired, budget>>

JobGone(k) ==
    /\ jobs[k] = "deleting" /\ pods[k] = "deleted"
    /\ jobs' = [jobs EXCEPT ![k] = "deleted"]
    /\ UNCHANGED <<run, cache, seed, cluster, users, generated, restore, pods, data, backup,
                   pointer, expired, budget>>

UserDeletes ==
    /\ run.alive /\ ~run.deleting
    /\ run' = [run EXCEPT !.deleting = TRUE, !.alive = run.finalizer]
    /\ UNCHANGED <<cache, seed, cluster, users, generated, restore, jobs, pods, data, backup, pointer,
                   expired, budget>>

UserEdits ==
    /\ run.alive /\ budget > 0
    /\ \E s \in Specs \ {run.spec} : run' = [run EXCEPT !.spec = s]
    /\ budget' = budget - 1
    /\ UNCHANGED <<cache, seed, cluster, users, generated, restore, jobs, pods, data, backup, pointer, expired>>

\* Somebody else deletes a child.  A Job goes after its pod when it is deleted in
\* the foreground, as the Job TTL controller does; with background propagation,
\* the default of kubectl, it is gone at once and its pod runs on for a while.
ForeignDelete ==
    /\ budget > 0 /\ budget' = budget - 1
    /\ \/ /\ "cluster" \in Interference /\ cluster.st \notin {"absent", "deleting"}
          /\ cluster' = [cluster EXCEPT !.st = "deleting"]
          /\ UNCHANGED <<restore, jobs, backup>>
       \/ /\ "restore" \in Interference /\ restore \notin {"none", "deleted"}
          /\ restore' = "deleted"
          /\ UNCHANGED <<cluster, jobs, backup>>
       \/ /\ "job" \in Interference
          /\ \E k \in Attempts, st \in {"deleting", "deleted"} :
                jobs[k] = "present" /\ jobs' = [jobs EXCEPT ![k] = st]
          /\ UNCHANGED <<cluster, restore, backup>>
       \/ /\ "backup" \in Interference /\ backup.st # "none"
          /\ backup' = NoBackup
          /\ UNCHANGED <<cluster, restore, jobs>>
    /\ UNCHANGED <<run, cache, seed, users, generated, pods, data, pointer, expired>>

\* The garbage collector removes what a vanished Run owned.
GarbageCollect ==
    /\ ~run.alive
    /\ \/ /\ cluster.st \notin {"absent", "deleting"}
          /\ cluster' = [cluster EXCEPT !.st = "deleting"]
          /\ UNCHANGED <<restore, jobs, users>>
       \/ /\ restore \notin {"none", "deleted"} /\ restore' = "deleted"
          /\ UNCHANGED <<cluster, jobs, users>>
       \/ /\ \E k \in Attempts : Exists(jobs[k]) /\ jobs' = [jobs EXCEPT ![k] = "deleted"]
          /\ UNCHANGED <<cluster, restore, users>>
       \/ users = "present" /\ users' = "absent" /\ UNCHANGED <<cluster, restore, jobs>>
    /\ UNCHANGED <<run, cache, seed, generated, pods, data, backup, pointer, expired, budget>>

World ==
    \/ Sync \/ DeadlinePasses \/ ClusterProgress \/ ClusterGone \/ SecretGone
    \/ RestoreEnds \/ BackupEnds
    \/ \E k \in Attempts : RunnerWrites(k) \/ RunnerEnds(k) \/ PodGone(k) \/ JobGone(k)
    \/ UserDeletes \/ UserEdits \/ ForeignDelete \/ GarbageCollect

Settled ==
    \/ ~run.alive
    \/ run.phase = "Completed"
    \/ run.failed /\ (run.cleaned = "True" \/ run.retained)

\* Once the Run is settled the system may stop.
Finished == Settled /\ UNCHANGED vars

Next == Reconcile \/ World \/ Finished

Spec == Init /\ [][Next]_vars

-----------------------------------------------------------------------------
(* Fairness.  The work queue retries a Run until it is settled, so steps    *)
(* that depend on the controller alone happen: starting, deadlines that     *)
(* have passed, retries, naming the output, retention and cleanup.  Clocks  *)
(* advance, informers deliver, and accepted deletions finish.  Nothing is   *)
(* assumed of the Percona operator, the runner or the object store.         *)

OwnSteps ==
    /\ \/ startRun \/ startAttempt \/ retryRunAttempt \/ pruneRun
       \/ finishRun \/ cleanupFailed \/ cleanupDeleting
       \/ runExpired(SeenRun) /\ (resolveRun \/ provisionRun \/ restoreRun
                                   \/ finishRunAttempt \/ backupRun \/ publishRun)
       \/ SeenRun.output = "none" /\ backupRun
       \/ publishRun /\ ~outputPointer(SeenRun)
    /\ UNCHANGED <<cache, expired, budget>>

Fairness ==
    /\ WF_vars(OwnSteps)
    /\ WF_vars(DeadlinePasses) /\ WF_vars(Sync)
    /\ WF_vars(ClusterGone) /\ WF_vars(SecretGone)
    /\ \A k \in Attempts : WF_vars(PodGone(k)) /\ WF_vars(JobGone(k))

FairSpec == Spec /\ Fairness

-----------------------------------------------------------------------------
(* Properties                                                              *)

TypeOK ==
    /\ run \in RunType
    /\ cache \in [run : RunType, jobs : [Attempts -> JobType], pods : [Attempts -> PodType]]
    /\ seed \in Specs \cup {NoSpec}
    /\ cluster \in ClusterType
    /\ users \in SecretStates
    /\ generated \in [Generated -> SecretType]
    /\ restore \in {"none", "running", "succeeded", "failed", "deleted"}
    /\ jobs \in [Attempts -> JobType]
    /\ pods \in [Attempts -> PodType]
    /\ data \in Contents
    /\ backup \in BackupType
    /\ pointer \in Contents \cup {"previous"}
    /\ expired \subseteq Timers
    /\ budget \in 0..MaxDisturb

\* The stored pointer is either the previous one or leads to a backup whose
\* content the runner reported as completely anonymized: no dry run, partial
\* attempt, vanished Job, stale read or late edit gets source data published
\* (publishRun after backupRun after finishRunAttempt).
PublishedIsAnonymized == pointer \in {"previous", "anonymized"}

\* At most one runner container works on the temporary database, through
\* retries, lost creates and lagging Job caches (startAttempt, retryRunAttempt).
SingleRunner ==
    \A j, k \in Attempts : pods[j] = "active" /\ pods[k] = "active" => j = k

\* A runner is started once per attempt, and never on data that a runner
\* finished without its progress record: anonymizeRun fails rather than replay.
NoReplay ==
    [][\A k \in Attempts : pods[k] # "active" /\ pods'[k] = "active" =>
            pods[k] = "none" /\ data # "anonymized"]_vars

\* A restore is created at most once per Run and never after a runner started
\* (restoreRun records the name first and fails on RestoreVanished).
RestoreOnce ==
    [][restore # "running" /\ restore' = "running" =>
            /\ restore = "none"
            /\ \A k \in Attempts : jobs[k] = "none"]_vars

\* No more Jobs than the frozen backoffLimit allows are ever created, whatever
\* the user edits meanwhile (retryRunAttempt).
AttemptsBounded ==
    seed # NoSpec =>
        Cardinality({k \in Attempts : jobs[k] # "none"}) <= seed.backoffLimit + 1

\* The output follows the frozen snapshot and not the live spec: a dry run
\* creates no backup, a Run without output pointer publishes none.
FrozenOutput ==
    seed # NoSpec => /\ seed.dryRun => backup.st = "none"
                     /\ ~seed.pointer => pointer = "previous"

\* Failed is absorbing for the pipeline: the phase stays, and no restore and
\* no runner Job is created afterwards (markRunFailed, reconcileRun).
FailedAbsorbs ==
    [][run.failed =>
        /\ run'.failed /\ run'.phase = "Failed"
        /\ restore # "running" => restore' # "running"
        /\ \A k \in Attempts : pods[k] # "active" => pods'[k] # "active"]_vars

\* A restore is only ever asked for on the cluster whose UID the status records:
\* a cluster that a stale Provisioning copy of the Run created after the recorded
\* one vanished is never restored into (restoreRun compares the UIDs).
RestoresRecordedCluster ==
    run.restoreName /\ cluster.st # "absent" => cluster.uid = run.uid

\* CleanedUp=True means that no temporary cluster, no copied Secret and no Secret
\* generated for the recorded cluster exists (cleanupRunCluster).
CleanedUpMeansGone ==
    run.cleaned = "True" =>
        /\ cluster.st = "absent" /\ users = "absent"
        /\ \A g \in Generated : generated[g].st # "absent" => generated[g].owner # run.uid

\* The controller deletes the temporary cluster of a failed or deleted Run only
\* after the active runner has stopped (cleanupRun deletes the Job first).
RunnerStoppedFirst ==
    [][run.alive /\ cluster.st # "deleting" /\ cluster'.st = "deleting" =>
            \A k \in Attempts : pods[k] # "active"]_vars

\* Completed covers publication: with an output pointer configured and no dry
\* run, the store holds the pointer to the anonymized backup (cleanupRun).
CompleteIsPublished ==
    run.phase = "Completed" /\ seed # NoSpec =>
        (seed.pointer /\ ~seed.dryRun => pointer = "anonymized")

\* Every Run settles: its deadlines end each stage, and cleanup finishes.
Settles == <>Settled

\* A deleted Run goes away: cleanup finishes and releases the finalizer.
DeletionCompletes == run.deleting ~> ~run.alive

\* The cleanup of a failed Run follows the retention frozen in its snapshot
\* (reconcileRun falls back to the live spec when the snapshot read fails).
FrozenCleanup ==
    run.failed /\ ~run.deleting /\ seed # NoSpec /\ seed.retain => run.cleaned = "none"

=============================================================================
