---------------------------- MODULE CleanupProofs ----------------------------
(***************************************************************************)
(* What the temporary cluster and its Secrets owe to the status of the     *)
(* Run: a cluster is restored into only under the UID the status records,  *)
(* and CleanedUp=True is never reported early nor contradicted later.      *)
(***************************************************************************)
EXTENDS AnonymizationRunProofs

\* Cleanup has begun, or nothing but cleanup is left to do.
Past(r) == r.deleting \/ r.failed \/ r.phase \in {"CleaningUp", "Completed"}

\* Children exist only when the status names them, and every cluster and every
\* generated Secret has a UID behind it.
NamedInv ==
    /\ cluster.st # "absent" => cluster.uid # 0
    /\ cluster.st # "absent" \/ users # "absent" => run.tempCluster
    /\ \A r \in {run, cache.run} : r.phase = "Provisioning" => run.tempCluster
    /\ ~run.tempCluster => run.uid = 0
    /\ \A g \in Generated : generated[g].st # "absent" => generated[g].owner # 0

\* No reconciliation provisions anything once the cleanup is reported: neither
\* the Run nor the copy that may still be read asks for it.
PastInv == run.cleaned = "True" => Past(run) /\ ("run" \in Lagging => Past(cache.run))

CInv == NamedInv /\ PastInv /\ CleanedUpMeansGone /\ RestoresRecordedCluster

-----------------------------------------------------------------------------
(* The shape of most steps                                                 *)

\* The parts of the status that cleanup depends on.
KeepsStatus ==
    /\ run'.tempCluster = run.tempCluster /\ run'.uid = run.uid
    /\ run'.restoreName = run.restoreName
    /\ run'.cleaned = "True" => run.cleaned = "True"
    /\ run'.phase = "Provisioning" => run.phase = "Provisioning"
    /\ Past(run) => Past(run')

\* Nothing of the cluster appears.
KeepsChildren ==
    /\ cluster'.uid = cluster.uid /\ (cluster.st = "absent" => cluster'.st = "absent")
    /\ users = "absent" => users' = "absent"
    /\ \A g \in Generated : generated'[g].st # "absent" =>
          generated[g].st # "absent" /\ generated'[g].owner = generated[g].owner

LEMMA KeepStep ==
    ASSUME CInv, KeepsStatus, KeepsChildren, UNCHANGED cache
    PROVE  CInv'
<1>1. NamedInv'
  BY DEF CInv, NamedInv, KeepsStatus, KeepsChildren
<1>2. PastInv'
  BY DEF CInv, PastInv, KeepsStatus
<1>3. CleanedUpMeansGone'
  BY DEF CInv, CleanedUpMeansGone, KeepsStatus, KeepsChildren
<1>4. RestoresRecordedCluster'
  BY DEF CInv, RestoresRecordedCluster, KeepsStatus, KeepsChildren
<1> QED BY <1>1, <1>2, <1>3, <1>4 DEF CInv

\* A step that leaves cluster and Secrets alone.
LEMMA SameChildren == ASSUME UNCHANGED <<cluster, users, generated>> PROVE KeepsChildren
  BY DEF KeepsChildren

\* A step that leaves the Run alone.
LEMMA SameRun == ASSUME UNCHANGED run PROVE KeepsStatus
  BY DEF KeepsStatus, Past

\* failRun records a verdict.
LEMMA KeepFail ==
    ASSUME IInv, CInv, NEW r, failRun(r), UNCHANGED cache
    PROVE  CInv'
<1>1. run' = [run EXCEPT !.phase = "Failed", !.failed = TRUE] /\ UNCHANGED <<cluster, users, generated>>
  BY DEF failRun, patchRun, Failing, apiVars
<1>2. KeepsStatus
  BY <1>1 DEF KeepsStatus, Past, IInv, TypeOK, RunType
<1> QED BY <1>1, <1>2, SameChildren, KeepStep

\* A patch of other fields, or of a phase that is not past cleanup.
LEMMA KeepPatch ==
    ASSUME CInv, UNCHANGED <<cache, cluster, users, generated>>,
           run'.tempCluster = run.tempCluster, run'.uid = run.uid, run'.restoreName = run.restoreName,
           run'.cleaned = run.cleaned, run'.deleting = run.deleting, run'.failed = run.failed,
           run'.phase = run.phase \/ (/\ run.phase \notin {"CleaningUp", "Completed"}
                                      /\ run'.phase # "Provisioning")
    PROVE  CInv'
<1>1. KeepsStatus
  BY DEF KeepsStatus, Past
<1> QED BY <1>1, SameChildren, KeepStep

-----------------------------------------------------------------------------
(* The pipeline                                                            *)

LEMMA CStart == ASSUME IInv, CInv, startRun, UNCHANGED cache PROVE CInv'
<1>1. /\ \/ run.phase = "" /\ run' = [run EXCEPT !.phase = "Pending"]
         \/ run' = [run EXCEPT !.finalizer = TRUE]
      /\ UNCHANGED <<cluster, users, generated>>
  BY DEF startRun, patchRun, apiVars
<1> QED BY <1>1, KeepPatch, ZenonT(40) DEF IInv, TypeOK, RunType

LEMMA CResolve == ASSUME IInv, CInv, resolveRun, UNCHANGED cache PROVE CInv'
<1>1. CASE failRun(SeenRun)
  BY <1>1, KeepFail
<1>2. CASE ~failRun(SeenRun)
  <2>1. /\ UNCHANGED <<cluster, users, generated>>
        /\ \/ UNCHANGED run
           \/ /\ run.phase = "Pending" /\ ~run.failed /\ ~run.deleting
              /\ run' = [run EXCEPT !.phase = "Provisioning", !.tempCluster = TRUE]
    BY <1>2, Zenon DEF resolveRun, patchRun, Pipeline
  <2>2. CASE UNCHANGED run
    BY <2>1, <2>2, SameRun, SameChildren, KeepStep
  <2>3. CASE /\ run.phase = "Pending" /\ ~run.failed /\ ~run.deleting
             /\ run' = [run EXCEPT !.phase = "Provisioning", !.tempCluster = TRUE]
    <3>1. /\ run'.tempCluster /\ run'.uid = run.uid /\ run'.restoreName = run.restoreName
          /\ run'.cleaned = run.cleaned /\ run'.phase = "Provisioning"
      BY <2>3 DEF IInv, TypeOK, RunType
    <3>2. run.cleaned # "True"
      BY <2>3 DEF CInv, PastInv, Past
    <3>3. NamedInv'
      BY <2>1, <3>1 DEF CInv, NamedInv
    <3>4. PastInv' /\ CleanedUpMeansGone'
      BY <3>1, <3>2 DEF PastInv, CleanedUpMeansGone
    <3>5. RestoresRecordedCluster'
      BY <2>1, <3>1 DEF CInv, RestoresRecordedCluster
    <3> QED BY <3>3, <3>4, <3>5 DEF CInv
  <2> QED BY <2>1, <2>2, <2>3
<1> QED BY <1>1, <1>2

\* What a copy that asks for provisioning tells about the Run.
LEMMA Provisioning ==
    ASSUME IInv, CInv, Pipeline(SeenRun, "Provisioning")
    PROVE  run.tempCluster /\ ~run.restoreName /\ run.cleaned # "True"
<1>1. run.tempCluster
  BY SeenRunIs DEF Pipeline, CInv, NamedInv
<1>2. ~run.restoreName
  BY DEF Pipeline, SeenRun, IInv, RestoreInv, Early
<1>3. run.cleaned # "True"
  BY DEF Pipeline, SeenRun, CInv, PastInv, Past
<1> QED BY <1>1, <1>2, <1>3

LEMMA CProvisionCreate == ASSUME IInv, CInv, provisionCreate, UNCHANGED cache PROVE CInv'
<1>1. run.tempCluster /\ ~run.restoreName /\ run.cleaned # "True"
  BY Provisioning DEF provisionCreate
<1>2. /\ UNCHANGED <<run, generated>>
      /\ UNCHANGED cluster \/ cluster' = [st |-> "creating", uid |-> cluster.uid + 1]
  BY DEF provisionCreate
<1>3. cluster'.st # "absent" => cluster'.uid # 0
  BY <1>2 DEF CInv, NamedInv, IInv, TypeOK, ClusterType
<1>4. NamedInv'
  BY <1>1, <1>2, <1>3 DEF CInv, NamedInv
<1>5. PastInv' /\ CleanedUpMeansGone' /\ RestoresRecordedCluster'
  BY <1>1, <1>2 DEF PastInv, CleanedUpMeansGone, RestoresRecordedCluster
<1> QED BY <1>4, <1>5 DEF CInv

\* The UID of the cluster is recorded while the status has none.
LEMMA CRecordUID ==
    ASSUME IInv, CInv, cluster.st # "absent", run.uid = 0,
           run' = [run EXCEPT !.uid = cluster.uid], UNCHANGED <<cache, cluster, users, generated>>
    PROVE  CInv'
<1>1. /\ run'.tempCluster = run.tempCluster /\ run'.uid = cluster.uid /\ run'.restoreName = run.restoreName
      /\ run'.cleaned = run.cleaned /\ run'.phase = run.phase
  BY DEF IInv, TypeOK, RunType
<1>2. run.tempCluster /\ run.cleaned # "True"
  BY DEF CInv, NamedInv, CleanedUpMeansGone
<1>3. NamedInv'
  BY <1>1, <1>2 DEF CInv, NamedInv
<1>4. PastInv' /\ CleanedUpMeansGone'
  BY <1>1, <1>2 DEF PastInv, CleanedUpMeansGone
<1>5. RestoresRecordedCluster'
  BY <1>1 DEF RestoresRecordedCluster
<1> QED BY <1>3, <1>4, <1>5 DEF CInv

LEMMA CProvision == ASSUME IInv, CInv, provisionRun, UNCHANGED cache PROVE CInv'
<1>1. CASE failRun(SeenRun)
  BY <1>1, KeepFail
<1>2. CASE /\ cluster.st # "absent" /\ run.uid = 0
           /\ run' = [run EXCEPT !.uid = cluster.uid] /\ UNCHANGED apiVars
  BY <1>2, CRecordUID DEF apiVars
<1>3. CASE run.phase = "Provisioning" /\ run' = [run EXCEPT !.phase = "Restoring"] /\ UNCHANGED apiVars
  BY <1>3, KeepPatch DEF apiVars, IInv, TypeOK, RunType
<1> QED BY <1>1, <1>2, <1>3 DEF provisionRun, patchRun, Pipeline

LEMMA CRestore == ASSUME IInv, CInv, restoreRun, UNCHANGED cache PROVE CInv'
<1>1. CASE failRun(SeenRun)
  BY <1>1, KeepFail
<1>2. CASE run.phase = "Restoring" /\ run' = [run EXCEPT !.phase = "Anonymizing"] /\ UNCHANGED apiVars
  BY <1>2, KeepPatch DEF apiVars, IInv, TypeOK, RunType
<1>3. CASE /\ cluster.uid = run.uid /\ run' = [run EXCEPT !.restoreName = TRUE]
           /\ UNCHANGED <<cluster, users, generated>>
  <2>1. /\ run'.tempCluster = run.tempCluster /\ run'.uid = run.uid
        /\ run'.cleaned = run.cleaned /\ run'.phase = run.phase /\ run'.deleting = run.deleting
        /\ run'.failed = run.failed
    BY <1>3, ZenonT(40) DEF IInv, TypeOK, RunType
  <2>2. NamedInv'
    BY <1>3, <2>1 DEF CInv, NamedInv
  <2>3. PastInv' /\ CleanedUpMeansGone'
    BY <1>3, <2>1 DEF CInv, PastInv, Past, CleanedUpMeansGone
  <2>4. RestoresRecordedCluster'
    BY <1>3, <2>1 DEF RestoresRecordedCluster
  <2> QED BY <2>2, <2>3, <2>4 DEF CInv
<1> QED BY <1>1, <1>2, <1>3 DEF restoreRun, restoreVanished, clusterLost, patchRun, Pipeline

\* The stages from the runner to retention do not touch what is cleaned up.
LEMMA CMiddle ==
    ASSUME IInv, CInv, UNCHANGED cache,
           \/ startAttempt \/ retryRunAttempt \/ finishRunAttempt
           \/ backupRun \/ publishRun \/ publishUpload \/ pruneRun
    PROVE  CInv'
<1>1. CASE \E r : failRun(r)
  BY <1>1, KeepFail
<1>2. CASE UNCHANGED <<run, cluster, users, generated>>
  BY <1>2, SameRun, SameChildren, KeepStep
<1>3. CASE startAttempt
  BY <1>3, KeepPatch DEF startAttempt, patchRun, IInv, TypeOK, RunType
<1>4. CASE retryRunAttempt
  BY <1>1, <1>2, <1>4, KeepPatch DEF retryRunAttempt, patchRun, apiVars, IInv, TypeOK, RunType
<1>5. CASE finishRunAttempt
  <2>1. \/ failRun(SeenRun)
        \/ /\ UNCHANGED apiVars /\ run.phase = "Anonymizing"
           /\ \/ run' = [run EXCEPT !.lastResult = "transient"]
              \/ run' = [run EXCEPT !.phase = "CleaningUp", !.published = "True"]
              \/ run' = [run EXCEPT !.phase = "BackingUp"]
    BY <1>5 DEF finishRunAttempt, attemptTimedOut, jobVanished, unreported, attemptSucceeded, patchRun, Pipeline
  <2>2. CASE run' = [run EXCEPT !.lastResult = "transient"] /\ UNCHANGED apiVars
    BY <2>2, KeepPatch DEF apiVars, IInv, TypeOK, RunType
  <2>3. CASE /\ run.phase = "Anonymizing" /\ UNCHANGED apiVars
             /\ run' = [run EXCEPT !.phase = "CleaningUp", !.published = "True"]
    BY <2>3, KeepPatch DEF apiVars, IInv, TypeOK, RunType
  <2>4. CASE /\ run.phase = "Anonymizing" /\ UNCHANGED apiVars
             /\ run' = [run EXCEPT !.phase = "BackingUp"]
    BY <2>4, KeepPatch DEF apiVars, IInv, TypeOK, RunType
  <2> QED BY <1>1, <2>1, <2>2, <2>3, <2>4
<1>6. CASE backupRun
  <2>1. \/ failRun(SeenRun)
        \/ UNCHANGED <<run, cluster, users, generated>>
        \/ /\ UNCHANGED apiVars /\ run.phase = "BackingUp"
           /\ \/ run' = [run EXCEPT !.output = "named"]
              \/ run' = [run EXCEPT !.output = "destination", !.phase = "Publishing", !.published = "False"]
    BY <1>6 DEF backupRun, patchRun, Pipeline
  <2>2. CASE run' = [run EXCEPT !.output = "named"] /\ UNCHANGED apiVars
    BY <2>2, KeepPatch DEF apiVars, IInv, TypeOK, RunType
  <2>3. CASE /\ run.phase = "BackingUp" /\ UNCHANGED apiVars
             /\ run' = [run EXCEPT !.output = "destination", !.phase = "Publishing", !.published = "False"]
    BY <2>3, KeepPatch DEF apiVars, IInv, TypeOK, RunType
  <2> QED BY <1>1, <1>2, <2>1, <2>2, <2>3
<1>7. CASE publishRun \/ publishUpload \/ pruneRun
  <2>1. \/ failRun(SeenRun)
        \/ UNCHANGED <<run, cluster, users, generated>>
        \/ /\ UNCHANGED <<cluster, users, generated>> /\ run.phase \in {"Publishing", "Pruning"}
           /\ \/ run' = [run EXCEPT !.phase = "Pruning", !.published = "True"]
              \/ run' = [run EXCEPT !.phase = "CleaningUp"]
    BY <1>7, ZenonT(40) DEF publishRun, publishTimedOut, publishUpload, pruneRun, patchRun, Pipeline, apiVars
  <2> QED BY <1>1, <1>2, <2>1, KeepPatch, ZenonT(40) DEF IInv, TypeOK, RunType
<1> QED BY <1>3, <1>4, <1>5, <1>6, <1>7

-----------------------------------------------------------------------------
(* Cleanup                                                                 *)

LEMMA CCleanupCluster ==
    ASSUME IInv, CInv, NEW r, cleanupRunCluster(r), UNCHANGED cache
    PROVE  CInv'
<1>0. cluster.st # "absent" /\ UNCHANGED <<users, generated>>
  BY DEF cleanupRunCluster
<1>1. CASE run.uid = 0 /\ run' = [run EXCEPT !.uid = cluster.uid] /\ UNCHANGED cluster
  BY <1>0, <1>1, CRecordUID
<1>2. CASE /\ UNCHANGED cluster \/ cluster' = [cluster EXCEPT !.st = "deleting"]
           /\ UNCHANGED run \/ run' = [run EXCEPT !.cleaned = "False"]
  <2>1. KeepsStatus
    BY <1>2, ZenonT(40) DEF KeepsStatus, Past, IInv, TypeOK, RunType
  <2>2. KeepsChildren
    BY <1>0, <1>2 DEF KeepsChildren, IInv, TypeOK, ClusterType
  <2> QED BY <2>1, <2>2, KeepStep
<1> QED BY <1>1, <1>2 DEF cleanupRunCluster, patchRun

\* The cleanup is reported only when it is over, and only for a Run, and a copy
\* of it, that is past provisioning.
LEMMA CCleanupDone ==
    ASSUME IInv, CInv, NEW deleting, cleanupDone(SeenRun, deleting), UNCHANGED cache,
           clusterGone(SeenRun), usersGone(SeenRun), ownedGenerated(SeenRun) = {},
           deleting => SeenRun.deleting, Past(SeenRun)
    PROVE  CInv'
<1>1. SeenRun = run /\ UNCHANGED <<cluster, users, generated>>
  BY DEF cleanupDone, patchRun, apiVars
<1>2. CASE run' = [run EXCEPT !.finalizer = FALSE, !.alive = FALSE]
  <2>1. KeepsStatus
    BY <1>2, ZenonT(40) DEF KeepsStatus, Past, IInv, TypeOK, RunType
  <2> QED BY <1>1, <2>1, SameChildren, KeepStep
<1>3. CASE \E phase \in {run.phase, "Completed"} :
              /\ phase = "Completed" => Past(run)
              /\ run' = [run EXCEPT !.cleaned = "True", !.phase = phase]
  <2>1. /\ run'.tempCluster = run.tempCluster /\ run'.uid = run.uid /\ run'.restoreName = run.restoreName
        /\ run'.deleting = run.deleting /\ run'.failed = run.failed
        /\ run'.phase \in {run.phase, "Completed"}
    BY <1>3, ZenonT(40) DEF IInv, TypeOK, RunType
  <2>2. Past(run') /\ ("run" \in Lagging => Past(cache.run))
    BY <1>1, <2>1 DEF Past, SeenRun
  <2>3. /\ cluster.st = "absent" /\ users = "absent"
        /\ \A g \in Generated : generated[g].st # "absent" => generated[g].owner # run.uid
    <3>1. CASE run.tempCluster
      <4>1. cluster.st = "absent" /\ users = "absent"
        BY <1>1, <3>1 DEF clusterGone, usersGone
      <4>2. ASSUME NEW g \in Generated, generated[g].st # "absent" PROVE generated[g].owner # run.uid
        BY <1>1, <3>1, <4>2 DEF ownedGenerated, CInv, NamedInv
      <4> QED BY <4>1, <4>2
    <3>2. CASE ~run.tempCluster
      BY <3>2 DEF CInv, NamedInv
    <3> QED BY <3>1, <3>2
  <2>4. NamedInv'
    BY <1>1, <2>1 DEF CInv, NamedInv
  <2>5. PastInv' /\ CleanedUpMeansGone'
    BY <1>1, <2>1, <2>2, <2>3 DEF PastInv, CleanedUpMeansGone
  <2>6. RestoresRecordedCluster'
    BY <1>1, <2>1 DEF CInv, RestoresRecordedCluster
  <2> QED BY <2>4, <2>5, <2>6 DEF CInv
<1> QED BY <1>1, <1>2, <1>3 DEF cleanupDone, patchRun

LEMMA CCleanup ==
    ASSUME IInv, CInv, NEW spec, NEW deleting, cleanupRun(SeenRun, spec, deleting), UNCHANGED cache,
           deleting => SeenRun.deleting, Past(SeenRun)
    PROVE  CInv'
<1> DEFINE r == SeenRun
<1>1. CASE UNCHANGED <<run, cluster, users, generated>>
  BY <1>1, SameRun, SameChildren, KeepStep
<1>2. CASE run' = [run EXCEPT !.retained = TRUE] /\ UNCHANGED apiVars
  BY <1>2, KeepPatch DEF apiVars, IInv, TypeOK, RunType
<1>3. CASE cleanupRunCluster(r)
  BY <1>3, CCleanupCluster
<1>4. CASE users = "present" /\ users' = "deleting" /\ UNCHANGED <<run, cluster, generated>>
  <2>1. KeepsChildren
    BY <1>4 DEF KeepsChildren
  <2> QED BY <1>4, <2>1, SameRun, KeepStep
<1>5. CASE deleteRunGeneratedSecrets(r) /\ UNCHANGED <<run, cluster, users>>
  <2>1. \A g \in Generated : generated'[g].st # "absent" =>
          generated[g].st # "absent" /\ generated'[g].owner = generated[g].owner
    BY <1>5, SMTT(30) DEF deleteRunGeneratedSecrets, ownedGenerated, IInv, TypeOK, SecretType
  <2>2. KeepsChildren
    BY <1>5, <2>1 DEF KeepsChildren
  <2> QED BY <1>5, <2>2, SameRun, KeepStep
<1>6. CASE clusterGone(r) /\ usersGone(r) /\ ownedGenerated(r) = {} /\ cleanupDone(r, deleting)
  BY <1>6, CCleanupDone
<1> QED BY <1>1, <1>2, <1>3, <1>4, <1>5, <1>6, ZenonT(60) DEF cleanupRun, patchRun

LEMMA CReconcile == ASSUME IInv, CInv, Reconcile PROVE CInv'
<1>0. UNCHANGED cache
  BY DEF Reconcile
<1>1. CASE finishRun \/ cleanupFailed \/ cleanupDeleting
  <2>1. \E spec, deleting : /\ cleanupRun(SeenRun, spec, deleting)
                            /\ deleting => SeenRun.deleting
                            /\ Past(SeenRun)
    BY <1>1, Zenon DEF finishRun, cleanupFailed, cleanupDeleting, Pipeline, Past
  <2> QED BY <1>0, <2>1, CCleanup
<1>2. CASE loadRunSnapshotFails
  BY <1>0, <1>2, KeepFail DEF loadRunSnapshotFails
<1> QED BY <1>0, <1>1, <1>2, CStart, CResolve, CProvisionCreate, CProvision, CRestore, CMiddle DEF Reconcile

-----------------------------------------------------------------------------
(* The rest of the world                                                   *)

LEMMA CSync == ASSUME IInv, CInv, Sync PROVE CInv'
<1>1. UNCHANGED <<run, cluster, users, generated>> /\ cache'.run \in {cache.run, run}
  BY DEF Sync, IInv, TypeOK
<1>2. NamedInv'
  BY <1>1 DEF CInv, NamedInv
<1>3. PastInv' /\ CleanedUpMeansGone' /\ RestoresRecordedCluster'
  BY <1>1 DEF CInv, PastInv, CleanedUpMeansGone, RestoresRecordedCluster
<1> QED BY <1>2, <1>3 DEF CInv

\* The Percona operator generates Secrets only for a cluster that exists, and
\* then nothing was reported as cleaned up.
LEMMA CClusterProgress == ASSUME IInv, CInv, ClusterProgress PROVE CInv'
<1>1. /\ cluster.st # "absent" /\ cluster'.st # "absent" /\ cluster'.uid = cluster.uid
      /\ UNCHANGED <<run, cache, users>>
  BY DEF ClusterProgress, IInv, TypeOK, ClusterType
<1>2. run.tempCluster /\ run.cleaned # "True" /\ cluster.uid # 0
  BY <1>1 DEF CInv, NamedInv, CleanedUpMeansGone
<1>3. \A g \in Generated : generated'[g].st # "absent" => generated'[g].owner # 0
  BY <1>2, SMTT(30) DEF ClusterProgress, CInv, NamedInv
<1>4. NamedInv'
  BY <1>1, <1>2, <1>3 DEF CInv, NamedInv
<1>5. PastInv' /\ CleanedUpMeansGone'
  BY <1>1, <1>2 DEF PastInv, CleanedUpMeansGone
<1>6. RestoresRecordedCluster'
  BY <1>1 DEF CInv, RestoresRecordedCluster
<1> QED BY <1>4, <1>5, <1>6 DEF CInv

LEMMA CSecretGone == ASSUME IInv, CInv, SecretGone PROVE CInv'
<1>1. KeepsChildren
  <2>1. CASE users' = "absent" /\ UNCHANGED <<cluster, generated>>
    BY <2>1 DEF KeepsChildren
  <2>2. ASSUME NEW g \in Generated, generated' = [generated EXCEPT ![g] = NoSecret],
               UNCHANGED <<cluster, users>>
        PROVE  KeepsChildren
    BY <2>2 DEF KeepsChildren, NoSecret, IInv, TypeOK
  <2> QED BY <2>1, <2>2 DEF SecretGone
<1>2. UNCHANGED <<run, cache>>
  BY DEF SecretGone
<1> QED BY <1>1, <1>2, SameRun, KeepStep

LEMMA CUser == ASSUME IInv, CInv, UserDeletes \/ UserEdits PROVE CInv'
<1>1. UNCHANGED <<cache, cluster, users, generated>>
  BY DEF UserDeletes, UserEdits
<1>2. \/ run' = [run EXCEPT !.deleting = TRUE, !.alive = run.finalizer]
      \/ \E s \in Specs : run' = [run EXCEPT !.spec = s]
  BY DEF UserDeletes, UserEdits
<1>3. KeepsStatus
  BY <1>2, ZenonT(40) DEF KeepsStatus, Past, IInv, TypeOK, RunType
<1> QED BY <1>1, <1>3, SameChildren, KeepStep

\* Every other step of the world leaves the Run alone and only takes away.
LEMMA COthers ==
    ASSUME IInv, CInv,
           \/ DeadlinePasses \/ ClusterGone \/ RestoreEnds \/ BackupEnds \/ ForeignDelete \/ GarbageCollect
           \/ \E k \in Attempts : RunnerWrites(k) \/ RunnerEnds(k) \/ PodGone(k) \/ JobGone(k)
    PROVE  CInv'
<1>1. /\ UNCHANGED <<run, cache, generated>>
      /\ users' \in {users, "absent"}
      /\ \/ UNCHANGED cluster
         \/ cluster.st # "absent" /\ \E st : cluster' = [cluster EXCEPT !.st = st]
  BY ZenonT(60) DEF DeadlinePasses, ClusterGone, RestoreEnds, BackupEnds, ForeignDelete, GarbageCollect,
     RunnerWrites, RunnerEnds, PodGone, JobGone
<1>2. KeepsChildren
  BY <1>1 DEF KeepsChildren, IInv, TypeOK, ClusterType
<1> QED BY <1>1, <1>2, SameRun, KeepStep

-----------------------------------------------------------------------------
(* Theorems                                                                *)

LEMMA CInit == Init => CInv
<1> SUFFICES ASSUME Init PROVE CInv
  OBVIOUS
<1>1. /\ cluster.st = "absent" /\ users = "absent" /\ cache.run = run
      /\ \A g \in Generated : generated[g].st = "absent"
  BY DEF Init, NoCluster, NoSecret
<1>0. PICK s \in Specs : run = NewRun(s)
  BY DEF Init
<1>2. run.phase = "" /\ run.uid = 0 /\ run.cleaned = "none" /\ ~run.restoreName
  BY <1>0, Zenon DEF NewRun
<1> QED BY <1>1, <1>2 DEF CInv, NamedInv, PastInv, CleanedUpMeansGone, RestoresRecordedCluster

LEMMA CNext == IInv /\ CInv /\ [Next]_vars => CInv'
<1> SUFFICES ASSUME IInv, CInv, [Next]_vars PROVE CInv'
  OBVIOUS
<1>1. CASE UNCHANGED vars
  BY <1>1, SameRun, SameChildren, KeepStep DEF vars
<1>2. CASE Reconcile
  BY <1>2, CReconcile
<1>3. CASE World
  BY <1>3, CSync, CClusterProgress, CSecretGone, CUser, COthers DEF World
<1> QED BY <1>1, <1>2, <1>3 DEF Next, Finished

\* The relation between status, cluster and Secrets holds in every state.
THEOREM CleanupInvariance == Spec => []CInv
  BY Invariance, CInit, CNext, PTL DEF Spec

\* CleanedUp=True means that the cluster, the copied Secret and the generated
\* ones are gone, and stays true of a Run that says so: no reconciliation of an
\* outdated copy brings anything back (cleanupRunCluster, createRunChild).
THEOREM CleanedUpIsGone == Spec => []CleanedUpMeansGone
<1>1. CInv => CleanedUpMeansGone
  BY DEF CInv
<1> QED BY <1>1, CleanupInvariance, PTL

\* A restore is asked for only on the recorded cluster, also when an outdated
\* copy of the Run has created another one (restoreRun).
THEOREM RestoreTargetRecorded == Spec => []RestoresRecordedCluster
<1>1. CInv => RestoresRecordedCluster
  BY DEF CInv
<1> QED BY <1>1, CleanupInvariance, PTL

=============================================================================
