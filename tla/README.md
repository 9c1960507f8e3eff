# A TLA+ model of pxc-anonymizer

pxc-anonymizer is a Kubernetes operator. It restores a backup of a Percona
XtraDB cluster into a temporary cluster, rewrites personal data there, backs the
result up and publishes a pointer to that backup. This directory models the
protocol parts of it: TLC checks small instances, TLAPS proves the safety
properties for all of them.

Paths below are relative to the repository root. `PROJECT.json` maps every
definition to its source lines.

## 1. Inventory

| Part | Source | State and operations | Modelled in |
|---|---|---|---|
| Run reconciler | `internal/controller/anonymizationrun_controller.go`, `run_resources.go` | Run status, snapshot Secret, temporary cluster, restore, Jobs, backup, pointer; one handler per phase, failure, retry, cleanup, deletion | `AnonymizationRun` |
| Runner engine, pager, checkpoint, SQL steps, report | `internal/runner/**`, `cmd/anonymize.go` | database rows, progress table, errgroup of table workers, termination report | `Runner`, `AnonymizeOnce` |
| Output retention | `pruneRun` in the Run reconciler | backups of all Runs of one output group | planned |
| Schedule reconciler | `internal/controller/anonymizationschedule_controller.go` | last tick, run-now token, child Runs, history | planned |
| Bootstrap reconciler, Crossplane client | `internal/controller/bootstrap_controller.go`, `internal/crossplane` | paused resources, restore of targets, recreation, compensation | planned |
| BackupPointer reconciler, selection | `internal/controller/backuppointer_controller.go`, `internal/pxc/select.go` | selected backup, published ETag, staleness | planned |
| Policy reconciler | `internal/controller/anonymizationpolicy_controller.go` | one condition | planned, last |
| Percona views, pointer document, object store, conditions | `internal/pxc`, `internal/pointer`, `internal/objectstore`, `internal/conditions` | the states the reconcilers tell apart | abstracted in `AnonymizationRun` |
| Strategies | `internal/runner/strategy` | pure functions of bytes | no |
| Metrics, manager set-up, demo seeding, deep copies | `internal/metrics`, `cmd/main.go`, `cmd/seed_demo.go`, generated code | no protocol state | no |

What runs concurrently: the reconcilers (one worker per object), the informers
that fill their caches, the runner container and its table workers, the Percona
operator, the garbage collector, and users. What is persisted: the status of each
custom resource, the immutable snapshot Secret, the progress table inside the
temporary database, the pointer object. A reconciler keeps nothing in memory
between passes, so a crash is the loss of the rest of a pass.

The hazards this leads to are listed in `PROJECT.json` under `hazards`, each at
the line where it bites.

## 2. Modules

### `AnonymizationRun`

One Run, its children and the API server.

| Variable | Code |
|---|---|
| `run` | the AnonymizationRun: phase, Failed/Published/CleanedUp/Retained conditions, `tempCluster.uid`, `restoreName`, `anonymize.{attempts,jobName,lastResult}`, output |
| `seed` | the spec frozen by `prepareRunSnapshot` |
| `cluster`, `restore`, `backup` | the Percona objects the Run creates |
| `users`, `generated` | the copied system-users Secret, and the Secrets the Percona operator generates for a cluster, each with the UID that owns it |
| `jobs`, `pods` | the Job object of each attempt, and its pod, which is the runner itself |
| `data` | what the temporary database holds: nothing, source, partly or completely anonymized data |
| `pointer` | what the stored pointer leads to |
| `cache` | the informer's copy of the Run, the Jobs and the pods, used for the kinds in `Lagging` |
| `expired` | stage timers whose deadline has passed |
| `budget` | user edits and foreign deletions left |

Each handler is one action with a disjunct per path, and keeps the code's name
(`resolveRun`, `provisionRun`, `restoreRun`, ...). `anonymizeRun` is
three actions, one per situation it meets: no Job is named (`startAttempt`), the
named Job is observed (`finishRunAttempt`, with the operators `jobVanished`,
`attemptTimedOut` and `unreported` for its early returns), a transient failure is
recorded (`retryRunAttempt`). `provisionCreate` is the prefix of
`provisionRun` whose tail was lost after a child was created.

Decisions worth knowing:

- *Cached and live reads.* The client of controller-runtime answers a typed read
  (`r.Get` of the Run and of a Job, `r.List` of pods) from an informer. These are
  `SeenRun`, `SeenJob` and `SeenPod`, which may be old for a lagging kind. The
  cluster, the restore and the backup are unstructured objects, and `cmd/main.go`
  does not set `Client.Cache.Unstructured`, so they are read from the API server;
  so is everything read with `r.APIReader` (Secrets, the restore, the Job in
  `anonymizeRun`). Those reads use the variable itself. `patchRun` carries an
  optimistic lock, so it takes effect only if the copy read is the current one.
  Two Runs with equal fields stand for the same resource version.
- *Jobs and pods.* The controller deletes in the foreground: the pod goes first,
  the Job after it. Somebody else may delete a Job in the background, which removes
  the object at once and leaves its pod running until the garbage collector comes.
- *Cleanup.* One pass does one thing: it deletes the Job, the cluster, the copied
  Secret, or a part of the generated Secrets (a failing call ends the pass early).
  Each must be read as absent before the next. Without a recorded UID the code
  looks for no generated Secret.
- *Lost tails.* A handler that writes twice may stop after the first write. The
  model takes the completed pass and the truncated pass as separate disjuncts.
  Other actors are not interleaved between the two writes of one completed pass:
  what they could do there, they can do before or after it to the same effect,
  because the second write does not depend on anything read in between.
- *Time.* A deadline may pass at any moment after its phase (for the runner, its
  attempt) began, and stays passed.
- *Runner.* `RunnerWrites` and `RunnerEnds` are the contract of `AnonymizeOnce`
  seen from outside: a transient report promises that the progress table
  survives, any other unsuccessful end promises nothing.
- *Percona operator, Kubernetes, object store.* These are external, modelled from
  how the reconciler uses them. An upload may take effect and lose its answer.
- "Pending" stands for Pending and ResolvingSource.

### `Runner` and `AnonymizeOnce`

`Runner` covers all attempts of one Run. `applied[i][r]` counts how often row `r`
of item `i` was rewritten (a statement list is row 1 of its item), `record` is
the progress table, `worker` the goroutine of each item. The plan is a sequence
of stages: each pre step, the tables of a database as one parallel group, each
post step. A transaction of `ProcessPage`, and each of the two transactions of
`sqlstep.Run`, commits, rolls back, or commits and loses the answer. `Execute`
runs statements with implicit commits, so a `crash` may hit before or after
their effect. Errors carry the class that `report.Classify` gives them.

`AnonymizeOnce` is the promise: work is done at most once over all attempts,
success means all required work was done, only a retryable end is followed by
another attempt. `Runner` implements it (`ImplementsContract`).

### Instances and proofs

`MCAnonymizationRun` and `MCRunner` define constants for TLC.
`AnonymizationRunProofs`, `CleanupProofs` (which builds on it) and `RunnerProofs`
hold the theorems.

Names that end in a deviation (`attemptRestarts`, `clusterGoing`, `fromCursor`,
...) and carry the comment *Mutant* are wrong variants of the definition that
follows them. No specification uses them; `PROJECT.json` names the property each
one breaks.

## 3. Runs

| Run | Result | Question |
|---|---|---|
| `run_pipeline` | pass, 263,980 states | Current caches; users edit and delete, others delete restores, Jobs and backups. Safety, `Settles`, `DeletionCompletes`. |
| `run_stale_run` | pass, 2,679,657 | An old copy of the Run is reconciled while others delete the cluster, the restore, the Job or the backup. |
| `run_cleanup` | pass, 2,339,729 | Cleanup in passes over two generated Secrets, with an old copy of the Run and a cluster deleted by others. |
| `run_stale_children` | pass, 1,661,516 | Lagging Jobs and pods, with foreign deletion of cluster and Jobs. |
| `run_runner_stopped` | violation | Is the runner stopped before the cluster is deleted? |
| `run_replaced_cluster` | violation | Does a Run settle if somebody deletes its cluster? |
| `run_frozen_cleanup` | violation | Does cleanup follow the frozen retention? |
| `runner` | pass, 163,690 | Two tables, a truncation, a pre and a post step, two workers, two attempts. |
| `runner_continue` | violation | Does a step with continueOnError never stop the Run? |

### Properties

Run: `PublishedIsAnonymized` (the pointer never leads to anything but completely
anonymized data), `SingleRunner`, `NoReplay` (a Job once per attempt and never on
finished data), `RestoreOnce`, `AttemptsBounded`, `FrozenOutput`,
`FailedAbsorbs`, `RestoresRecordedCluster` (no cluster but the recorded one is
there to restore into), `CleanedUpMeansGone` (neither the cluster nor a Secret of
it exists), `CompleteIsPublished`, `Settles`, `DeletionCompletes`; and two that
fail, `RunnerStoppedFirst` and `FrozenCleanup`.

Runner: `AtMostOnce`, `OkMeansComplete`, `RecordAccounts` (the progress table
accounts for the work while an attempt may follow), `StagesInOrder`,
`DryRunWritesNothing`, `Terminates`, `ImplementsContract`.

### Bounds

- `MaxBackoff = 1`: two attempts, so a retry, an exhausted budget and, with a spec
  of limit 0, a first failure that is already too many. The proofs cover any limit.
- `MaxDisturb = 1`: one edit or one foreign deletion, at any point of a Run, besides
  the deletion of the Run itself. The proofs cover any number.
- `Generated` has two of the code's four names in `run_cleanup`: a pass can delete
  one and leave the other, and a wait can see one gone and one not. The names are
  treated alike. The other runs have one or none.
- `Lagging` and `Interference` differ by run: all kinds together do not finish in
  minutes. The safety theorems hold for every combination.
- `MCSpecs`: a published Run, an unpublished one that retains failures, and a held
  dry run. These three decide every branch on the spec.
- Runner: `PageSize = 2` with a table of four rows (ends on a full page) and one
  of three (ends inside a page, with a gap in the keys); `RetryLimit = 3` is the
  code's constant; two workers for three tables make one wait for a slot.

No symmetry is used: attempts and rows are ordered.

### Deadlock

Checked where nobody deletes the cluster. In the other runs (`run_stale_run`,
`run_cleanup`, `run_stale_children`, `run_replaced_cluster`) a Run whose cluster
was replaced can really stop (see the findings).

### Fairness

`AnonymizationRun!Fairness`: the work queue requeues a Run until it settles, so
passes that depend on the controller alone happen (`OwnSteps`); clocks advance,
informers deliver, and a deletion that the API server accepted finishes
(`ClusterGone`, `SecretGone`, `PodGone`, `JobGone`). Nothing is assumed of the Percona operator's
progress, the runner's success or the object store: `Settles` follows from the
deadlines. `Runner!FairSpec`: goroutines are scheduled and database calls return;
one that hangs is ended by the `activeDeadlineSeconds` of the Job.

### Findings

1. `run_runner_stopped`: `cleanupRun` reads the Job from the cache
   (`run_resources.go:514`). If it was created a moment ago and the Run is deleted
   or fails, the Job is taken for absent and the cluster is deleted under a running
   pod. `docs/operations/lifecycle.md:96` says "Failed or deleting Runs stop the
   active runner Job before handling the temporary cluster." A Job deleted in the
   background by somebody else has the same effect without any lag. Nothing is
   published from such a Run, and no second runner starts (`PublishedIsAnonymized`,
   `SingleRunner`).
2. `run_replaced_cluster`: a cluster deleted by somebody during Provisioning is
   created again (`anonymizationrun_controller.go:217`) before its UID is compared
   (`:234`). The Run fails, and cleanup refuses the new UID in every pass
   (`run_resources.go:769`), so `lifecycle.md:43` ("cleanup continues until
   `CleanedUp=True`") is not met.
3. `run_frozen_cleanup`: when the snapshot of a failed Run cannot be read, cleanup
   uses the live spec (`anonymizationrun_controller.go:129`), against
   `lifecycle.md:95` ("cleanup uses the frozen Run configuration").
4. `runner_continue`: every statement failure has an uncertain outcome
   (`sqlstep.go:93`) and stops the Run although continueOnError is set
   (`engine.go:202`); `api/v1alpha1/anonymizationpolicy_types.go:87` says
   "Failures stop the Run unless continuing was explicitly requested."

## 4. Proofs

### `AnonymizationRunProofs`

Assumption: `ConstantsAssumption` (any set of specs, any backoff limit and number
of disturbances, any lagging kinds, any interference).

The properties are not inductive. `IInv` adds what the argument needs:

- `SeedInv`: the snapshot exists before any phase that depends on it;
- `BudgetInv`: attempts are counted against the snapshot, and the Job name is that
  of the current attempt;
- `RestoreInv`: the restore is over before the first attempt, and once its name is
  recorded neither the Run nor its cached copy is at Provisioning;
- `JobInv`: only the pod of the named Job may be active, a cached pod that ended
  tells the truth, and finished data is never followed by an attempt;
- `DataInv`, `PointerInv`: output phases, success reports and backups imply that no
  source data is left, that none can come back, and that a backup which succeeds
  holds anonymized data.

The second half of `RestoreInv` settles the case of an old copy at Provisioning
that finds the cluster missing and creates an empty one. A patch takes effect only
when the cached copy is current, so the copy is never more than one patch of the
controller behind; between the last Provisioning copy and the first backup lie at
least the patches that record the restore, its end, the attempt and its verdict.

Most paths have one of two shapes, `Benign` (children only disappear) and
`Advance` (the phase moves on); each is shown once to preserve `IInv`, and the
remaining actions one by one. Then `Invariance` gives `TypeCorrect`,
`PublicationSafe`, `OneRunner`, `OutputFrozen`, `BoundedAttempts`,
`CompletionPublished`; the action properties
`NoAttemptReplayed`, `RestoredOnce`, `FailureAbsorbs` follow from `IInv` and a
lemma on which step can create the child in question.

### `CleanupProofs`

Same assumption; the induction is relative to `IInv`. `CInv` adds to
`CleanedUpMeansGone` and `RestoresRecordedCluster`:

- `NamedInv`: a cluster or a copied Secret exists only when the status names the
  temporary cluster, and every cluster and owner has a UID other than the empty one;
- `PastInv`: once CleanedUp is True, neither the Run nor its cached copy will
  provision again. Without it an old copy could create a cluster after the report.

Most steps have the shape `KeepsStatus` and `KeepsChildren` (nothing of the cluster
appears); the ones that create a child or record a UID are shown one by one.
Theorems: `CleanedUpIsGone`, `RestoreTargetRecorded`. Both invariants, `IInv` and
`CInv`, were also checked by TLC before they were proved.

### `RunnerProofs`

Assumption: `PlanAssumption` (any plan, sets of rows, page size, workers, retry
limit, attempts). `IInv` is `TypeOK`, `RecordAccounts`, `StageIsolation` (workers
belong to the current stage, earlier stages are recorded as done), `AtMostOnce`
and `OkMeansComplete`. `RecordAccounts` is the heart: a page commits rows and
cursor together, a step commits its intent first, so what may have happened is
always recorded while an attempt may follow. Theorems: `TypeCorrect`,
`WorkAtMostOnce`, `SuccessIsComplete`, `ProgressAccounts`, `StageOrder`,
`DryRunSafe`, and `Refinement` (`Runner` implements `AnonymizeOnce`).

### Only model-checked

- Liveness (`Settles`, `DeletionCompletes`, `Terminates`): the prover has no rules
  for fairness and ENABLED.

Induction over data and RECURSIVE operators are out of the prover's reach too; the
proved modules use neither.

## 5. Plan

1. `OutputRetention`: several Runs of one output group, `pruneRun` with
   `keepSucceeded` and failed limits, the published pointer. Properties: no backup of
   an unsettled Run is deleted; whether the stored pointer can be left dangling.
2. `AnonymizationSchedule`: ticks, tokens, concurrency policies, history, lost
   status patches, stale lists. Properties: at most one Run per tick and token, Forbid,
   no token lost; the missed-tick computation against a reference definition.
   Composed with an abstraction of `AnonymizationRun` (created, settled, gone).
3. `Bootstrap` with `Crossplane`: pause, restore, resume, recreate, compensation
   over two targets. Abstract specification: a target is restored at most once and
   everything paused is resumed or reported.
4. `BackupPointer`: selection, upload, lost status patch, ETag verification;
   `LatestSucceeded` against a reference definition.
5. `AnonymizationPolicy`, if its condition interacts with a Run.
6. Proofs: at-most-once for Schedule and Bootstrap; retention safety.

Four more runs are intended, one for each of 1 to 4.

## 6. Not modelled

- Which backups `pruneRun` deletes, until `OutputRetention` exists.
- An informer that goes back in time: after a restart a cache may be filled from an
  older state than the one read before. In the model a cache only moves forward.
- Generated Secrets of a cluster whose UID the status never recorded: the code leaves
  them to the garbage collector of Kubernetes, and so does `CleanedUpMeansGone`.
- Two controller processes at once: leader election is assumed to exclude them; a
  create still in flight when the leader changes is not modelled.
- Value generation, manifests, JSON, TLS, HTTP, metrics and wording: data or I/O
  without protocol state.
- Page rewriting reads rows that nobody else writes: the temporary database has no
  other client.
