------------------------------- MODULE Runner -------------------------------
(***************************************************************************)
(* The anonymization runner (src/internal/runner): engine, pager,          *)
(* checkpoint and sqlstep, over all attempts of one Run.                   *)
(*                                                                         *)
(* The plan is a sequence of stages: each pre step, the tables of a        *)
(* database as one parallel group, each post step, database by database.   *)
(* The items of a stage are SQL steps, tables to truncate (run through the *)
(* same step protocol) and tables to rewrite page by page.  A transaction  *)
(* is one step of the model and ends in one of three ways: committed,      *)
(* rolled back with an error, or committed with the answer lost.           *)
(***************************************************************************)
EXTENDS Naturals, FiniteSets

CONSTANTS
    Items,          \* steps and tables of the plan
    Kind,           \* Kind[i]: "step", "truncate" or "pages"
    Stage,          \* Stage[i]: the stage of item i
    LastStage,      \* number of stages
    Rows,           \* Rows[i]: primary keys that the page query of i selects
    Continue,       \* steps with continueOnError
    PageSize,       \* rows per transaction
    Workers,        \* limit of the errgroup
    RetryLimit,     \* consecutive transient page failures a worker survives
    MaxAttempts     \* attempts the controller may start

ASSUME PlanAssumption ==
    /\ Kind \in [Items -> {"step", "truncate", "pages"}]
    /\ LastStage \in Nat
    /\ Stage \in [Items -> 1..LastStage]
    /\ Rows \in [Items -> SUBSET (Nat \ {0})]
    /\ \A i \in Items : Kind[i] # "pages" => Rows[i] = {1}
    /\ Continue \subseteq {i \in Items : Kind[i] = "step"}
    /\ \A i, j \in Items : Kind[i] = "step" /\ Stage[i] = Stage[j] => i = j
    /\ PageSize \in Nat \ {0}
    /\ Workers \in Nat \ {0}
    /\ RetryLimit \in Nat
    /\ MaxAttempts \in Nat

VARIABLES
    dryRun,     \* the --dry-run flag, the same for all attempts
    applied,    \* applied[i][r]: how often row r was rewritten; the
                \* statements of a step count as its row 1
    record,     \* the progress table, by item
    attempt,    \* attempts started so far
    stage,      \* stage of the attempt, 0 before the plan starts
    worker,     \* what the goroutine of each item is doing
    retries,    \* consecutive transient failures of each page worker
    err,        \* first error of the group: its report class, or "none"
    report      \* termination report of the attempt, "none" while it runs

vars == <<dryRun, applied, record, attempt, stage, worker, retries, err, report>>

Classes == {"transient", "absorbing"}
Progress == [exists : BOOLEAN, done : BOOLEAN, cursor : Nat]
NoProgress == [exists |-> FALSE, done |-> FALSE, cursor |-> 0]
Idle == [i \in Items |-> "waiting"]

Init ==
    /\ dryRun \in BOOLEAN
    /\ applied = [i \in Items |-> [r \in Rows[i] |-> 0]]
    /\ record = [i \in Items |-> NoProgress]
    /\ attempt = 1
    /\ stage = 0
    /\ worker = Idle
    /\ retries = [i \in Items |-> 0]
    /\ err = "none"
    /\ report = "none"

Group == {i \in Items : Stage[i] = stage}
Running == report = "none" /\ stage \in 1..LastStage

\* finishAnonymize: the report of the attempt, lost when it cannot be written.
finishAnonymize(verdict) == report' \in {verdict, "noreport"}

-----------------------------------------------------------------------------
(* Before the plan: connecting, preflight and Ensure.  The progress table   *)
(* of an earlier attempt is kept.                                           *)

\* Mutant: the flag is not consulted after preflight.
writesAlways == TRUE

writes == ~dryRun

prepare ==
    /\ report = "none" /\ stage = 0
    /\ \/ writes /\ stage' = 1 /\ UNCHANGED report
       \/ ~writes /\ finishAnonymize("ok") /\ UNCHANGED stage
       \/ (\E class \in Classes : finishAnonymize(class)) /\ UNCHANGED stage
    /\ UNCHANGED <<dryRun, applied, record, attempt, worker, retries, err>>

\* Mutant: later stages are started before the group is waited for.
launchAny(i) ==
    /\ Running /\ worker[i] = "waiting"
    /\ worker' = [worker EXCEPT ![i] = "active"]
    /\ UNCHANGED <<dryRun, applied, record, attempt, stage, retries, err, report>>

\* group.Go blocks at the limit; a cancelled group still starts the rest.
launch(i) ==
    /\ Running /\ i \in Group /\ worker[i] = "waiting"
    /\ Cardinality({j \in Group : worker[j] \in {"active", "executing", "executed"}}) < Workers
    /\ worker' = [worker EXCEPT ![i] = "active"]
    /\ UNCHANGED <<dryRun, applied, record, attempt, stage, retries, err, report>>

\* A goroutine returns an error: the first one cancels the group.
fails(i, class) ==
    /\ worker' = [worker EXCEPT ![i] = "failed"]
    /\ err' = IF err = "none" THEN class ELSE err

apply(i, R) ==
    applied' = [applied EXCEPT ![i] = [r \in Rows[i] |-> @[r] + (IF r \in R THEN 1 ELSE 0)]]

-----------------------------------------------------------------------------
(* Rewriting a table                                                        *)

\* Mutant: the row of the cursor is selected again.
fromCursor(i) == {r \in Rows[i] : r >= record[i].cursor}

\* Rows after the cursor.
Remaining(i) == {r \in Rows[i] : r > record[i].cursor}

lastPage(P) == Cardinality(P) < PageSize

\* The first PageSize remaining rows in key order.
IsPage(i, P) ==
    /\ \A p \in P, q \in Remaining(i) \ P : p < q
    /\ Cardinality(P) <= PageSize
    /\ Cardinality(P) < PageSize => P = Remaining(i)

\* Rows and cursor are committed together.
commitPage(i, P, last) ==
    /\ apply(i, P)
    /\ record' = [record EXCEPT ![i] = [exists |-> TRUE, done |-> lastPage(P), cursor |-> last]]

\* ProcessPage on a page that ends at row last.
pageCommits(i) ==
    \E P \in SUBSET Remaining(i) :
        /\ IsPage(i, P)
        /\ \E last \in P \cup {record[i].cursor} :
              (\A p \in P : p <= last) /\ commitPage(i, P, last)

ProcessPage(i) ==
    /\ Running /\ Kind[i] = "pages" /\ worker[i] = "active" /\ err = "none"
    /\ \/ /\ record[i].done
          /\ worker' = [worker EXCEPT ![i] = "done"]
          /\ UNCHANGED <<applied, record>>
       \/ /\ ~record[i].done /\ pageCommits(i)
          /\ worker' = [worker EXCEPT ![i] = IF record'[i].done THEN "done" ELSE "active"]
    /\ retries' = [retries EXCEPT ![i] = 0]
    /\ UNCHANGED <<dryRun, attempt, stage, err, report>>

\* Mutant: the number of failures is not limited.
retryPastLimit(i) ==
    /\ err = "none"
    /\ retries' = [retries EXCEPT ![i] = @ + 1]
    /\ UNCHANGED <<worker, err>>

\* The worker pauses and tries the page again.
retryPage(i) ==
    /\ retries[i] < RetryLimit /\ err = "none"
    /\ retries' = [retries EXCEPT ![i] = @ + 1]
    /\ UNCHANGED <<worker, err>>

\* A failed page: its transaction may have committed when the class is
\* transient.  In a cancelled group the pause fails, so the worker returns.
pageFails(i) ==
    /\ Running /\ Kind[i] = "pages" /\ worker[i] = "active"
    /\ \/ fails(i, "absorbing") /\ UNCHANGED <<applied, record, retries>>
       \/ /\ (~record[i].done /\ pageCommits(i)) \/ UNCHANGED <<applied, record>>
          /\ \/ retryPage(i)
             \/ /\ retries[i] = RetryLimit \/ err # "none"
                /\ fails(i, "transient") /\ UNCHANGED retries
    /\ UNCHANGED <<dryRun, attempt, stage, report>>

-----------------------------------------------------------------------------
(* SQL steps and truncation                                                 *)

IsStep(i) == Kind[i] \in {"step", "truncate"}

intent(i) == record' = [record EXCEPT ![i].exists = TRUE]
completion(i) == record' = [record EXCEPT ![i].done = TRUE]

\* ErrUncertainOutcome is a policy failure.
stepUncertain(i) == fails(i, "absorbing")

\* The first transaction of sqlstep.Run: load the record, commit the intent.
beginStep(i) ==
    /\ Running /\ IsStep(i) /\ worker[i] = "active" /\ err = "none"
    /\ \/ record[i].done /\ worker' = [worker EXCEPT ![i] = "done"] /\ UNCHANGED <<record, err>>
       \/ record[i].exists /\ ~record[i].done /\ stepUncertain(i) /\ UNCHANGED record
       \/ /\ ~record[i].exists /\ intent(i)
          /\ worker' = [worker EXCEPT ![i] = "executing"] /\ UNCHANGED err
    /\ UNCHANGED <<dryRun, applied, attempt, stage, retries, report>>

\* That transaction fails, possibly after it committed.  The outcome is not
\* uncertain, so a step with continueOnError is passed over.
beginStepFails(i) ==
    /\ Running /\ IsStep(i) /\ worker[i] = "active"
    /\ (~record[i].exists /\ intent(i)) \/ UNCHANGED record
    /\ \/ i \in Continue /\ worker' = [worker EXCEPT ![i] = "done"] /\ UNCHANGED err
       \/ i \notin Continue /\ \E class \in Classes : fails(i, class)
    /\ UNCHANGED <<dryRun, applied, attempt, stage, retries, report>>

\* The statements.  A failure may come after some or all of them took effect.
Execute(i) ==
    /\ Running /\ worker[i] = "executing"
    /\ \/ /\ err = "none" /\ apply(i, {1})
          /\ worker' = [worker EXCEPT ![i] = "executed"] /\ UNCHANGED err
       \/ apply(i, {1}) /\ stepUncertain(i)
       \/ UNCHANGED applied /\ stepUncertain(i)
    /\ UNCHANGED <<dryRun, record, attempt, stage, retries, report>>

\* The last transaction.  After a truncation the deferred reset of
\* FOREIGN_KEY_CHECKS may still fail, as an ordinary database error.
completeStep(i) ==
    /\ Running /\ worker[i] = "executed"
    /\ \/ /\ err = "none" /\ completion(i)
          /\ worker' = [worker EXCEPT ![i] = "done"] /\ UNCHANGED err
       \/ (completion(i) \/ UNCHANGED record) /\ stepUncertain(i)
       \/ /\ Kind[i] = "truncate" /\ completion(i)
          /\ \E class \in Classes : fails(i, class)
    /\ UNCHANGED <<dryRun, applied, attempt, stage, retries, report>>

-----------------------------------------------------------------------------
(* Stages and the end of an attempt                                         *)

groupDone == \A i \in Group : worker[i] = "done"

nextStage ==
    /\ Running /\ err = "none" /\ groupDone
    /\ stage' = stage + 1
    /\ UNCHANGED <<dryRun, applied, record, attempt, worker, retries, err, report>>

groupFails ==
    /\ Running /\ err # "none" /\ \A i \in Group : worker[i] \in {"done", "failed"}
    /\ finishAnonymize(err)
    /\ UNCHANGED <<dryRun, applied, record, attempt, stage, worker, retries, err>>

\* Mutant: a failed Drop is an ordinary database error.
dropRetryable == finishAnonymize("transient")

dropUncertain == finishAnonymize("absorbing")

\* Mutant: the last stage is not waited for.
planReachedEnd == stage >= LastStage

planDone == stage = LastStage + 1

\* The progress table is dropped last; a failed Drop must not be retried.
dropCheckpoint ==
    /\ report = "none" /\ planDone
    /\ \/ record' = [i \in Items |-> NoProgress] /\ finishAnonymize("ok")
       \/ record' \in {record, [i \in Items |-> NoProgress]} /\ dropUncertain
    /\ UNCHANGED <<dryRun, applied, attempt, stage, worker, retries, err>>

\* The container is killed; statements in flight may still take effect.
crash ==
    /\ report = "none" /\ report' = "noreport"
    /\ \E S \in SUBSET {i \in Items : worker[i] = "executing"} :
          applied' = [i \in Items |-> IF i \in S THEN [r \in Rows[i] |-> applied[i][r] + 1]
                                                  ELSE applied[i]]
    /\ UNCHANGED <<dryRun, record, attempt, stage, worker, retries, err>>

\* Mutant: the controller also replays an attempt that left no report.
retryableWithoutReport == report \in {"transient", "noreport"}

\* The controller starts another Job only after a transient report.
retryable == report = "transient"

\* Mutant: attempts are not counted.
sameAttempt == attempt

countAttempt == attempt + 1

nextAttempt ==
    /\ retryable /\ attempt < MaxAttempts
    /\ attempt' = countAttempt
    /\ stage' = 0 /\ worker' = Idle /\ retries' = [i \in Items |-> 0]
    /\ err' = "none" /\ report' = "none"
    /\ UNCHANGED <<dryRun, applied, record>>

RunnerStep ==
    \/ prepare \/ nextStage \/ groupFails \/ dropCheckpoint \/ nextAttempt
    \/ \E i \in Items : \/ launch(i) \/ ProcessPage(i) \/ pageFails(i) \/ beginStep(i)
                        \/ beginStepFails(i) \/ Execute(i) \/ completeStep(i)

\* No further attempt follows: the program has ended.
Ended ==
    report \in {"ok", "absorbing", "noreport"} \/ (report = "transient" /\ attempt >= MaxAttempts)

Next == RunnerStep \/ crash \/ (Ended /\ UNCHANGED vars)

Spec == Init /\ [][Next]_vars

\* Goroutines are scheduled and database calls return: a call that hangs is
\* ended with the container by the activeDeadlineSeconds of the Job.
FairSpec == Spec /\ WF_vars(RunnerStep)

-----------------------------------------------------------------------------
(* Properties                                                              *)

TypeOK ==
    /\ dryRun \in BOOLEAN
    /\ applied = [i \in Items |-> applied[i]]
    /\ \A i \in Items : applied[i] \in [Rows[i] -> Nat]
    /\ record \in [Items -> Progress]
    /\ attempt \in Nat
    /\ stage \in 0..(LastStage + 1)
    /\ worker \in [Items -> {"waiting", "active", "executing", "executed", "done", "failed"}]
    /\ retries \in [Items -> 0..RetryLimit]
    /\ err \in Classes \cup {"none"}
    /\ report \in Classes \cup {"none", "ok", "noreport"}

\* No row is rewritten twice and no statement list runs twice, through page
\* retries, lost commit answers, crashes and further attempts (ProcessPage
\* commits the cursor with the rows, sqlstep.Run commits the intent first).
AtMostOnce == \A i \in Items : \A r \in Rows[i] : applied[i][r] <= 1

\* A success report means that every selected row was rewritten, every table
\* truncated and every step without continueOnError run (engine.run).
OkMeansComplete ==
    report = "ok" /\ ~dryRun =>
        \A i \in Items \ Continue : \A r \in Rows[i] : applied[i][r] = 1

\* While another attempt may follow, the progress table accounts for all the
\* work: a table is rewritten exactly up to its cursor, a statement list that
\* may have run has an intent, and what is recorded as done is done
\* (checkpoint.Save in every transaction, Drop only at the end).
PagesAccounted(i) ==
    /\ \A r \in Rows[i] : applied[i][r] = IF r <= record[i].cursor THEN 1 ELSE 0
    /\ record[i].done => \A r \in Rows[i] : r <= record[i].cursor

StepAccounted(i) ==
    /\ ~record[i].exists => applied[i][1] = 0 /\ ~record[i].done
    /\ record[i].done => applied[i][1] = 1
    /\ worker[i] = "executing" => record[i].exists /\ applied[i][1] = 0
    /\ worker[i] = "executed" => record[i].exists /\ applied[i][1] = 1

RecordAccounts ==
    report \in {"none", "transient"} =>
        \A i \in Items : IF Kind[i] = "pages" THEN PagesAccounted(i) ELSE StepAccounted(i)

\* Work of a stage starts only when all earlier stages are complete, steps with
\* continueOnError aside (pre steps, then tables, then post steps).
StagesInOrder ==
    [][\A i, j \in Items : Stage[j] < Stage[i] /\ applied'[i] # applied[i] /\ j \notin Continue =>
            \A r \in Rows[j] : applied[j][r] = 1]_vars

\* A dry run writes nothing (engine.run returns after preflight).
DryRunWritesNothing ==
    dryRun => \A i \in Items : record[i] = NoProgress /\ \A r \in Rows[i] : applied[i][r] = 0

\* Every Run of the program comes to an end: retries of a page are bounded.
Terminates == <>Ended

\* A dry run ends without having done the work.
Outcome ==
    CASE report = "none" -> "none"
      [] report = "transient" -> "retryable"
      [] report = "ok" /\ ~dryRun -> "ok"
      [] OTHER -> "final"

\* The runner implements its contract with the controller.
Contract == INSTANCE AnonymizeOnce WITH
    Units <- UNION {{i} \X Rows[i] : i \in Items},
    Required <- UNION {{i} \X Rows[i] : i \in Items \ Continue},
    count <- [u \in UNION {{i} \X Rows[i] : i \in Items} |-> applied[u[1]][u[2]]],
    outcome <- Outcome

ImplementsContract == Contract!Spec

\* A failure of a step with continueOnError does not stop the Run.
ContinuesOnError ==
    [][\A i \in Continue : worker[i] # "failed" => worker'[i] # "failed"]_vars

=============================================================================
