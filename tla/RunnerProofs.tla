---------------------------- MODULE RunnerProofs ----------------------------
(***************************************************************************)
(* Safety of the runner for every plan, page size, worker limit and number *)
(* of attempts.                                                            *)
(***************************************************************************)
EXTENDS Runner, TLAPS

\* While an attempt runs, only its stage is in flight, and finished workers and
\* earlier stages are recorded as done, steps with continueOnError aside
\* (group.Wait before the next stage).
StageIsolation ==
    report = "none" =>
        \A i \in Items :
            /\ worker[i] \in {"active", "executing", "executed"} => Stage[i] = stage
            /\ worker[i] \in {"executing", "executed"} => IsStep(i)
            /\ i \notin Continue /\ (worker[i] = "done" \/ Stage[i] < stage) => record[i].done

\* The inductive invariant: the progress table accounts for the work while an
\* attempt may follow, and stages do not overlap.
IInv == TypeOK /\ RecordAccounts /\ StageIsolation /\ AtMostOnce /\ OkMeansComplete

-----------------------------------------------------------------------------

\* What a transaction of ProcessPage leaves behind: the rows up to the new
\* cursor, each rewritten once, and nothing else.
LEMMA PageCommit ==
    ASSUME TypeOK, NEW i \in Items, pageCommits(i), PagesAccounted(i)
    PROVE  /\ applied' = [j \in Items |-> applied'[j]]
           /\ \A j \in Items : applied'[j] \in [Rows[j] -> Nat]
           /\ record' \in [Items -> Progress]
           /\ \A j \in Items \ {i} : applied'[j] = applied[j] /\ record'[j] = record[j]
           /\ PagesAccounted(i)'
<1>1. PICK P \in SUBSET Remaining(i) :
        /\ IsPage(i, P)
        /\ \E last \in P \cup {record[i].cursor} :
              (\A p \in P : p <= last) /\ commitPage(i, P, last)
  BY DEF pageCommits
<1>2. PICK last \in P \cup {record[i].cursor} :
        (\A p \in P : p <= last) /\ commitPage(i, P, last)
  BY <1>1
<1>3. record[i] \in Progress /\ record[i].cursor \in Nat
  BY DEF TypeOK, Progress
<1>4. Rows[i] \in SUBSET Nat /\ P \in SUBSET Rows[i] /\ P \in SUBSET Nat
  BY PlanAssumption DEF Remaining
<1>5. last \in Nat
  BY <1>3, <1>4
<1>6. /\ applied' = [applied EXCEPT ![i] = [r \in Rows[i] |-> @[r] + (IF r \in P THEN 1 ELSE 0)]]
      /\ record' = [record EXCEPT ![i] = [exists |-> TRUE, done |-> lastPage(P), cursor |-> last]]
  BY <1>2 DEF commitPage, apply
<1>7. lastPage(P) \in BOOLEAN
  BY DEF lastPage
<1>8. /\ record' \in [Items -> Progress]
      /\ record'[i].done = lastPage(P) /\ record'[i].cursor = last
  BY <1>5, <1>6, <1>7 DEF TypeOK, Progress
<1>9. applied'[i] = [r \in Rows[i] |-> applied[i][r] + (IF r \in P THEN 1 ELSE 0)]
  BY <1>6 DEF TypeOK
<1>10. applied'[i] \in [Rows[i] -> Nat]
  BY <1>9 DEF TypeOK
<1>11. \A j \in Items \ {i} : applied'[j] = applied[j] /\ record'[j] = record[j]
  BY <1>6 DEF TypeOK
<1>12. applied' = [j \in Items |-> applied'[j]]
  BY <1>6 DEF TypeOK
<1>13. \A r \in Rows[i] : r <= last <=> r <= record[i].cursor \/ r \in P
  BY <1>1, <1>2, <1>3, <1>4, <1>5 DEF IsPage, Remaining
<1>14. \A r \in Rows[i] : applied'[i][r] = IF r <= last THEN 1 ELSE 0
  BY <1>3, <1>4, <1>9, <1>13 DEF PagesAccounted, Remaining, TypeOK
<1>15. lastPage(P) => \A r \in Rows[i] : r <= last
  BY <1>1, <1>3, <1>4, <1>13 DEF IsPage, Remaining, lastPage
<1> QED
  BY <1>8, <1>10, <1>11, <1>12, <1>14, <1>15 DEF PagesAccounted, TypeOK

-----------------------------------------------------------------------------

\* What the invariant says of an item of the running attempt.
LEMMA Accounted ==
    ASSUME IInv, NEW i \in Items, report \in {"none", "transient"}
    PROVE  /\ Kind[i] = "pages" => PagesAccounted(i)
           /\ Kind[i] # "pages" => StepAccounted(i) /\ Rows[i] = {1}
  BY PlanAssumption DEF IInv, RecordAccounts

\* Init establishes the invariant.
LEMMA InvInit == Init => IInv
<1> SUFFICES ASSUME Init PROVE IInv
  OBVIOUS
<1> USE PlanAssumption
<1>1. TypeOK
  BY DEF Init, TypeOK, NoProgress, Progress, Idle, Classes
<1>2. \A i \in Items : \A r \in Rows[i] : applied[i][r] = 0 /\ r \in Nat /\ ~(r <= 0)
  BY DEF Init
<1>3. RecordAccounts
  BY <1>2 DEF Init, RecordAccounts, PagesAccounted, StepAccounted, NoProgress, Idle
<1>4. StageIsolation
  BY DEF Init, StageIsolation, Idle
<1>5. AtMostOnce
  BY <1>2 DEF AtMostOnce
<1>6. OkMeansComplete
  BY DEF Init, OkMeansComplete
<1> QED BY <1>1, <1>3, <1>4, <1>5, <1>6 DEF IInv

\* Actions that leave the data and the progress table alone.
LEMMA InvControl ==
    ASSUME IInv, prepare \/ nextStage \/ groupFails \/ nextAttempt \/ (\E i \in Items : launch(i))
    PROVE  IInv'
<1> USE PlanAssumption
<1>0. applied' = applied /\ record' = record /\ dryRun' = dryRun
  BY Zenon DEF prepare, nextStage, groupFails, nextAttempt, launch
<1>1. AtMostOnce'
  BY <1>0 DEF IInv, AtMostOnce
<1>2. CASE prepare
  <2>1. TypeOK'
    BY <1>2 DEF prepare, finishAnonymize, IInv, TypeOK, Classes
  <2>2. RecordAccounts'
    BY <1>2, <1>0 DEF prepare, finishAnonymize, IInv, RecordAccounts, PagesAccounted, StepAccounted, Classes
  <2>3. StageIsolation'
    BY <1>2, <1>0 DEF prepare, finishAnonymize, IInv, StageIsolation, IsStep, Classes, TypeOK
  <2>4. OkMeansComplete'
    BY <1>2, <1>0 DEF prepare, finishAnonymize, writes, IInv, OkMeansComplete, Classes
  <2> QED BY <1>1, <2>1, <2>2, <2>3, <2>4 DEF IInv
<1>3. CASE nextStage
  <2>1. TypeOK'
    BY <1>3 DEF nextStage, Running, IInv, TypeOK
  <2>2. RecordAccounts'
    BY <1>3, <1>0 DEF nextStage, IInv, RecordAccounts, PagesAccounted, StepAccounted
  <2>3. StageIsolation'
    <3> SUFFICES ASSUME NEW i \in Items
                 PROVE  /\ worker[i] \notin {"active", "executing", "executed"}
                        /\ i \notin Continue /\ (worker[i] = "done" \/ Stage[i] < stage + 1)
                              => record[i].done
      BY <1>3, <1>0 DEF nextStage, StageIsolation, IsStep
    <3>0. LastStage \in Nat /\ Stage[i] \in 1..LastStage /\ stage \in 0..(LastStage + 1)
      BY DEF IInv, TypeOK
    <3>1. Stage[i] < stage + 1 => Stage[i] < stage \/ Stage[i] = stage
      BY ONLY <3>0
    <3>2. Stage[i] = stage => worker[i] = "done"
      BY <1>3 DEF nextStage, groupDone, Group
    <3> QED BY <1>3, <3>1, <3>2 DEF nextStage, Running, IInv, StageIsolation
  <2>4. OkMeansComplete'
    BY <1>3, <1>0 DEF nextStage, IInv, OkMeansComplete
  <2> QED BY <1>1, <2>1, <2>2, <2>3, <2>4 DEF IInv
<1>4. CASE groupFails
  <2>1. TypeOK'
    BY <1>4 DEF groupFails, finishAnonymize, IInv, TypeOK, Classes
  <2>2. RecordAccounts'
    BY <1>4, <1>0 DEF groupFails, Running, IInv, RecordAccounts, PagesAccounted, StepAccounted
  <2>3. StageIsolation' /\ OkMeansComplete'
    BY <1>4, <1>0 DEF groupFails, finishAnonymize, IInv, StageIsolation, OkMeansComplete, TypeOK, Classes
  <2> QED BY <1>1, <2>1, <2>2, <2>3 DEF IInv
<1>5. CASE nextAttempt
  <2>1. TypeOK'
    BY <1>5 DEF nextAttempt, countAttempt, Idle, IInv, TypeOK, Classes
  <2>2. RecordAccounts'
    BY <1>5, <1>0 DEF nextAttempt, retryable, Idle, IInv, RecordAccounts, PagesAccounted, StepAccounted
  <2>3. StageIsolation'
    BY <1>5 DEF nextAttempt, Idle, StageIsolation
  <2>4. OkMeansComplete'
    BY <1>5 DEF nextAttempt, OkMeansComplete
  <2> QED BY <1>1, <2>1, <2>2, <2>3, <2>4 DEF IInv
<1>6. ASSUME NEW i \in Items, launch(i) PROVE IInv'
  <2>1. TypeOK'
    BY <1>6 DEF launch, IInv, TypeOK
  <2>2. RecordAccounts'
    BY <1>6, <1>0 DEF launch, IInv, RecordAccounts, PagesAccounted, StepAccounted, TypeOK
  <2>3. StageIsolation'
    BY <1>6, <1>0 DEF launch, Group, IInv, StageIsolation, IsStep, TypeOK
  <2>4. OkMeansComplete'
    BY <1>6, <1>0 DEF launch, IInv, OkMeansComplete
  <2> QED BY <1>1, <2>1, <2>2, <2>3, <2>4 DEF IInv
<1> QED BY <1>2, <1>3, <1>4, <1>5, <1>6

\* A page: its transaction commits, or its worker gives up.
LEMMA InvPage ==
    ASSUME IInv, NEW i \in Items, ProcessPage(i) \/ pageFails(i)
    PROVE  IInv'
<1> USE PlanAssumption
<1>1. /\ Running /\ Kind[i] = "pages" /\ worker[i] = "active" /\ i \notin Continue
      /\ dryRun' = dryRun /\ attempt' = attempt /\ stage' = stage /\ report' = report
  BY DEF ProcessPage, pageFails
<1>2. PagesAccounted(i) /\ Stage[i] = stage
  BY <1>1, Accounted DEF IInv, StageIsolation, Running
<1>3. \/ UNCHANGED <<applied, record>>
      \/ ~record[i].done /\ pageCommits(i)
  BY DEF ProcessPage, pageFails
<1>4. /\ applied' = [j \in Items |-> applied'[j]]
      /\ \A j \in Items : applied'[j] \in [Rows[j] -> Nat]
      /\ record' \in [Items -> Progress]
      /\ \A j \in Items \ {i} : applied'[j] = applied[j] /\ record'[j] = record[j]
      /\ PagesAccounted(i)'
  <2>1. CASE UNCHANGED <<applied, record>>
    BY <1>2, <2>1 DEF IInv, TypeOK, PagesAccounted
  <2>2. CASE pageCommits(i)
    BY <1>2, <2>2, PageCommit DEF IInv
  <2> QED BY <1>3, <2>1, <2>2
<1>5. /\ worker' \in [Items -> {"waiting", "active", "executing", "executed", "done", "failed"}]
      /\ \A j \in Items \ {i} : worker'[j] = worker[j]
      /\ worker'[i] \in {"active", "failed"} \/ (worker'[i] = "done" /\ record'[i].done)
  BY <1>1 DEF ProcessPage, pageFails, retryPage, fails, IInv, TypeOK
<1>6. retries' \in [Items -> 0..RetryLimit]
  BY DEF ProcessPage, pageFails, retryPage, IInv, TypeOK
<1>7. err' \in Classes \cup {"none"}
  BY DEF ProcessPage, pageFails, retryPage, fails, Classes, IInv, TypeOK
<1>8. TypeOK'
  BY <1>1, <1>4, <1>5, <1>6, <1>7 DEF IInv, TypeOK
<1>9. RecordAccounts'
  <2> SUFFICES ASSUME NEW j \in Items
               PROVE  IF Kind[j] = "pages" THEN PagesAccounted(j)' ELSE StepAccounted(j)'
    BY DEF RecordAccounts
  <2>1. CASE j = i
    BY <2>1, <1>1, <1>4
  <2>2. CASE j # i
    BY <2>2, <1>1, <1>4, <1>5 DEF IInv, RecordAccounts, PagesAccounted, StepAccounted, Running
  <2> QED BY <2>1, <2>2
<1>10. StageIsolation'
  BY <1>1, <1>2, <1>4, <1>5 DEF IInv, StageIsolation, IsStep, Running
<1>11. AtMostOnce'
  <2>1. \A r \in Rows[i] : applied'[i][r] <= 1
    BY <1>4 DEF PagesAccounted
  <2> QED BY <1>4, <2>1 DEF IInv, AtMostOnce
<1>12. OkMeansComplete'
  BY <1>1 DEF OkMeansComplete, Running
<1> QED BY <1>8, <1>9, <1>10, <1>11, <1>12 DEF IInv

\* A step: intent, statements, completion.
LEMMA InvStep ==
    ASSUME IInv, NEW i \in Items, beginStep(i) \/ beginStepFails(i) \/ Execute(i) \/ completeStep(i)
    PROVE  IInv'
<1> USE PlanAssumption
<1>1. /\ Running /\ worker[i] \in {"active", "executing", "executed"}
      /\ dryRun' = dryRun /\ attempt' = attempt /\ stage' = stage /\ report' = report
      /\ retries' = retries
  BY DEF beginStep, beginStepFails, Execute, completeStep
<1>2. IsStep(i) /\ Stage[i] = stage /\ Kind[i] # "pages" /\ Rows[i] = {1}
  BY <1>1 DEF beginStep, beginStepFails, Execute, completeStep, IInv, StageIsolation, Running, IsStep
<1>3. StepAccounted(i)
  BY <1>1, <1>2, Accounted DEF Running
<1>4. record[i] \in Progress /\ applied[i] \in [Rows[i] -> Nat] /\ applied[i][1] \in Nat
  BY <1>2, Zenon DEF IInv, TypeOK
<1>5. /\ worker' \in [Items -> {"waiting", "active", "executing", "executed", "done", "failed"}]
      /\ \A j \in Items \ {i} : worker'[j] = worker[j]
  BY Zenon DEF beginStep, beginStepFails, Execute, completeStep, stepUncertain, fails, IInv, TypeOK
<1>6. err' \in Classes \cup {"none"}
  BY DEF beginStep, beginStepFails, Execute, completeStep, stepUncertain, fails, Classes, IInv, TypeOK
<1>7. /\ record' \in [Items -> Progress]
      /\ \A j \in Items \ {i} : record'[j] = record[j]
      /\ UNCHANGED record \/ intent(i) \/ completion(i)
  <2>0. UNCHANGED record \/ intent(i) \/ completion(i)
    BY DEF beginStep, beginStepFails, Execute, completeStep
  <2>1. CASE UNCHANGED record
    BY <2>1 DEF IInv, TypeOK
  <2>2. CASE intent(i)
    BY <2>2, <1>4, Zenon DEF intent, IInv, TypeOK, Progress
  <2>3. CASE completion(i)
    BY <2>3, <1>4, Zenon DEF completion, IInv, TypeOK, Progress
  <2> QED BY <2>0, <2>1, <2>2, <2>3
<1>8. /\ applied' = [j \in Items |-> applied'[j]]
      /\ \A j \in Items : applied'[j] \in [Rows[j] -> Nat]
      /\ \A j \in Items \ {i} : applied'[j] = applied[j]
      /\ \/ applied'[i] = applied[i]
         \/ worker[i] = "executing" /\ applied'[i][1] = applied[i][1] + 1
  <2>1. CASE UNCHANGED applied
    BY <2>1 DEF IInv, TypeOK
  <2>2. CASE worker[i] = "executing" /\ apply(i, {1})
    <3>1. applied' = [applied EXCEPT ![i] = [r \in Rows[i] |-> @[r] + (IF r \in {1} THEN 1 ELSE 0)]]
      BY <2>2 DEF apply
    <3>2. applied'[i] = [r \in Rows[i] |-> applied[i][r] + (IF r \in {1} THEN 1 ELSE 0)]
      BY <3>1 DEF IInv, TypeOK
    <3>3. applied'[i] \in [Rows[i] -> Nat] /\ applied'[i][1] = applied[i][1] + 1
      BY ONLY <3>2, <1>2, <1>4
    <3>4. applied' = [j \in Items |-> applied'[j]] /\ \A j \in Items \ {i} : applied'[j] = applied[j]
      BY <3>1 DEF IInv, TypeOK
    <3> QED BY <2>2, <3>3, <3>4 DEF IInv, TypeOK
  <2> QED BY <2>1, <2>2 DEF beginStep, beginStepFails, Execute, completeStep
<1>9. TypeOK'
  BY <1>1, <1>5, <1>6, <1>7, <1>8 DEF IInv, TypeOK
<1>10. /\ StepAccounted(i)'
       /\ applied'[i][1] <= 1
       /\ worker'[i] \in {"done", "failed", "executing", "executed"}
       /\ worker'[i] = "done" /\ i \notin Continue => record'[i].done
       /\ record[i].done => record'[i].done
  <2>0. applied[i][1] <= 1
    BY <1>2 DEF IInv, AtMostOnce
  <2>1. CASE beginStep(i)
    <3>1. applied' = applied
      BY <2>1 DEF beginStep
    <3>2. CASE UNCHANGED record /\ record[i].exists /\ worker'[i] \in {"done", "failed"}
               /\ (worker'[i] = "done" => record[i].done)
      BY <2>0, <3>1, <3>2, <1>3 DEF StepAccounted
    <3>3. CASE ~record[i].exists /\ intent(i) /\ worker'[i] \in {"executing", "failed"}
      <4>1. record'[i].exists /\ ~record'[i].done /\ applied[i][1] = 0 /\ ~record[i].done
        BY <3>3, <1>3, <1>4 DEF intent, StepAccounted, IInv, TypeOK, Progress
      <4> QED BY <2>0, <3>1, <3>3, <4>1 DEF StepAccounted
    <3>4. record[i].done => record[i].exists
      BY <1>3, <1>4 DEF StepAccounted
    <3>5. \/ record[i].done /\ worker'[i] = "done" /\ UNCHANGED record
          \/ record[i].exists /\ worker'[i] = "failed" /\ UNCHANGED record
          \/ ~record[i].exists /\ intent(i) /\ worker'[i] = "executing"
      BY <2>1, SMTT(30) DEF beginStep, stepUncertain, fails, IInv, TypeOK
    <3> QED BY <3>2, <3>3, <3>4, <3>5
  <2>2. CASE beginStepFails(i)
    BY <2>0, <2>2, <1>3, <1>4 DEF beginStepFails, fails, intent, StepAccounted, IInv, TypeOK, Progress
  <2>3. CASE Execute(i)
    <3>1. applied[i][1] = 0 /\ record[i].exists /\ ~record[i].done
      BY <2>3, <1>3 DEF Execute, StepAccounted
    <3>2. applied'[i][1] \in {0, 1} /\ record' = record
      BY <2>3, <1>8, <3>1 DEF Execute
    <3>3. worker'[i] = "failed" \/ (worker'[i] = "executed" /\ apply(i, {1}))
      BY <2>3 DEF Execute, stepUncertain, fails, IInv, TypeOK
    <3>4. apply(i, {1}) => applied'[i][1] = 1
      <4> SUFFICES ASSUME apply(i, {1}) PROVE applied'[i][1] = 1
        OBVIOUS
      <4>1. applied'[i] = [r \in Rows[i] |-> applied[i][r] + (IF r \in {1} THEN 1 ELSE 0)]
        BY DEF apply, IInv, TypeOK
      <4> QED BY ONLY <4>1, <3>1, <1>2
    <3> QED BY <3>1, <3>2, <3>3, <3>4, SMTT(30) DEF StepAccounted
  <2>4. CASE completeStep(i)
    <3>1. applied' = applied /\ applied[i][1] = 1 /\ record[i].exists
      BY <2>4, <1>3 DEF completeStep, StepAccounted
    <3>2. record' = record \/ completion(i)
      BY <2>4 DEF completeStep
    <3>3. completion(i) => record'[i].done /\ record'[i].exists
      BY <3>1, <1>4 DEF completion, IInv, TypeOK, Progress
    <3>4. worker'[i] = "failed" \/ (worker'[i] = "done" /\ completion(i))
      BY <2>4, SMTT(30) DEF completeStep, stepUncertain, fails, IInv, TypeOK
    <3> QED BY <3>1, <3>2, <3>3, <3>4 DEF StepAccounted
  <2> QED BY <2>1, <2>2, <2>3, <2>4
<1>11. RecordAccounts'
  <2> SUFFICES ASSUME NEW j \in Items
               PROVE  IF Kind[j] = "pages" THEN PagesAccounted(j)' ELSE StepAccounted(j)'
    BY DEF RecordAccounts
  <2>1. CASE j = i
    BY <2>1, <1>2, <1>10
  <2>2. CASE j # i
    BY <2>2, <1>1, <1>5, <1>7, <1>8 DEF IInv, RecordAccounts, PagesAccounted, StepAccounted, Running
  <2> QED BY <2>1, <2>2
<1>12. StageIsolation'
  BY <1>1, <1>2, <1>5, <1>7, <1>10 DEF IInv, StageIsolation, IsStep, Running
<1>13. AtMostOnce'
  BY <1>2, <1>8, <1>10 DEF IInv, AtMostOnce
<1>14. OkMeansComplete'
  BY <1>1 DEF OkMeansComplete, Running
<1> QED BY <1>9, <1>11, <1>12, <1>13, <1>14 DEF IInv

\* A recorded item is complete.
LEMMA DoneIsComplete ==
    ASSUME IInv, report = "none", NEW i \in Items, record[i].done
    PROVE  \A r \in Rows[i] : applied[i][r] = 1
<1>1. CASE Kind[i] = "pages"
  BY <1>1, Accounted DEF PagesAccounted
<1>2. CASE Kind[i] # "pages"
  BY <1>2, Accounted DEF StepAccounted
<1> QED BY <1>1, <1>2

\* The end of an attempt, with the plan complete or by a crash.
LEMMA InvEnd ==
    ASSUME IInv, dropCheckpoint \/ crash
    PROVE  IInv'
<1> USE PlanAssumption
<1>0. report = "none" /\ report' \in {"ok", "absorbing", "noreport"} /\ dryRun' = dryRun
  BY DEF dropCheckpoint, dropUncertain, crash, finishAnonymize
<1>1. RecordAccounts' /\ StageIsolation'
  BY <1>0 DEF RecordAccounts, StageIsolation
<1>2. CASE dropCheckpoint
  <2>1. TypeOK'
    <3>1. record' \in {record, [i \in Items |-> NoProgress]}
      BY <1>2 DEF dropCheckpoint
    <3>2. NoProgress \in Progress /\ record \in [Items -> Progress]
      BY DEF NoProgress, Progress, IInv, TypeOK
    <3>3. record' \in [Items -> Progress]
      BY <3>1, <3>2
    <3> QED BY <1>0, <1>2, <3>3 DEF dropCheckpoint, IInv, TypeOK, Classes
  <2>2. AtMostOnce'
    BY <1>2 DEF dropCheckpoint, IInv, AtMostOnce
  <2>3. ASSUME NEW i \in Items \ Continue PROVE record[i].done
    <3>1. LastStage \in Nat /\ Stage[i] \in 1..LastStage /\ stage = LastStage + 1
      BY <1>2 DEF dropCheckpoint, planDone
    <3>2. Stage[i] < stage
      BY ONLY <3>1
    <3> QED BY <3>2, <1>0 DEF IInv, StageIsolation
  <2>4. OkMeansComplete'
    BY <1>0, <1>2, <2>3, DoneIsComplete DEF dropCheckpoint, OkMeansComplete
  <2> QED BY <1>1, <2>1, <2>2, <2>4 DEF IInv
<1>3. CASE crash
  <2>1. PICK S \in SUBSET {i \in Items : worker[i] = "executing"} :
          applied' = [i \in Items |-> IF i \in S THEN [r \in Rows[i] |-> applied[i][r] + 1]
                                                  ELSE applied[i]]
    BY <1>3, Zenon DEF crash
  <2>2. \A i \in S : Rows[i] = {1} /\ applied[i][1] = 0
    <3> TAKE i \in S
    <3>1. i \in Items /\ worker[i] = "executing"
      BY <2>1
    <3>2. Kind[i] # "pages"
      BY <3>1, <1>0 DEF IInv, StageIsolation, IsStep
    <3> QED BY <3>1, <3>2, <1>0, Accounted DEF StepAccounted
  <2>3. \A i \in Items : applied'[i] \in [Rows[i] -> Nat] /\ \A r \in Rows[i] : applied'[i][r] <= 1
    <3> TAKE i \in Items
    <3>1. CASE i \in S
      <4>1. applied'[i] = [r \in Rows[i] |-> applied[i][r] + 1]
        BY <2>1, <3>1
      <4> QED BY <4>1, <2>2, <3>1
    <3>2. CASE i \notin S
      BY <2>1, <3>2 DEF IInv, TypeOK, AtMostOnce
    <3> QED BY <3>1, <3>2
  <2>4. TypeOK'
    BY <1>0, <1>3, <2>1, <2>3 DEF crash, IInv, TypeOK, Classes
  <2>5. AtMostOnce' /\ OkMeansComplete'
    BY <1>3, <2>3 DEF crash, AtMostOnce, OkMeansComplete
  <2> QED BY <1>1, <2>4, <2>5 DEF IInv
<1> QED BY <1>2, <1>3

\* Every step preserves the invariant.
LEMMA InvNext == IInv /\ [Next]_vars => IInv'
<1> SUFFICES ASSUME IInv, [Next]_vars PROVE IInv'
  OBVIOUS
<1>1. CASE UNCHANGED vars
  <2>1. TypeOK'
    BY <1>1 DEF vars, IInv, TypeOK
  <2>2. RecordAccounts'
    BY <1>1 DEF vars, IInv, RecordAccounts, PagesAccounted, StepAccounted
  <2>3. StageIsolation' /\ AtMostOnce' /\ OkMeansComplete'
    BY <1>1 DEF vars, IInv, StageIsolation, IsStep, AtMostOnce, OkMeansComplete
  <2> QED BY <2>1, <2>2, <2>3 DEF IInv
<1>2. CASE RunnerStep
  BY <1>2, InvControl, InvPage, InvStep, InvEnd DEF RunnerStep
<1>3. CASE crash
  BY <1>3, InvEnd
<1> QED BY <1>1, <1>2, <1>3 DEF Next

\* The inductive invariant holds of every reachable state of the runner.
THEOREM Invariance == Spec => []IInv
  BY InvInit, InvNext, PTL DEF Spec

\* The variables keep their types: in particular retries of a page stay within
\* the limit of the engine.
THEOREM TypeCorrect == Spec => []TypeOK
  BY Invariance, PTL DEF IInv

\* No row is rewritten twice and no statement list runs twice, for every plan
\* and over any number of attempts (ProcessPage, sqlstep.Run).
THEOREM WorkAtMostOnce == Spec => []AtMostOnce
  BY Invariance, PTL DEF IInv

\* A success report means complete work (engine.run).
THEOREM SuccessIsComplete == Spec => []OkMeansComplete
  BY Invariance, PTL DEF IInv

\* The progress table accounts for all work while another attempt may follow
\* (checkpoint.Save, checkpoint.Drop).
THEOREM ProgressAccounts == Spec => []RecordAccounts
  BY Invariance, PTL DEF IInv

-----------------------------------------------------------------------------

\* How rows change: only while an attempt runs, only those of workers in
\* flight, and each by at most one.
LEMMA ApplyEffect ==
    ASSUME TypeOK, NEW i \in Items, NEW R, apply(i, R)
    PROVE  \A j \in Items :
              /\ j # i => applied'[j] = applied[j]
              /\ \A r \in Rows[j] : applied'[j][r] \in {applied[j][r], applied[j][r] + 1}
<1>1. applied'[i] = [r \in Rows[i] |-> applied[i][r] + (IF r \in R THEN 1 ELSE 0)]
  BY DEF apply, TypeOK
<1>2. \A j \in Items : j # i => applied'[j] = applied[j]
  BY DEF apply, TypeOK
<1>3. \A r \in Rows[i] : applied[i][r] \in Nat
  BY DEF TypeOK
<1>4. \A r \in Rows[i] : applied'[i][r] \in {applied[i][r], applied[i][r] + 1}
  BY <1>1, <1>3
<1> QED BY <1>2, <1>4

LEMMA Effect ==
    ASSUME IInv, Next
    PROVE  \/ applied' = applied
           \/ /\ report = "none" /\ report' \in {"none", "noreport"}
              /\ \A j \in Items :
                    /\ applied'[j] # applied[j] => worker[j] \in {"active", "executing"}
                    /\ \A r \in Rows[j] : applied'[j][r] \in {applied[j][r], applied[j][r] + 1}
<1>1. CASE crash
  <2>1. PICK S \in SUBSET {i \in Items : worker[i] = "executing"} :
          applied' = [i \in Items |-> IF i \in S THEN [r \in Rows[i] |-> applied[i][r] + 1]
                                                  ELSE applied[i]]
    BY <1>1, Zenon DEF crash
  <2>2. \A j \in Items : applied'[j] # applied[j] => worker[j] = "executing"
    BY <2>1
  <2>3. \A j \in Items : \A r \in Rows[j] : applied'[j][r] \in {applied[j][r], applied[j][r] + 1}
    BY <2>1
  <2> QED BY <1>1, <2>2, <2>3 DEF crash
<1>2. ASSUME NEW i \in Items, ProcessPage(i) \/ pageFails(i) \/ Execute(i), applied' # applied
      PROVE  /\ report = "none" /\ report' \in {"none", "noreport"}
             /\ \A j \in Items :
                   /\ applied'[j] # applied[j] => worker[j] \in {"active", "executing"}
                   /\ \A r \in Rows[j] : applied'[j][r] \in {applied[j][r], applied[j][r] + 1}
  <2>1. report = "none" /\ report' = "none" /\ worker[i] \in {"active", "executing"}
    BY <1>2 DEF ProcessPage, pageFails, Execute, Running
  <2>2. PICK R : apply(i, R)
    BY <1>2 DEF ProcessPage, pageFails, Execute, pageCommits, commitPage
  <2>3. \A j \in Items :
           /\ j # i => applied'[j] = applied[j]
           /\ \A r \in Rows[j] : applied'[j][r] \in {applied[j][r], applied[j][r] + 1}
    BY <2>2, ApplyEffect DEF IInv
  <2> QED BY <2>1, <2>3
<1> QED BY <1>1, <1>2, Zenon DEF Next, RunnerStep, vars, prepare, nextStage, groupFails, dropCheckpoint,
           nextAttempt, launch, beginStep, beginStepFails, completeStep

\* Work of a stage starts only when all earlier stages are complete, steps with
\* continueOnError aside (engine.run, group.Wait).
THEOREM StageOrder == Spec => StagesInOrder
<1>1. ASSUME IInv, [Next]_vars
      PROVE  [\A i, j \in Items : Stage[j] < Stage[i] /\ applied'[i] # applied[i] /\ j \notin Continue =>
                \A r \in Rows[j] : applied[j][r] = 1]_vars
  <2> SUFFICES ASSUME Next, NEW i \in Items, NEW j \in Items \ Continue, Stage[j] < Stage[i],
                      applied'[i] # applied[i]
               PROVE  \A r \in Rows[j] : applied[j][r] = 1
    BY <1>1
  <2>1. report = "none" /\ worker[i] \in {"active", "executing"}
    BY <1>1, Effect
  <2>2. Stage[i] = stage
    BY <1>1, <2>1 DEF IInv, StageIsolation
  <2>3. record[j].done
    BY <1>1, <2>1, <2>2 DEF IInv, StageIsolation
  <2> QED BY <1>1, <2>1, <2>3, DoneIsComplete
<1> QED BY <1>1, Invariance, PTL DEF Spec, StagesInOrder

\* A dry run never leaves stage 0.
DryInv == dryRun => stage = 0 /\ DryRunWritesNothing

\* A dry run writes neither data nor progress (engine.run).
THEOREM DryRunSafe == Spec => []DryRunWritesNothing
<1>1. Init => DryInv
  BY DEF Init, DryInv, DryRunWritesNothing
<1>2. IInv /\ DryInv /\ [Next]_vars => DryInv'
  <2> SUFFICES ASSUME IInv, DryInv, [Next]_vars, dryRun, dryRun' PROVE DryInv'
    BY Zenon DEF DryInv, Next, RunnerStep, vars, prepare, nextStage, groupFails, dropCheckpoint, nextAttempt,
           launch, ProcessPage, pageFails, beginStep, beginStepFails, Execute, completeStep, crash
  <2>1. stage = 0 /\ ~Running /\ ~planDone
    BY PlanAssumption DEF DryInv, Running, planDone
  <2>2. stage' = 0 /\ record' = record
    BY <2>1, Zenon DEF Next, RunnerStep, vars, prepare, writes, nextStage, groupFails, dropCheckpoint,
           nextAttempt, launch, ProcessPage, pageFails, beginStep, beginStepFails, Execute,
           completeStep, crash
  <2>3. applied' = applied
    <3>1. CASE crash
      <4>1. report = "none" /\ \A i \in Items : worker[i] # "executing"
        <5>1. report = "none"
          BY <3>1 DEF crash
        <5>2. \A i \in Items : Stage[i] # 0
          BY ONLY PlanAssumption
        <5> QED BY <2>1, <5>1, <5>2 DEF IInv, StageIsolation
      <4>2. applied' = [i \in Items |-> applied[i]]
        BY <3>1, <4>1 DEF crash
      <4> QED BY <4>2 DEF IInv, TypeOK
    <3>2. CASE ~crash
      BY <2>1, <3>2, Zenon DEF Next, RunnerStep, vars, prepare, nextStage, groupFails, dropCheckpoint,
           nextAttempt, launch, ProcessPage, pageFails, beginStep, beginStepFails, Execute, completeStep
    <3> QED BY <3>1, <3>2
  <2> QED BY <2>2, <2>3 DEF DryInv, DryRunWritesNothing
<1>3. DryInv => DryRunWritesNothing
  BY DEF DryInv, DryRunWritesNothing
<1> QED BY <1>1, <1>2, <1>3, Invariance, PTL DEF Spec

-----------------------------------------------------------------------------
(* Refinement                                                              *)

\* The units of work and how often each was done, as Contract maps them.
Work == UNION {{i} \X Rows[i] : i \in Items}
Count == [u \in Work |-> applied[u[1]][u[2]]]

LEMMA UnitShape ==
    ASSUME NEW u \in Work
    PROVE  u[1] \in Items /\ u[2] \in Rows[u[1]]
  BY DEF Work

\* The runner starts in an initial state of its contract.
LEMMA RefinesInit == Init => Contract!Init
<1> SUFFICES ASSUME Init PROVE Contract!Init
  OBVIOUS
<1>1. Count = [u \in Work |-> 0]
  <2>1. ASSUME NEW u \in Work PROVE applied[u[1]][u[2]] = 0
    BY UnitShape DEF Init
  <2> QED BY <2>1 DEF Count
<1>2. Outcome = "none"
  BY DEF Init, Outcome
<1> QED BY <1>1, <1>2 DEF Contract!Init, Work, Count

\* Every step of the runner is a step of its contract, or leaves it unchanged.
LEMMA RefinesNext ==
    ASSUME IInv, IInv', [Next]_vars
    PROVE  [Contract!Next]_<<Count, Outcome>>
<1>1. CASE UNCHANGED vars
  BY <1>1 DEF vars, Count, Outcome
<1>2. CASE Next
  <2>1. \A u \in Work : Count[u] \in {0, 1} /\ Count'[u] \in {0, 1}
    <3> TAKE u \in Work
    <3> DEFINE i == u[1]
               r == u[2]
    <3>1. i \in Items /\ r \in Rows[i]
      BY UnitShape
    <3> HIDE DEF i, r
    <3>2. applied[i][r] \in Nat /\ applied[i][r] <= 1 /\ applied'[i][r] \in Nat /\ applied'[i][r] <= 1
      BY <3>1 DEF IInv, TypeOK, AtMostOnce
    <3> QED BY <3>2 DEF Count, i, r
  <2>2. \A u \in Work : Count[u] = 1 => Count'[u] = 1
    <3> SUFFICES ASSUME NEW u \in Work, Count[u] = 1 PROVE Count'[u] = 1
      OBVIOUS
    <3> DEFINE i == u[1]
               r == u[2]
    <3>1. i \in Items /\ r \in Rows[i]
      BY UnitShape
    <3> HIDE DEF i, r
    <3>2. applied[i][r] = 1
      BY DEF Count, i, r
    <3>3. applied'[i][r] \in {1, 2}
      BY <1>2, <3>1, <3>2, Effect
    <3>4. Count'[u] \in {1, 2}
      BY <3>3 DEF Count, i, r
    <3> QED BY <3>4, <2>1
  <2>3. DEFINE U == {u \in Work : Count[u] = 0 /\ Count'[u] = 1}
  <2>4. /\ U \in SUBSET {u \in Work : Count[u] = 0}
        /\ Count' = [u \in Work |-> IF u \in U THEN 1 ELSE Count[u]]
    <3>1. \A u \in Work : Count'[u] = IF u \in U THEN 1 ELSE Count[u]
      BY <2>1, <2>2
    <3>2. Count' = [u \in Work |-> Count'[u]]
      BY DEF Count
    <3> QED BY <3>1, <3>2
  <2> HIDE DEF U
  <2>5. CASE nextAttempt
    <3>1. Outcome = "retryable" /\ Outcome' = "none" /\ Count' = Count
      BY <2>5 DEF nextAttempt, retryable, Outcome, Count
    <3> QED BY <3>1 DEF Contract!Next, Contract!Retry, Work, Count
  <2>6. CASE report = "none" /\ Outcome' # "ok"
    <3>1. Outcome = "none" /\ Outcome' \in {Outcome, "retryable", "final"}
      BY <2>6 DEF Outcome
    <3>2. Contract!Work
      BY <2>4, <3>1, Zenon DEF Contract!Work, Work, Count
    <3> QED BY <3>2 DEF Contract!Next
  <2>7. CASE report = "none" /\ Outcome' = "ok"
    <3>1. Outcome = "none" /\ report' = "ok" /\ ~dryRun'
      BY <2>7 DEF Outcome
    <3>2. applied' = applied
      BY <1>2, <3>1, Effect
    <3>3. ASSUME NEW u \in UNION {{i} \X Rows[i] : i \in Items \ Continue}
          PROVE  Count[u] = 1
      <4>1. PICK i \in Items \ Continue : u \in {i} \X Rows[i]
        OBVIOUS
      <4>2. u \in Work /\ u[1] = i /\ u[2] \in Rows[i]
        BY <4>1 DEF Work
      <4>3. applied[i][u[2]] = 1
        BY <3>1, <3>2, <4>2 DEF IInv, OkMeansComplete
      <4> QED BY <4>2, <4>3 DEF Count
    <3>4. Contract!Succeed
      BY <2>7, <3>1, <3>2, <3>3 DEF Contract!Succeed, Count, Work
    <3> QED BY <3>4 DEF Contract!Next
  <2>8. CASE report # "none" /\ ~nextAttempt
    <3>1. report' = report /\ applied' = applied /\ dryRun' = dryRun
      BY <1>2, <2>8, Zenon DEF Next, RunnerStep, vars, Running, prepare, nextStage, groupFails, dropCheckpoint,
           launch, ProcessPage, pageFails, beginStep, beginStepFails, Execute, completeStep, crash
    <3> QED BY <3>1 DEF Count, Outcome
  <2> QED BY <2>5, <2>6, <2>7, <2>8
<1> QED BY <1>1, <1>2

\* The runner implements its contract with the controller, for every plan:
\* units of work happen at most once over all attempts, only while an attempt
\* runs, and a success report comes after all the required ones.
THEOREM Refinement == Spec => ImplementsContract
<1>1. IInv /\ IInv' /\ [Next]_vars => [Contract!Next]_<<Count, Outcome>>
  BY RefinesNext
<1> QED BY <1>1, RefinesInit, Invariance, PTL DEF Spec, ImplementsContract, Contract!Spec, Count, Work

=============================================================================
