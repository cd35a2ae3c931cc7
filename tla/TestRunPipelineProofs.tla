------------------------ MODULE TestRunPipelineProofs ------------------------
(***************************************************************************)
(* Proofs about the pipeline, for every set of runs, slots and cancels and *)
(* every value of the bounds.                                              *)
(***************************************************************************)
EXTENDS TestRunPipelineProps, TLAPS

-----------------------------------------------------------------------------
(* What the helpers do to the variables.                                   *)

\* The values a row, a cancel or a processor's locals start from.
LEMMA InitialValuesType == NoJobRow \in JobRows /\ NoCancel \in CancelRequests /\ NoTask \in Tasks
BY DEF NoJobRow, JobRows, JobRowStatuses, NoCancel, CancelRequests, CancelSteps, NoTask, Tasks

\* Changing one field of a processor's locals keeps their type and their run.
LEMMA TaskUpdateType ==
    ASSUME NEW t \in Tasks
    PROVE  /\ \A x \in TestRunStatuses \cup {NoRow} :
                [t EXCEPT !.row = x] \in Tasks /\ [t EXCEPT !.row = x].run = t.run
           /\ \A o \in Outcomes :
                [t EXCEPT !.outcome = o] \in Tasks /\ [t EXCEPT !.outcome = o].run = t.run
BY DEF Tasks

LEMMA NewTaskType ==
    ASSUME NEW r \in Runs, NEW n \in Nat
    PROVE  /\ [NoTask EXCEPT !.run = r, !.attempt = n] \in Tasks
           /\ [NoTask EXCEPT !.run = r, !.attempt = n].run = r
BY DEF Tasks, NoTask

\* Moving a cancel on keeps its type and its run.
LEMMA CancelUpdateType ==
    ASSUME NEW c \in CancelRequests, NEW step \in CancelSteps
    PROVE  /\ [c EXCEPT !.pc = step] \in CancelRequests
           /\ [c EXCEPT !.pc = step].run = c.run
BY DEF CancelRequests

\* The budgets stay numbers.
BudgetsOK == /\ faults \in Nat /\ crashes \in Nat /\ dropped \in Nat
             /\ lockLosses \in Nat /\ cancels \in Nat

LEMMA BudgetType ==
    ASSUME TypeOK, Fault \/ RequestDeath \/ UNCHANGED budgetVars
    PROVE  BudgetsOK'
BY DEF TypeOK, BudgetsOK, Fault, RequestDeath, budgetVars

-----------------------------------------------------------------------------
(* The shape of a processor's step.                                        *)

Continues(s) == \E step \in SlotSteps \ {"idle"} : Goto(s, step)

KeepsRun(s) ==
    \/ UNCHANGED task
    \/ \E x \in TestRunStatuses \cup {NoRow} : task' = [task EXCEPT ![s].row = x]
    \/ \E o \in Outcomes : task' = [task EXCEPT ![s].outcome = o]

Returns(s) ==
    \E to \in {"completed", "delayed", "failed"}, made \in Nat : JobReturns(s, to, made)

\* An exception and an answered call both leave the processor busy.
LEMMA ThrowContinues ==
    ASSUME NEW s \in Slots, Throw(s)
    PROVE  Continues(s)
<1>1. (IF pc[s] \in TryBlock THEN "recordFailed" ELSE "reject") \in SlotSteps \ {"idle"}
  BY DEF SlotSteps
<1> QED BY <1>1 DEF Throw, Continues

LEMMA RepliesContinues ==
    ASSUME TypeOK, NEW s \in Slots, NEW step \in SlotSteps \ {"idle"}, Replies(s, step)
    PROVE  Continues(s) /\ BudgetsOK'
BY ThrowContinues, BudgetType DEF Replies, Continues

\* Loading the row yields a status or nothing.
LEMMA LoadKeepsRun ==
    ASSUME TypeOK, NEW s \in Slots, pc[s] # "idle", LoadTestRun(s)
    PROVE  KeepsRun(s)
<1>1. status[task[s].run] \in TestRunStatuses \cup {NoRow}
  BY DEF TypeOK
<1> QED BY <1>1 DEF LoadTestRun, KeepsRun

\* Every step of an attempt either moves the processor on with its run, or
\* ends it and frees the processor.
LEMMA AttemptShape ==
    ASSUME TypeOK, NEW s \in Slots, AttemptStep(s) \/ CallFails(s)
    PROVE  /\ pc[s] # "idle"
           /\ \/ Continues(s) /\ KeepsRun(s) /\ UNCHANGED queueVars
              \/ Returns(s)
<1> USE DEF TryBlock, SlotSteps
<1>1. CASE LoadForAttempt(s)
  BY <1>1, LoadKeepsRun DEF LoadForAttempt, Continues
<1>2. CASE MarkActive(s)
  BY <1>2, RepliesContinues DEF MarkActive, KeepsRun
<1>3. CASE AdvanceToRunning(s)
  <2>1. PICK hop \in {<<"queued", "starting", "advance">>, <<"starting", "running", "execute">>} :
            task' = [task EXCEPT ![s].row = hop[2]] /\ Replies(s, hop[3])
    BY <1>3 DEF AdvanceToRunning
  <2>2. hop[2] \in TestRunStatuses /\ hop[3] \in SlotSteps \ {"idle"}
    BY <2>1 DEF TestRunStatuses
  <2>3. Continues(s) /\ KeepsRun(s)
    BY <2>1, <2>2, RepliesContinues DEF KeepsRun
  <2> QED BY <1>3, <2>3 DEF AdvanceToRunning
<1>4. CASE Execute(s)
  BY <1>4, ThrowContinues DEF Execute, Continues, KeepsRun
<1>5. CASE ClearTestResults(s)
  BY <1>5, RepliesContinues DEF ClearTestResults, KeepsRun
<1>6. CASE InsertTestResults(s)
  BY <1>6, RepliesContinues DEF InsertTestResults, Continues, KeepsRun
<1>7. CASE WriteArtifacts(s)
  BY <1>7, ThrowContinues DEF WriteArtifacts, Continues, KeepsRun
<1>8. CASE ReloadTestRun(s)
  BY <1>8, LoadKeepsRun DEF ReloadTestRun, Continues
<1>9. CASE FinishTestRun(s)
  BY <1>9, RepliesContinues, ThrowContinues DEF FinishTestRun, KeepsRun
<1>10. CASE RecordJobCompleted(s)
  BY <1>10, RepliesContinues DEF RecordJobCompleted, KeepsRun
<1>11. CASE RecordJobFailed(s)
  BY <1>11, RepliesContinues DEF RecordJobFailed, KeepsRun
<1>12. CASE ReloadForFailure(s)
  BY <1>12, LoadKeepsRun DEF ReloadForFailure, Continues
<1>13. CASE FailTestRun(s)
  BY <1>13, RepliesContinues DEF FailTestRun, KeepsRun
<1>14. CASE RunIsGone(s)
  BY <1>14, ThrowContinues DEF RunIsGone, KeepsRun
<1>15. CASE ProcessorResolves(s)
  <2>1. attemptsMade[task[s].run] \in Nat
    BY <1>15 DEF ProcessorResolves, TypeOK
  <2> QED BY <1>15, <2>1 DEF ProcessorResolves, Returns
<1>16. CASE ProcessorRejects(s)
  <2>1. attemptsMade[task[s].run] + 1 \in Nat
    BY <1>16 DEF ProcessorRejects, TypeOK
  <2>2. PICK to \in {"delayed", "failed"} : JobReturns(s, to, attemptsMade[task[s].run] + 1)
    BY <1>16 DEF ProcessorRejects
  <2> QED BY <1>16, <2>1, <2>2 DEF ProcessorRejects, Returns
<1>17. CASE CallFails(s)
  BY <1>17, ThrowContinues DEF CallFails, KeepsRun
<1> QED
  BY <1>1, <1>2, <1>3, <1>4, <1>5, <1>6, <1>7, <1>8, <1>9, <1>10, <1>11, <1>12,
     <1>13, <1>14, <1>15, <1>16, <1>17 DEF AttemptStep

\* Hence a processor is well typed after its step, and busy only with a run.
SlotsOK ==
    /\ pc \in [Slots -> SlotSteps]
    /\ task \in [Slots -> Tasks]
    /\ \A s \in Slots : pc[s] = "idle" \/ task[s].run \in Runs

LEMMA AttemptType ==
    ASSUME TypeOK, NEW s \in Slots, AttemptStep(s) \/ CallFails(s)
    PROVE  SlotsOK'
<1>1. /\ pc \in [Slots -> SlotSteps] /\ task \in [Slots -> Tasks]
      /\ \A t \in Slots : pc[t] = "idle" \/ task[t].run \in Runs
      /\ "idle" \in SlotSteps
  BY DEF TypeOK, SlotSteps
<1>2. pc[s] # "idle"
  BY AttemptShape
<1>3. CASE Continues(s) /\ KeepsRun(s)
  <2>1. pc' \in [Slots -> SlotSteps]
    BY <1>1, <1>3 DEF Continues, Goto
  <2>2. PICK t \in Tasks : task' = [task EXCEPT ![s] = t] /\ t.run = task[s].run
    <3>1. CASE UNCHANGED task
      BY <1>1, <3>1
    <3>2. CASE \E x \in TestRunStatuses \cup {NoRow} : task' = [task EXCEPT ![s].row = x]
      <4>1. PICK x \in TestRunStatuses \cup {NoRow} : task' = [task EXCEPT ![s] = [task[s] EXCEPT !.row = x]]
        BY <3>2
      <4> QED BY <1>1, <4>1, TaskUpdateType
    <3>3. CASE \E o \in Outcomes : task' = [task EXCEPT ![s].outcome = o]
      <4>1. PICK o \in Outcomes : task' = [task EXCEPT ![s] = [task[s] EXCEPT !.outcome = o]]
        BY <3>3
      <4> QED BY <1>1, <4>1, TaskUpdateType
    <3> QED BY <1>3, <3>1, <3>2, <3>3 DEF KeepsRun
  <2>3. task' \in [Slots -> Tasks]
    BY <1>1, <2>2
  <2>4. \A q \in Slots : pc'[q] = "idle" \/ task'[q].run \in Runs
    BY <1>1, <1>2, <1>3, <2>2 DEF Continues, Goto
  <2> QED BY <2>1, <2>3, <2>4 DEF SlotsOK
<1>4. CASE Returns(s)
  BY <1>1, <1>4, InitialValuesType DEF Returns, JobReturns, SlotsOK
<1> QED BY <1>3, <1>4, AttemptShape

-----------------------------------------------------------------------------
(* Type correctness.                                                       *)

RowsOK ==
    /\ status \in [Runs -> TestRunStatuses \cup {NoRow}]
    /\ jobRow \in [Runs -> JobRows]
    /\ results \in [Runs -> SUBSET Batches]

QueueOK ==
    /\ jobState \in [Runs -> JobStates]
    /\ attemptsMade \in [Runs -> Nat]
    /\ stalls \in [Runs -> Nat]
    /\ lock \in [Runs -> Slots \cup {None}]

RequestsOK ==
    /\ request \in [Runs -> RequestSteps]
    /\ cancel \in [Users -> CancelRequests]
    /\ \A u \in Users : cancel[u].pc = "idle" \/ cancel[u].run \in Runs

\* The type invariant has one part per group of variables.
LEMMA TypeParts == TypeOK <=> RowsOK /\ QueueOK /\ RequestsOK /\ SlotsOK /\ BudgetsOK
BY Zenon DEF TypeOK, RowsOK, QueueOK, RequestsOK, SlotsOK, BudgetsOK

\* A group that does not change keeps its type.
LEMMA UnchangedParts ==
    /\ RowsOK /\ UNCHANGED rowVars => RowsOK'
    /\ QueueOK /\ UNCHANGED queueVars => QueueOK'
    /\ RequestsOK /\ UNCHANGED requestVars => RequestsOK'
    /\ SlotsOK /\ UNCHANGED slotVars => SlotsOK'
    /\ BudgetsOK /\ UNCHANGED budgetVars => BudgetsOK'
BY DEF RowsOK, QueueOK, RequestsOK, SlotsOK, BudgetsOK,
       rowVars, queueVars, requestVars, slotVars, budgetVars

\* A step of a cancelTestRun request keeps its run or ends it.
LEMMA CancelType ==
    ASSUME RequestsOK, NEW u \in Users, UNCHANGED request,
           \/ \E step \in CancelSteps : CancelGoto(u, step) /\ cancel[u].pc # "idle"
           \/ CancelReturns(u)
    PROVE  RequestsOK'
<1>1. CASE \E step \in CancelSteps : CancelGoto(u, step) /\ cancel[u].pc # "idle"
  <2>1. PICK step \in CancelSteps :
            cancel' = [cancel EXCEPT ![u] = [cancel[u] EXCEPT !.pc = step]] /\ cancel[u].pc # "idle"
    BY <1>1 DEF CancelGoto
  <2>2. [cancel[u] EXCEPT !.pc = step] \in CancelRequests
        /\ [cancel[u] EXCEPT !.pc = step].run \in Runs
    BY <2>1, CancelUpdateType DEF RequestsOK
  <2> QED BY <2>1, <2>2 DEF RequestsOK
<1>2. CASE CancelReturns(u)
  <2>1. NoCancel.pc = "idle"
    BY DEF NoCancel
  <2> QED BY <1>2, <2>1, InitialValuesType DEF RequestsOK, CancelReturns
<1> QED BY <1>1, <1>2

LEMMA ProceedType ==
    ASSUME RequestsOK, NEW r \in Runs, NEW step \in RequestSteps, Proceed(r, step), UNCHANGED cancel
    PROVE  RequestsOK'
BY DEF RequestsOK, Proceed

\* The transition map leads from statuses to statuses, and never on from a
\* terminal one.
LEMMA TransitionsType ==
    ASSUME NEW from, NEW to, CanTransitionTestRunStatus(from, to)
    PROVE  /\ from \in TestRunStatuses \ TestRunTerminalStatuses
           /\ to \in TestRunStatuses
BY DEF CanTransitionTestRunStatus, TestRunTransitions, TestRunStatuses, TestRunTerminalStatuses

\* A status write keeps the type of the rows.
LEMMA StatusType ==
    ASSUME RowsOK, NEW r \in Runs, NEW to \in TestRunStatuses, UNCHANGED <<jobRow, results>>,
           \/ UpdateStatus(r, to)
           \/ status' = [status EXCEPT ![r] = to]
           \/ UNCHANGED status
    PROVE  RowsOK'
BY DEF RowsOK, UpdateStatus

\* So does an upsert of the job's row.
LEMMA UpsertType ==
    ASSUME TypeOK, NEW s \in Slots, NEW to \in JobRowStatuses, UpsertJobRecord(s, to),
           task[s].run \in Runs, UNCHANGED <<status, results>>
    PROVE  RowsOK'
<1>1. task[s].attempt \in Nat
  BY DEF TypeOK, Tasks
<1>2. [status |-> to, attempts |-> task[s].attempt] \in JobRows
  BY <1>1 DEF JobRows
<1> QED BY <1>2 DEF TypeOK, RowsOK, UpsertJobRecord

\* An attempt changes rows, queue and budgets within their types.
LEMMA AttemptKeepsRest ==
    ASSUME TypeOK, NEW s \in Slots, AttemptStep(s)
    PROVE  RowsOK' /\ QueueOK' /\ RequestsOK' /\ BudgetsOK'
<1>1. RowsOK /\ QueueOK /\ RequestsOK /\ SlotsOK /\ BudgetsOK
  BY TypeParts
<1>2. task[s].run \in Runs
  BY <1>1, AttemptShape DEF SlotsOK
<1> USE DEF TryBlock, SlotSteps
<1>3. CASE LoadForAttempt(s)
  BY <1>1, <1>3, UnchangedParts DEF LoadForAttempt
<1>4. CASE MarkActive(s)
  BY <1>1, <1>2, <1>4, RepliesContinues, UpsertType, UnchangedParts DEF MarkActive, JobRowStatuses
<1>5. CASE AdvanceToRunning(s)
  <2>1. PICK hop \in {<<"queued", "starting", "advance">>, <<"starting", "running", "execute">>} :
            TransitionTestRun(s, hop[2]) /\ Replies(s, hop[3])
    BY <1>5 DEF AdvanceToRunning
  <2>2. hop[2] \in TestRunStatuses /\ hop[3] \in SlotSteps \ {"idle"}
    BY <2>1 DEF TestRunStatuses
  <2>3. UNCHANGED <<jobRow, results>> /\ status' = [status EXCEPT ![task[s].run] = hop[2]]
    BY <1>5, <2>1 DEF AdvanceToRunning, TransitionTestRun
  <2>4. RowsOK'
    BY <1>1, <1>2, <2>2, <2>3, StatusType
  <2> QED BY <1>1, <1>5, <2>1, <2>2, <2>4, RepliesContinues, UnchangedParts DEF AdvanceToRunning
<1>6. CASE Execute(s)
  BY <1>1, <1>6, UnchangedParts DEF Execute
<1>7. CASE ClearTestResults(s)
  <2>1. RowsOK'
    BY <1>1, <1>7 DEF ClearTestResults, RowsOK
  <2> QED BY <1>1, <1>7, <2>1, RepliesContinues, UnchangedParts DEF ClearTestResults
<1>8. CASE InsertTestResults(s)
  <2>1. RowsOK'
    <3>1. CASE UNCHANGED results
      BY <1>1, <1>8, <3>1 DEF InsertTestResults, RowsOK
    <3>2. CASE /\ task[s].outcome # "empty"
               /\ results' = [results EXCEPT ![task[s].run] = @ \cup {Batch(s)}]
      <4>1. Batch(s) \in Batches
        BY <1>1 DEF Batch, Batches, SlotsOK, Tasks
      <4> QED BY <1>1, <1>2, <1>8, <3>2, <4>1 DEF InsertTestResults, RowsOK
    <3> QED BY <1>8, <3>1, <3>2 DEF InsertTestResults
  <2>2. BudgetsOK'
    BY <1>1, <1>8, RepliesContinues, UnchangedParts DEF InsertTestResults
  <2> QED BY <1>1, <1>8, <2>1, <2>2, UnchangedParts DEF InsertTestResults
<1>9. CASE WriteArtifacts(s)
  BY <1>1, <1>9, UnchangedParts DEF WriteArtifacts
<1>10. CASE ReloadTestRun(s)
  BY <1>1, <1>10, UnchangedParts DEF ReloadTestRun
<1>11. CASE FinishTestRun(s)
  <2>1. CASE TransitionTestRun(s, FinalStatus(task[s].outcome)) /\ Replies(s, "recordDone")
    <3>1. FinalStatus(task[s].outcome) \in TestRunStatuses
      BY <2>1, TransitionsType DEF TransitionTestRun
    <3>2. RowsOK'
      BY <1>1, <1>2, <1>11, <2>1, <3>1, StatusType DEF FinishTestRun, TransitionTestRun
    <3> QED BY <1>1, <1>11, <2>1, <3>2, RepliesContinues, UnchangedParts DEF FinishTestRun
  <2>2. CASE UNCHANGED <<status, budgetVars>>
    BY <1>1, <1>11, <2>2, UnchangedParts DEF FinishTestRun, rowVars
  <2> QED BY <1>11, <2>1, <2>2 DEF FinishTestRun
<1>12. CASE RecordJobCompleted(s)
  BY <1>1, <1>2, <1>12, RepliesContinues, UpsertType, UnchangedParts DEF RecordJobCompleted, JobRowStatuses
<1>13. CASE RecordJobFailed(s)
  BY <1>1, <1>2, <1>13, RepliesContinues, UpsertType, UnchangedParts DEF RecordJobFailed, JobRowStatuses
<1>14. CASE ReloadForFailure(s)
  BY <1>1, <1>14, UnchangedParts DEF ReloadForFailure
<1>15. CASE FailTestRun(s)
  <2>1. RowsOK'
    BY <1>1, <1>2, <1>15, TransitionsType, StatusType DEF FailTestRun, TransitionTestRun
  <2> QED BY <1>1, <1>15, <2>1, RepliesContinues, UnchangedParts DEF FailTestRun
<1>16. CASE RunIsGone(s)
  BY <1>1, <1>16, UnchangedParts DEF RunIsGone
<1>17. CASE ProcessorResolves(s)
  BY <1>1, <1>2, <1>17, UnchangedParts DEF ProcessorResolves, JobReturns, QueueOK, JobStates, requestVars
<1>18. CASE ProcessorRejects(s)
  BY <1>1, <1>2, <1>18, UnchangedParts DEF ProcessorRejects, JobReturns, QueueOK, JobStates, requestVars
<1> QED
  BY <1>3, <1>4, <1>5, <1>6, <1>7, <1>8, <1>9, <1>10, <1>11, <1>12, <1>13, <1>14,
     <1>15, <1>16, <1>17, <1>18 DEF AttemptStep

\* The type invariant: every variable keeps to the values its code can give it.
THEOREM TypeCorrect == Spec => []TypeOK
<1>1. Init => TypeOK
  BY InitialValuesType DEF Init, TypeOK, NoCancel, NoTask, JobStates, RequestSteps, SlotSteps
<1>2. TypeOK /\ [Next]_vars => TypeOK'
  <2> SUFFICES ASSUME TypeOK, [Next]_vars
               PROVE  RowsOK' /\ QueueOK' /\ RequestsOK' /\ SlotsOK' /\ BudgetsOK'
    BY TypeParts DEF TypeOK, RowsOK, QueueOK, RequestsOK, SlotsOK, BudgetsOK
  <2>0. RowsOK /\ QueueOK /\ RequestsOK /\ SlotsOK /\ BudgetsOK
    BY TypeParts
  <2> DEFINE Parts == RowsOK /\ QueueOK /\ RequestsOK /\ SlotsOK /\ BudgetsOK
  <2> USE <2>0, UnchangedParts
  <2>1. ASSUME NEW r \in Runs, CreateTestRun(r)
        PROVE  Parts'
    BY <2>1, StatusType, ProceedType DEF CreateTestRun, TestRunStatuses, RequestSteps
  <2>2. ASSUME NEW r \in Runs, RequestStep(r)
        PROVE  Parts'
    <3>1. CASE EnqueueTestRun(r)
      <4>1. QueueOK'
        BY <3>1 DEF EnqueueTestRun, AddJob, QueueOK, JobStates, queueVars
      <4> QED BY <3>1, <4>1, ProceedType, BudgetType DEF EnqueueTestRun, RequestSteps
    <3>2. CASE MarkQueued(r)
      BY <3>2, StatusType, ProceedType, BudgetType
         DEF MarkQueued, MarkRun, TestRunStatuses, RequestSteps
    <3>3. CASE MarkEnqueueFailed(r)
      BY <3>3, StatusType, ProceedType, BudgetType
         DEF MarkEnqueueFailed, MarkRun, TestRunStatuses, RequestSteps
    <3> QED BY <2>2, <3>1, <3>2, <3>3 DEF RequestStep
  <2>3. ASSUME NEW r \in Runs, RequestDies(r)
        PROVE  Parts'
    BY <2>3, ProceedType, BudgetType DEF RequestDies, RequestSteps
  <2>4. ASSUME NEW r \in Runs, DeleteRun(r)
        PROVE  Parts'
    BY <2>4, InitialValuesType DEF DeleteRun, RowsOK
  <2>5. ASSUME NEW r \in Runs, PromoteJob(r)
        PROVE  Parts'
    BY <2>5 DEF PromoteJob, QueueOK, JobStates
  <2>6. ASSUME NEW r \in Runs, RecoverStalledJob(r)
        PROVE  Parts'
    BY <2>6 DEF RecoverStalledJob, QueueOK, JobStates
  <2>7. ASSUME NEW r \in Runs, LoseLock(r)
        PROVE  Parts'
    BY <2>7 DEF LoseLock, QueueOK, BudgetsOK
  <2>8. ASSUME NEW u \in Users, CancelStep(u)
        PROVE  Parts'
    <3>1. CASE InspectJob(u)
      BY <3>1, CancelType, BudgetType DEF InspectJob, CancelSteps
    <3>2. CASE RemoveQueuedJob(u)
      <4>1. cancel[u].run \in Runs
        BY <3>2 DEF RemoveQueuedJob, RequestsOK
      <4>2. QueueOK'
        BY <3>2, <4>1 DEF RemoveQueuedJob, QueueOK, JobStates
      <4> QED BY <3>2, <4>2, CancelType, BudgetType DEF RemoveQueuedJob, CancelSteps
    <3>3. CASE WriteCancelled(u)
      <4>1. cancel[u].run \in Runs
        BY <3>3 DEF WriteCancelled, RequestsOK
      <4> QED BY <3>3, <4>1, StatusType, CancelType, BudgetType DEF WriteCancelled, TestRunStatuses
    <3> QED BY <2>8, <3>1, <3>2, <3>3 DEF CancelStep
  <2>9. ASSUME NEW u \in Users, CancelDies(u)
        PROVE  Parts'
    BY <2>9, CancelType, BudgetType DEF CancelDies
  <2>10. ASSUME NEW u \in Users, NEW r \in Runs, CancelTestRun(u, r)
         PROVE  Parts'
    <3>1. [pc |-> "inspect", run |-> r] \in CancelRequests
      BY DEF CancelRequests, CancelSteps
    <3>2. RequestsOK'
      BY <2>10, <3>1 DEF CancelTestRun, RequestsOK
    <3> QED BY <2>10, <3>2 DEF CancelTestRun, BudgetsOK
  <2>11. ASSUME NEW s \in Slots, AttemptStep(s)
         PROVE  Parts'
    BY <2>11, AttemptType, AttemptKeepsRest
  <2>12. ASSUME NEW s \in Slots, CallFails(s)
         PROVE  Parts'
    BY <2>12, AttemptType, BudgetType DEF CallFails
  <2>13. ASSUME NEW s \in Slots, WorkerDies(s)
         PROVE  Parts'
    <3>1. QueueOK' /\ BudgetsOK'
      BY <2>13 DEF WorkerDies, QueueOK, BudgetsOK
    <3>2. SlotsOK'
      BY <2>13, InitialValuesType DEF WorkerDies, SlotsOK, SlotSteps
    <3> QED BY <2>13, <3>1, <3>2 DEF WorkerDies
  <2>14. ASSUME NEW s \in Slots, NEW r \in Runs, TakeJob(s, r)
         PROVE  Parts'
    <3>1. attemptsMade[r] + 1 \in Nat
      BY DEF QueueOK
    <3>2. PICK t \in Tasks : task' = [task EXCEPT ![s] = t] /\ t.run = r
      BY <2>14, <3>1, NewTaskType DEF TakeJob
    <3>3. SlotsOK'
      BY <2>14, <3>2 DEF TakeJob, SlotsOK, SlotSteps
    <3> QED BY <2>14, <3>3 DEF TakeJob, QueueOK, JobStates
  <2>15. CASE UNCHANGED vars
    BY <2>15 DEF vars
  <2> QED
    BY <2>1, <2>2, <2>3, <2>4, <2>5, <2>6, <2>7, <2>8, <2>9, <2>10, <2>11, <2>12,
       <2>13, <2>14, <2>15 DEF Next
<1> QED BY <1>1, <1>2, PTL DEF Spec

-----------------------------------------------------------------------------
(* The job's lock.                                                         *)

\* The runs the processors work on do not change unless one of them returns.
LEMMA RunsKept ==
    ASSUME TypeOK, NEW s \in Slots, KeepsRun(s)
    PROVE  \A t \in Slots : task'[t].run = task[t].run
<1>1. \A t \in Slots : task[t] \in Tasks
  BY DEF TypeOK
<1>2. CASE \E x \in TestRunStatuses \cup {NoRow} : task' = [task EXCEPT ![s].row = x]
  <2>1. PICK x \in TestRunStatuses \cup {NoRow} : task' = [task EXCEPT ![s] = [task[s] EXCEPT !.row = x]]
    BY <1>2
  <2> QED BY <1>1, <2>1, TaskUpdateType DEF TypeOK
<1>3. CASE \E o \in Outcomes : task' = [task EXCEPT ![s].outcome = o]
  <2>1. PICK o \in Outcomes : task' = [task EXCEPT ![s] = [task[s] EXCEPT !.outcome = o]]
    BY <1>3
  <2> QED BY <1>1, <2>1, TaskUpdateType DEF TypeOK
<1> QED BY <1>2, <1>3 DEF KeepsRun

\* A lost lock stays counted.
LEMMA LossesGrow == TypeOK /\ [Next]_vars /\ lockLosses' = 0 => lockLosses = 0
<1> SUFFICES ASSUME TypeOK, [Next]_vars
             PROVE  UNCHANGED lockLosses \/ lockLosses' = lockLosses + 1
  BY DEF TypeOK
<1> USE DEF budgetVars, Fault, RequestDeath
<1>1. ASSUME NEW r \in Runs,
             \/ CreateTestRun(r) \/ RequestStep(r) \/ RequestDies(r) \/ DeleteRun(r)
             \/ PromoteJob(r) \/ RecoverStalledJob(r) \/ LoseLock(r)
      PROVE  UNCHANGED lockLosses \/ lockLosses' = lockLosses + 1
  BY <1>1 DEF CreateTestRun, RequestStep, EnqueueTestRun, MarkQueued, MarkEnqueueFailed, MarkRun,
              RequestDies, DeleteRun, PromoteJob, RecoverStalledJob, LoseLock
<1>2. ASSUME NEW u \in Users, CancelStep(u) \/ CancelDies(u) \/ \E r \in Runs : CancelTestRun(u, r)
      PROVE  UNCHANGED lockLosses
  BY <1>2 DEF CancelStep, InspectJob, RemoveQueuedJob, WriteCancelled, CancelDies, CancelTestRun
<1>3. ASSUME NEW s \in Slots, AttemptStep(s)
      PROVE  UNCHANGED lockLosses
  BY <1>3 DEF AttemptStep, LoadForAttempt, MarkActive, AdvanceToRunning, Execute,
       ClearTestResults, InsertTestResults, WriteArtifacts, ReloadTestRun, FinishTestRun,
       RecordJobCompleted, RecordJobFailed, ReloadForFailure, FailTestRun, RunIsGone,
       ProcessorResolves, ProcessorRejects, JobReturns, Replies
<1>4. ASSUME NEW s \in Slots, CallFails(s) \/ WorkerDies(s) \/ \E r \in Runs : TakeJob(s, r)
      PROVE  UNCHANGED lockLosses
  BY <1>4 DEF CallFails, WorkerDies, TakeJob
<1>5. CASE UNCHANGED vars
  BY <1>5 DEF vars
<1> QED BY <1>1, <1>2, <1>3, <1>4, <1>5 DEF Next

\* Only an active job is locked.
LockedIsActive == \A r \in Runs : lock[r] # None => jobState[r] = "active"

\* While no lock has been lost, a busy processor holds the lock of its job:
\* with LockedIsActive, the inductive invariant behind OneProcessorPerRun.
LockHeld == \A s \in Slots : pc[s] # "idle" => lock[task[s].run] = s

LockInv == LockedIsActive /\ (lockLosses = 0 => LockHeld)

LEMMA LockInit == Init => LockInv
BY DEF Init, LockInv, LockedIsActive, LockHeld

LEMMA LockStep == TypeOK /\ LockInv /\ [Next]_vars => LockInv'
<1> SUFFICES ASSUME TypeOK, LockInv, [Next]_vars
             PROVE  LockedIsActive' /\ (LockHeld /\ lockLosses' = 0 => LockHeld')
  BY LossesGrow DEF LockInv
<1> DEFINE Goal == LockedIsActive' /\ (LockHeld /\ lockLosses' = 0 => LockHeld')
<1> USE DEF queueVars, slotVars
<1>1. QueueOK /\ SlotsOK /\ RequestsOK /\ BudgetsOK /\ LockedIsActive
  BY TypeParts DEF LockInv
<1>2. None \notin Slots
  BY ConstantsAssumption DEF ConstantsAssumption
<1>3. ASSUME UNCHANGED <<lock, slotVars>>,
             \A r \in Runs : jobState'[r] = jobState[r] \/ lock[r] = None \/ jobState[r] # "active"
      PROVE  Goal
  BY <1>1, <1>3 DEF LockedIsActive, LockHeld
<1>4. ASSUME NEW r \in Runs,
             \/ CreateTestRun(r) \/ RequestStep(r) \/ RequestDies(r) \/ DeleteRun(r)
             \/ PromoteJob(r) \/ RecoverStalledJob(r)
      PROVE  Goal
  <2>1. CASE CreateTestRun(r) \/ RequestDies(r) \/ DeleteRun(r) \/ PromoteJob(r) \/ RecoverStalledJob(r)
    BY <1>1, <1>3, <2>1 DEF CreateTestRun, RequestDies, DeleteRun, PromoteJob, RecoverStalledJob, QueueOK
  <2>2. CASE EnqueueTestRun(r)
    <3>1. UNCHANGED <<lock, slotVars>> /\ (AddJob(r) \/ UNCHANGED jobState)
      BY <2>2 DEF EnqueueTestRun, AddJob
    <3> QED BY <1>1, <1>3, <3>1 DEF AddJob, QueueOK
  <2>3. CASE MarkQueued(r) \/ MarkEnqueueFailed(r)
    BY <1>3, <2>3 DEF MarkQueued, MarkEnqueueFailed, MarkRun
  <2> QED BY <1>4, <2>1, <2>2, <2>3 DEF RequestStep
<1>5. ASSUME NEW r \in Runs, LoseLock(r)
      PROVE  Goal
  BY <1>1, <1>5 DEF LoseLock, BudgetsOK, QueueOK, LockedIsActive
<1>6. ASSUME NEW u \in Users, CancelStep(u) \/ CancelDies(u) \/ \E r \in Runs : CancelTestRun(u, r)
      PROVE  Goal
  <2>1. UNCHANGED <<lock, slotVars>>
    BY <1>6 DEF CancelStep, InspectJob, RemoveQueuedJob, WriteCancelled, CancelDies, CancelTestRun
  <2>2. \A q \in Runs : jobState'[q] = jobState[q] \/ lock[q] = None
    BY <1>1, <1>6 DEF CancelStep, InspectJob, RemoveQueuedJob, WriteCancelled, CancelDies,
                      CancelTestRun, QueueOK, RequestsOK
  <2> QED BY <1>3, <2>1, <2>2
<1>7. ASSUME NEW s \in Slots, AttemptStep(s) \/ CallFails(s)
      PROVE  Goal
  <2>1. pc[s] # "idle"
    BY <1>7, AttemptShape
  <2>2. CASE Continues(s) /\ KeepsRun(s) /\ UNCHANGED queueVars
    BY <1>1, <2>1, <2>2, RunsKept DEF Continues, Goto, LockHeld, LockedIsActive, SlotsOK
  <2>3. CASE Returns(s)
    <3>1. PICK to, made : JobReturns(s, to, made)
      BY <2>3 DEF Returns
    <3>2. LockedIsActive'
      BY <1>1, <2>1, <3>1 DEF JobReturns, LockedIsActive, QueueOK, SlotsOK
    <3>3. LockHeld => LockHeld'
      BY <1>1, <1>2, <2>1, <3>1 DEF JobReturns, LockHeld, QueueOK, SlotsOK, NoTask
    <3> QED BY <3>2, <3>3
  <2> QED BY <1>7, <2>2, <2>3, AttemptShape
<1>8. ASSUME NEW s \in Slots, WorkerDies(s)
      PROVE  Goal
  BY <1>1, <1>8 DEF WorkerDies, LockHeld, LockedIsActive, QueueOK, SlotsOK
<1>9. ASSUME NEW s \in Slots, NEW r \in Runs, TakeJob(s, r)
      PROVE  Goal
  <2>1. lock[r] = None
    BY <1>1, <1>9 DEF TakeJob, LockedIsActive
  <2>2. attemptsMade[r] + 1 \in Nat
    BY <1>1 DEF QueueOK
  <2>3. PICK t \in Tasks : task' = [task EXCEPT ![s] = t] /\ t.run = r
    BY <1>9, <2>2, NewTaskType DEF TakeJob
  <2> QED BY <1>1, <1>2, <1>9, <2>1, <2>3 DEF TakeJob, LockHeld, LockedIsActive, QueueOK, SlotsOK
<1>10. CASE UNCHANGED vars
  BY <1>3, <1>10 DEF vars
<1> QED
  BY <1>4, <1>5, <1>6, <1>7, <1>8, <1>9, <1>10 DEF Next

\* While no live processor has lost its lock, no run is ever in the hands of
\* two processors, whatever crashes, retries, recoveries and cancels happen.
THEOREM OneProcessor == Spec => []OneProcessorPerRun
<1>1. TypeOK /\ LockInv => OneProcessorPerRun
  BY DEF LockInv, LockHeld, OneProcessorPerRun, Processing
<1> QED BY <1>1, TypeCorrect, LockInit, LockStep, PTL DEF Spec

-----------------------------------------------------------------------------
(* The stored results.                                                     *)

\* Before its createTestRun a run has neither a row nor a job.
RequestInv == \A r \in Runs : request[r] = "none" => status[r] = NoRow /\ jobState[r] = "absent"

LEMMA RequestInit == Init => RequestInv
BY DEF Init, RequestInv

\* A step of an attempt touches the rows of its own run only.
LEMMA AttemptIsLocal ==
    ASSUME TypeOK, NEW s \in Slots, AttemptStep(s) \/ CallFails(s)
    PROVE  /\ \A q \in Runs : q # task[s].run => status'[q] = status[q] /\ results'[q] = results[q]
           /\ \A q \in Runs : status'[q] = NoRow <=> status[q] = NoRow
           /\ \A t \in Slots : t # s => pc'[t] = pc[t] /\ task'[t] = task[t]
           /\ UNCHANGED requestVars
<1>1. RowsOK /\ QueueOK /\ SlotsOK /\ task[s].run \in Runs
  BY TypeParts, AttemptShape DEF SlotsOK
<1>2. /\ \A q \in Runs : q # task[s].run => status'[q] = status[q] /\ results'[q] = results[q]
      /\ \A q \in Runs : status'[q] = NoRow <=> status[q] = NoRow
  <2> USE DEF rowVars
  <2>1. CASE \/ LoadForAttempt(s) \/ Execute(s) \/ WriteArtifacts(s) \/ ReloadTestRun(s)
             \/ ReloadForFailure(s) \/ RunIsGone(s) \/ CallFails(s)
    BY <2>1 DEF LoadForAttempt, Execute, WriteArtifacts, ReloadTestRun, ReloadForFailure,
                RunIsGone, CallFails
  <2>2. CASE MarkActive(s) \/ RecordJobCompleted(s) \/ RecordJobFailed(s)
    BY <2>2 DEF MarkActive, RecordJobCompleted, RecordJobFailed
  <2>3. CASE ProcessorResolves(s) \/ ProcessorRejects(s)
    BY <2>3 DEF ProcessorResolves, ProcessorRejects, JobReturns
  <2>4. CASE ClearTestResults(s) \/ InsertTestResults(s)
    BY <1>1, <2>4 DEF ClearTestResults, InsertTestResults, RowsOK
  <2>5. CASE \/ UNCHANGED <<status, results>>
             \/ \E to : TransitionTestRun(s, to) /\ UNCHANGED results
    BY <1>1, <2>5, TransitionsType DEF TransitionTestRun, RowsOK, NoRow, TestRunStatuses
  <2>6. CASE AdvanceToRunning(s) \/ FinishTestRun(s) \/ FailTestRun(s)
    BY <2>5, <2>6 DEF AdvanceToRunning, FinishTestRun, FailTestRun
  <2> QED BY <2>1, <2>2, <2>3, <2>4, <2>6 DEF AttemptStep
<1>3. \A t \in Slots : t # s => pc'[t] = pc[t] /\ task'[t] = task[t]
  <2>1. CASE Continues(s) /\ KeepsRun(s)
    BY <1>1, <2>1 DEF Continues, Goto, KeepsRun, SlotsOK
  <2>2. CASE Returns(s)
    BY <1>1, <2>2 DEF Returns, JobReturns, SlotsOK
  <2> QED BY <2>1, <2>2, AttemptShape
<1>4. UNCHANGED requestVars
  <2> USE DEF requestVars
  <2>1. CASE \/ LoadForAttempt(s) \/ Execute(s) \/ WriteArtifacts(s) \/ ReloadTestRun(s)
             \/ ReloadForFailure(s) \/ RunIsGone(s) \/ CallFails(s)
             \/ MarkActive(s) \/ RecordJobCompleted(s) \/ RecordJobFailed(s)
    BY <2>1 DEF LoadForAttempt, Execute, WriteArtifacts, ReloadTestRun, ReloadForFailure,
                RunIsGone, CallFails, MarkActive, RecordJobCompleted, RecordJobFailed
  <2>2. CASE \/ ProcessorResolves(s) \/ ProcessorRejects(s) \/ ClearTestResults(s) \/ InsertTestResults(s)
             \/ AdvanceToRunning(s) \/ FinishTestRun(s) \/ FailTestRun(s)
    BY <2>2 DEF ProcessorResolves, ProcessorRejects, JobReturns, ClearTestResults,
                InsertTestResults, AdvanceToRunning, FinishTestRun, FailTestRun
  <2> QED BY <2>1, <2>2 DEF AttemptStep
<1> QED BY <1>2, <1>3, <1>4

\* The queue has no job for a run that nobody created.
LEMMA RequestInvStep == TypeOK /\ LockInv /\ RequestInv /\ [Next]_vars => RequestInv'
<1> SUFFICES ASSUME TypeOK, LockInv, RequestInv, [Next]_vars
             PROVE  RequestInv'
  OBVIOUS
<1> USE DEF rowVars, queueVars, requestVars
<1>1. RowsOK /\ QueueOK /\ RequestsOK /\ SlotsOK
  BY TypeParts
<1>2. ASSUME NEW r \in Runs, request[r] # "none",
             request' = [request EXCEPT ![r] = request'[r]], request'[r] # "none",
             \A q \in Runs : q # r => status'[q] = status[q] /\ jobState'[q] = jobState[q]
      PROVE  RequestInv'
  BY <1>1, <1>2 DEF RequestInv, RequestsOK
<1>3. ASSUME UNCHANGED request,
             \A q \in Runs : status[q] = NoRow => status'[q] = NoRow,
             \A q \in Runs : jobState[q] = "absent" => jobState'[q] = "absent"
      PROVE  RequestInv'
  BY <1>1, <1>3 DEF RequestInv
<1>4. ASSUME NEW r \in Runs, CreateTestRun(r)
      PROVE  RequestInv'
  BY <1>1, <1>4 DEF CreateTestRun, Proceed, RequestInv, RequestsOK, RowsOK
<1>5. ASSUME NEW r \in Runs, RequestStep(r) \/ RequestDies(r)
      PROVE  RequestInv'
  <2>1. request[r] # "none" /\ \E step \in RequestSteps \ {"none"} : Proceed(r, step)
    BY <1>5 DEF RequestStep, EnqueueTestRun, MarkQueued, MarkEnqueueFailed, MarkRun, RequestDies, RequestSteps
  <2>2. \A q \in Runs : q # r => status'[q] = status[q] /\ jobState'[q] = jobState[q]
    <3>1. CASE EnqueueTestRun(r)
      <4>1. UNCHANGED status /\ (AddJob(r) \/ UNCHANGED jobState)
        BY <3>1 DEF EnqueueTestRun
      <4> QED BY <1>1, <4>1 DEF AddJob, QueueOK
    <3>2. CASE MarkQueued(r) \/ MarkEnqueueFailed(r)
      <4>1. UNCHANGED jobState /\ (UNCHANGED status \/ \E to : UpdateStatus(r, to))
        BY <3>2 DEF MarkQueued, MarkEnqueueFailed, MarkRun
      <4> QED BY <1>1, <4>1 DEF UpdateStatus, RowsOK
    <3>3. CASE RequestDies(r)
      BY <3>3 DEF RequestDies
    <3> QED BY <1>5, <3>1, <3>2, <3>3 DEF RequestStep
  <2> QED BY <1>1, <1>2, <2>1, <2>2 DEF Proceed, RequestsOK
<1>6. ASSUME NEW r \in Runs, DeleteRun(r) \/ PromoteJob(r) \/ RecoverStalledJob(r) \/ LoseLock(r)
      PROVE  RequestInv'
  BY <1>1, <1>3, <1>6 DEF DeleteRun, PromoteJob, RecoverStalledJob, LoseLock, RowsOK, QueueOK
<1>7. ASSUME NEW u \in Users, CancelStep(u) \/ CancelDies(u) \/ \E r \in Runs : CancelTestRun(u, r)
      PROVE  RequestInv'
  <2>1. CASE InspectJob(u) \/ CancelDies(u) \/ \E r \in Runs : CancelTestRun(u, r)
    BY <1>3, <2>1 DEF InspectJob, CancelDies, CancelTestRun
  <2>2. CASE RemoveQueuedJob(u)
    BY <1>1, <1>3, <2>2 DEF RemoveQueuedJob, QueueOK, RequestsOK
  <2>3. CASE WriteCancelled(u)
    <3>1. UNCHANGED <<request, jobState>> /\ (UNCHANGED status \/ UpdateStatus(cancel[u].run, "cancelled"))
      BY <2>3 DEF WriteCancelled
    <3> QED BY <1>1, <1>3, <3>1 DEF UpdateStatus, RowsOK
  <2> QED BY <1>7, <2>1, <2>2, <2>3 DEF CancelStep
<1>8. ASSUME NEW s \in Slots, AttemptStep(s) \/ CallFails(s)
      PROVE  RequestInv'
  <2>1. UNCHANGED request /\ \A q \in Runs : status[q] = NoRow => status'[q] = NoRow
    BY <1>8, AttemptIsLocal
  <2>2. CASE UNCHANGED queueVars
    BY <1>3, <2>1, <2>2
  <2>3. CASE Returns(s)
    <3>1. PICK to, made : JobReturns(s, to, made)
      BY <2>3 DEF Returns
    <3>2. \A q \in Runs : jobState[q] = "absent" => jobState'[q] = "absent"
      BY <1>1, <3>1, ConstantsAssumption
         DEF JobReturns, LockInv, LockedIsActive, QueueOK, ConstantsAssumption
    <3> QED BY <1>3, <2>1, <3>2
  <2> QED BY <1>8, <2>2, <2>3, AttemptShape
<1>9. ASSUME NEW s \in Slots, WorkerDies(s) \/ \E r \in Runs : TakeJob(s, r)
      PROVE  RequestInv'
  BY <1>1, <1>3, <1>9 DEF WorkerDies, TakeJob, QueueOK
<1>10. CASE UNCHANGED vars
  BY <1>3, <1>10 DEF vars
<1> QED BY <1>4, <1>5, <1>6, <1>7, <1>8, <1>9, <1>10 DEF Next

\* The awaits at which a processor has read its run as unfinished since its
\* last write of the status.
Writing == WriterSteps \cup { "artifacts", "reload" }

\* What a processor knows of its run's rows: they are empty before its insert,
\* hold exactly its batch after it, and the run is not completed behind its back.
SlotResults(s) ==
    LET r == task[s].run
    IN  /\ pc[s] = "insert" => results[r] = {}
        /\ pc[s] \in {"artifacts", "reload", "finish"} /\ status[r] # NoRow =>
               results[r] = IF task[s].outcome = "empty" THEN {} ELSE {Batch(s)}
        /\ pc[s] \in Writing => status[r] # "completed"

\* What the two properties say of one run.
RunResults(r) ==
    /\ \A a, b \in results[r] : a = b
    /\ status[r] = "completed" => \E s \in Slots : results[r] = {[slot |-> s, outcome |-> "completed"]}

ResultsInv ==
    lockLosses = 0 => (\A s \in Slots : SlotResults(s)) /\ (\A r \in Runs : RunResults(r))

LEMMA ResultsInit == Init => ResultsInv
BY DEF Init, ResultsInv, SlotResults, RunResults, Writing, WriterSteps, NoRow

\* Where Replies may take a processor.
LEMMA RepliesGoto ==
    ASSUME SlotsOK, NEW s \in Slots, NEW step, Replies(s, step)
    PROVE  pc'[s] \in {step, "recordFailed", "reject"}
BY DEF Replies, Goto, Throw, SlotsOK

\* One step of an attempt keeps what its processor knows, and its run's results.
LEMMA AttemptResults ==
    ASSUME TypeOK, NEW s \in Slots, NEW r \in Runs, task[s].run = r,
           AttemptStep(s) \/ CallFails(s), SlotResults(s), RunResults(r)
    PROVE  SlotResults(s)' /\ RunResults(r)'
<1>1. RowsOK /\ SlotsOK /\ pc[s] # "idle" /\ task[s] \in Tasks
  BY TypeParts, AttemptShape DEF SlotsOK
<1> USE DEF rowVars, Writing, WriterSteps
<1>2. ASSUME UNCHANGED <<status, results>>, pc'[s] \in SlotSteps \ (Writing \cup {"finish"})
      PROVE  SlotResults(s)' /\ RunResults(r)'
  BY <1>2 DEF SlotResults, RunResults
<1>3. ASSUME UNCHANGED <<status, results, task>>,
             pc[s] \in Writing, pc'[s] \notin {"insert", "artifacts", "reload", "finish"}
      PROVE  SlotResults(s)' /\ RunResults(r)'
  BY <1>3 DEF SlotResults, RunResults
<1>4. CASE LoadForAttempt(s) \/ ReloadForFailure(s)
  <2>1. pc'[s] \in {"resolve", "reject", "markActive", "fail"} /\ task'[s].run = r
        /\ UNCHANGED <<status, results>>
        /\ (pc'[s] \in {"markActive", "fail"} => status[r] # "completed")
    BY <1>1, <1>4, RunsKept, LoadKeepsRun
       DEF LoadForAttempt, ReloadForFailure, Goto, NothingToDo, IsTestRunFinished,
           TestRunTerminalStatuses, SlotsOK
  <2> QED BY <2>1 DEF SlotResults, RunResults
<1>5. CASE MarkActive(s)
  <2>1. UNCHANGED <<status, results, task>> /\ pc'[s] \in {"advance", "execute", "recordFailed", "reject"}
    BY <1>1, <1>5, RepliesGoto DEF MarkActive
  <2> QED BY <1>3, <1>5, <2>1 DEF MarkActive
<1>6. CASE AdvanceToRunning(s)
  <2>1. PICK hop \in {<<"queued", "starting", "advance">>, <<"starting", "running", "execute">>} :
            TransitionTestRun(s, hop[2]) /\ Replies(s, hop[3])
    BY <1>6 DEF AdvanceToRunning
  <2>2. pc'[s] \in {"advance", "execute", "recordFailed", "reject"}
        /\ status'[r] \in {"starting", "running"} /\ results' = results
    BY <1>1, <1>6, <2>1, RepliesGoto DEF AdvanceToRunning, TransitionTestRun, RowsOK
  <2>3. task'[s].run = r
    BY <1>6, <1>1, TaskUpdateType DEF AdvanceToRunning, TestRunStatuses, SlotsOK
  <2> QED BY <2>2, <2>3 DEF SlotResults, RunResults
<1>7. CASE Execute(s)
  <2>1. UNCHANGED <<status, results>> /\ pc'[s] \in {"clear", "recordFailed"} /\ pc[s] = "execute"
    BY <1>1, <1>7 DEF Execute, Goto, Throw, TryBlock, SlotsOK
  <2>2. task'[s].run = r
    BY <1>7, RunsKept DEF Execute, KeepsRun
  <2> QED BY <2>1, <2>2 DEF SlotResults, RunResults
<1>8. CASE ClearTestResults(s)
  <2>1. UNCHANGED <<status, task>> /\ pc'[s] \in {"insert", "recordFailed", "reject"}
        /\ results'[r] = {} /\ pc[s] = "clear"
    BY <1>1, <1>8, RepliesGoto DEF ClearTestResults, RowsOK
  <2> QED BY <2>1 DEF SlotResults, RunResults
<1>9. CASE InsertTestResults(s)
  <2>1. UNCHANGED <<status, task>> /\ pc'[s] \in {"artifacts", "recordFailed", "reject"} /\ pc[s] = "insert"
    BY <1>1, <1>9, RepliesGoto DEF InsertTestResults, Goto, SlotsOK
  <2>2. results[r] = {} /\ status[r] # "completed"
    BY <2>1 DEF SlotResults
  <2>3. results'[r] = IF task[s].outcome = "empty" THEN {} ELSE {Batch(s)}
    BY <1>1, <1>9, <2>2 DEF InsertTestResults, RowsOK
  <2>4. Batch(s)' = Batch(s)
    BY <2>1 DEF Batch
  <2> QED BY <2>1, <2>2, <2>3, <2>4 DEF SlotResults, RunResults
<1>10. CASE WriteArtifacts(s)
  <2>1. UNCHANGED <<status, results, task>> /\ pc'[s] \in {"reload", "recordFailed"} /\ pc[s] = "artifacts"
    BY <1>1, <1>10 DEF WriteArtifacts, Goto, Throw, TryBlock, SlotsOK
  <2>2. Batch(s)' = Batch(s)
    BY <2>1 DEF Batch
  <2> QED BY <2>1, <2>2 DEF SlotResults, RunResults
<1>11. CASE ReloadTestRun(s)
  <2>1. UNCHANGED <<status, results>> /\ pc'[s] \in {"recordDone", "finish"} /\ pc[s] = "reload"
    BY <1>1, <1>11 DEF ReloadTestRun, Goto, SlotsOK
  <2>2. task'[s].run = r /\ task'[s].outcome = task[s].outcome
    BY <1>1, <1>11 DEF ReloadTestRun, LoadTestRun, SlotsOK, Tasks
  <2>3. Batch(s)' = Batch(s)
    BY <2>2 DEF Batch
  <2> QED BY <2>1, <2>2, <2>3 DEF SlotResults, RunResults
<1>12. CASE FinishTestRun(s)
  <2>1. CASE TransitionTestRun(s, FinalStatus(task[s].outcome)) /\ Replies(s, "recordDone")
    <3>1. pc'[s] \in {"recordDone", "recordFailed", "reject"} /\ UNCHANGED <<results, task>>
      BY <1>1, <1>12, <2>1, RepliesGoto DEF FinishTestRun
    <3>2. status[r] # NoRow /\ status'[r] = FinalStatus(task[s].outcome)
      BY <1>1, <2>1 DEF TransitionTestRun, RowsOK
    <3>3. status'[r] = "completed" => task[s].outcome = "completed"
      BY <3>2 DEF FinalStatus
    <3>4. results[r] = IF task[s].outcome = "empty" THEN {} ELSE {Batch(s)}
      BY <1>12, <3>2 DEF FinishTestRun, SlotResults
    <3>5. RunResults(r)'
      BY <3>1, <3>3, <3>4 DEF RunResults, Batch
    <3> QED BY <3>1, <3>5 DEF SlotResults
  <2>2. CASE UNCHANGED <<status, budgetVars>> /\ Throw(s)
    <3>1. pc'[s] = "recordFailed"
      BY <1>1, <1>12, <2>2 DEF FinishTestRun, Throw, Goto, TryBlock, SlotsOK
    <3> QED BY <1>2, <1>12, <2>2, <3>1 DEF FinishTestRun, SlotSteps
  <2> QED BY <1>12, <2>1, <2>2 DEF FinishTestRun
<1>13. CASE RecordJobCompleted(s)
  <2>1. pc'[s] \in {"resolve", "recordFailed", "reject"} /\ UNCHANGED <<status, results>>
    BY <1>1, <1>13, RepliesGoto DEF RecordJobCompleted
  <2> QED BY <1>2, <2>1 DEF SlotSteps
<1>14. CASE RecordJobFailed(s)
  <2>1. pc'[s] \in {"reloadFinal", "recordFailed", "reject"} /\ UNCHANGED <<status, results>>
    BY <1>1, <1>14, RepliesGoto DEF RecordJobFailed
  <2> QED BY <1>2, <2>1 DEF SlotSteps
<1>15. CASE FailTestRun(s)
  <2>1. pc'[s] \in {"recordFailed", "reject"} /\ UNCHANGED <<results, task>> /\ status'[r] = "failed"
    BY <1>1, <1>15, RepliesGoto DEF FailTestRun, TransitionTestRun, RowsOK
  <2> QED BY <2>1 DEF SlotResults, RunResults
<1>16. CASE RunIsGone(s) \/ CallFails(s)
  <2>1. pc'[s] \in {"recordFailed", "reject"} /\ UNCHANGED <<status, results>>
    BY <1>1, <1>16 DEF RunIsGone, CallFails, Throw, Goto, SlotsOK
  <2> QED BY <1>2, <2>1 DEF SlotSteps
<1>17. CASE ProcessorResolves(s) \/ ProcessorRejects(s)
  <2>1. pc'[s] = "idle" /\ UNCHANGED <<status, results>>
    BY <1>1, <1>17 DEF ProcessorResolves, ProcessorRejects, JobReturns, SlotsOK
  <2> QED BY <1>2, <2>1 DEF SlotSteps
<1> QED
  BY <1>4, <1>5, <1>6, <1>7, <1>8, <1>9, <1>10, <1>11, <1>12, <1>13, <1>14, <1>15,
     <1>16, <1>17 DEF AttemptStep

LEMMA ResultsStep == TypeOK /\ LockInv /\ RequestInv /\ ResultsInv /\ [Next]_vars => ResultsInv'
<1> SUFFICES ASSUME TypeOK, LockHeld, LockedIsActive, RequestInv, [Next]_vars,
                    \A s \in Slots : SlotResults(s), \A r \in Runs : RunResults(r)
             PROVE  (\A s \in Slots : SlotResults(s)') /\ (\A r \in Runs : RunResults(r)')
  BY LossesGrow DEF ResultsInv, LockInv
<1> DEFINE Goal == (\A s \in Slots : SlotResults(s)') /\ (\A r \in Runs : RunResults(r)')
<1>1. RowsOK /\ QueueOK /\ RequestsOK /\ SlotsOK
  BY TypeParts
<1>2. None \notin Slots
  BY ConstantsAssumption DEF ConstantsAssumption
<1> USE DEF rowVars, slotVars
\* The control plane: no write of a status turns a run completed.
<1>3. ASSUME UNCHANGED <<results, slotVars>>,
             \A r \in Runs : \/ status'[r] = status[r]
                             \/ status[r] # NoRow /\ status'[r] # "completed"
                             \/ status'[r] # "completed" /\ \A s \in Slots : ~Processing(s, r)
      PROVE  Goal
  <2>1. \A s \in Slots : SlotResults(s)'
    <3> SUFFICES ASSUME NEW s \in Slots
                 PROVE  SlotResults(s)'
      OBVIOUS
    <3>1. pc[s] = "idle" \/ (task[s].run \in Runs /\ Processing(s, task[s].run))
      BY <1>1 DEF SlotsOK, Processing
    <3>2. Batch(s)' = Batch(s)
      BY <1>3 DEF Batch
    <3>3. SlotResults(s)
      OBVIOUS
    <3> QED BY <1>3, <3>1, <3>2, <3>3 DEF SlotResults, Writing, WriterSteps
  <2>2. \A r \in Runs : RunResults(r)'
    BY <1>3 DEF RunResults
  <2> QED BY <2>1, <2>2
<1>4. ASSUME NEW r \in Runs, CreateTestRun(r)
      PROVE  Goal
  <2>1. \A s \in Slots : ~Processing(s, r)
    BY <1>2, <1>4 DEF CreateTestRun, RequestInv, LockedIsActive, LockHeld, Processing
  <2>2. \A q \in Runs : status'[q] = status[q] \/ (q = r /\ status'[q] = "created")
    BY <1>1, <1>4 DEF CreateTestRun, RowsOK
  <2> QED BY <1>3, <1>4, <2>1, <2>2 DEF CreateTestRun
<1>5. ASSUME NEW r \in Runs, RequestStep(r) \/ RequestDies(r)
      PROVE  Goal
  <2>1. CASE EnqueueTestRun(r) \/ RequestDies(r)
    BY <1>3, <2>1 DEF EnqueueTestRun, RequestDies
  <2>2. CASE MarkQueued(r) \/ MarkEnqueueFailed(r)
    <3>1. UNCHANGED <<results, slotVars>>
          /\ (UNCHANGED status \/ \E to \in {"queued", "failed"} : UpdateStatus(r, to))
      BY <2>2 DEF MarkQueued, MarkEnqueueFailed, MarkRun
    <3> QED BY <1>1, <1>3, <3>1 DEF UpdateStatus, RowsOK
  <2> QED BY <1>5, <2>1, <2>2 DEF RequestStep
<1>6. ASSUME NEW r \in Runs, DeleteRun(r)
      PROVE  Goal
  <2>1. /\ \A q \in Runs \ {r} : status'[q] = status[q] /\ results'[q] = results[q]
        /\ status'[r] = NoRow /\ results'[r] = {} /\ UNCHANGED slotVars
    BY <1>1, <1>6 DEF DeleteRun, RowsOK
  <2>2. \A s \in Slots : Batch(s)' = Batch(s)
    BY <2>1 DEF Batch
  <2>3. \A s \in Slots : pc[s] = "idle" \/ task[s].run \in Runs
    BY <1>1 DEF SlotsOK
  <2> QED BY <2>1, <2>2, <2>3 DEF SlotResults, RunResults, NoRow, Writing, WriterSteps
<1>7. ASSUME NEW r \in Runs, PromoteJob(r) \/ RecoverStalledJob(r) \/ LoseLock(r)
      PROVE  Goal
  BY <1>3, <1>7 DEF PromoteJob, RecoverStalledJob, LoseLock
<1>8. ASSUME NEW u \in Users, CancelStep(u) \/ CancelDies(u) \/ \E r \in Runs : CancelTestRun(u, r)
      PROVE  Goal
  <2>1. CASE InspectJob(u) \/ RemoveQueuedJob(u) \/ CancelDies(u) \/ \E r \in Runs : CancelTestRun(u, r)
    BY <1>3, <2>1 DEF InspectJob, RemoveQueuedJob, CancelDies, CancelTestRun
  <2>2. CASE WriteCancelled(u)
    <3>1. UNCHANGED <<results, slotVars>>
          /\ (UNCHANGED status \/ UpdateStatus(cancel[u].run, "cancelled"))
      BY <2>2 DEF WriteCancelled
    <3> QED BY <1>1, <1>3, <3>1 DEF UpdateStatus, RowsOK
  <2> QED BY <1>8, <2>1, <2>2 DEF CancelStep
\* The execution plane: no other processor works on the same run.
<1>9. ASSUME NEW s \in Slots, AttemptStep(s) \/ CallFails(s)
      PROVE  Goal
  <2>1. PICK r \in Runs : task[s].run = r /\ pc[s] # "idle"
    BY <1>1, <1>9, AttemptShape DEF SlotsOK
  <2>2. SlotResults(s)' /\ RunResults(r)'
    BY <1>9, <2>1, AttemptResults
  <2>3. /\ \A q \in Runs : q # r => status'[q] = status[q] /\ results'[q] = results[q]
        /\ \A t \in Slots : t # s => pc'[t] = pc[t] /\ task'[t] = task[t]
    BY <1>9, <2>1, AttemptIsLocal
  <2>4. \A t \in Slots : t # s => pc[t] = "idle" \/ (task[t].run \in Runs /\ task[t].run # r)
    BY <1>1, <2>1 DEF LockHeld, SlotsOK
  <2>5. \A t \in Slots : t # s => SlotResults(t)'
    BY <2>3, <2>4 DEF SlotResults, Batch, Writing, WriterSteps
  <2>6. \A q \in Runs : q # r => RunResults(q)'
    BY <2>3 DEF RunResults
  <2> QED BY <2>2, <2>5, <2>6
<1>10. ASSUME NEW s \in Slots, WorkerDies(s)
       PROVE  Goal
  <2>1. /\ \A t \in Slots : t # s => pc'[t] = pc[t] /\ task'[t] = task[t]
        /\ pc'[s] = "idle" /\ UNCHANGED <<status, results>>
    BY <1>1, <1>10 DEF WorkerDies, SlotsOK
  <2> QED BY <2>1 DEF SlotResults, RunResults, Batch, Writing, WriterSteps
<1>11. ASSUME NEW s \in Slots, NEW r \in Runs, TakeJob(s, r)
       PROVE  Goal
  <2>1. /\ \A t \in Slots : t # s => pc'[t] = pc[t] /\ task'[t] = task[t]
        /\ pc'[s] = "load" /\ UNCHANGED <<status, results>>
    BY <1>1, <1>11 DEF TakeJob, SlotsOK
  <2>2. SlotResults(s)'
    BY <2>1 DEF SlotResults, Writing, WriterSteps
  <2>3. \A t \in Slots : t # s => SlotResults(t)'
    BY <2>1 DEF SlotResults, Batch, Writing, WriterSteps
  <2> QED BY <2>1, <2>2, <2>3 DEF RunResults
<1>12. CASE UNCHANGED vars
  BY <1>3, <1>12 DEF vars
<1> QED
  BY <1>4, <1>5, <1>6, <1>7, <1>8, <1>9, <1>10, <1>11, <1>12 DEF Next

\* The inductive invariant of the pipeline.
PipelineInv == TypeOK /\ LockInv /\ RequestInv /\ ResultsInv

THEOREM PipelineInvariant == Spec => []PipelineInv
<1>1. Init => LockInv /\ RequestInv /\ ResultsInv
  BY LockInit, RequestInit, ResultsInit
<1>2. TypeOK /\ LockInv /\ RequestInv /\ ResultsInv /\ [Next]_vars
          => (LockInv /\ RequestInv /\ ResultsInv)'
  BY LockStep, RequestInvStep, ResultsStep
<1> QED BY <1>1, <1>2, TypeCorrect, PTL DEF Spec, PipelineInv

\* While no live processor has lost its lock, no sequence of retries, crashes
\* and lost answers leaves two executions' results under one run.
THEOREM NoDuplicates == Spec => []NoDuplicateResults
<1>1. PipelineInv => NoDuplicateResults
  BY DEF PipelineInv, ResultsInv, RunResults, NoDuplicateResults
<1> QED BY <1>1, PipelineInvariant, PTL

\* While no live processor has lost its lock, a completed run has exactly the
\* results of one completed execution.
THEOREM CompletedHasResults == Spec => []CompletedRunHasItsResults
<1>1. PipelineInv => CompletedRunHasItsResults
  BY DEF PipelineInv, ResultsInv, RunResults, CompletedRunHasItsResults
<1> QED BY <1>1, PipelineInvariant, PTL

-----------------------------------------------------------------------------
(* A settled run.                                                          *)

\* A processor that holds no read of a run from before it finished leaves the
\* run's rows alone, and does not come to hold one.
LEMMA SettledAttempt ==
    ASSUME TypeOK, NEW s \in Slots, AttemptStep(s) \/ CallFails(s),
           pc[s] \notin WriterSteps, NothingToDo(task[s].run)
    PROVE  UNCHANGED <<status, results>> /\ pc'[s] \notin WriterSteps
<1>1. SlotsOK /\ pc[s] # "idle"
  BY TypeParts, AttemptShape
<1> USE DEF rowVars, WriterSteps
<1>2. CASE LoadForAttempt(s) \/ ReloadTestRun(s) \/ ReloadForFailure(s)
  BY <1>1, <1>2 DEF LoadForAttempt, ReloadTestRun, ReloadForFailure, Goto, SlotsOK
<1>3. CASE WriteArtifacts(s)
  BY <1>1, <1>3 DEF WriteArtifacts, Goto, Throw, TryBlock, SlotsOK
<1>4. CASE RecordJobCompleted(s) \/ RecordJobFailed(s)
  <2>1. \E step \in {"resolve", "reloadFinal", "reject"} : Replies(s, step)
    BY <1>4 DEF RecordJobCompleted, RecordJobFailed
  <2>2. pc'[s] \in {"resolve", "reloadFinal", "reject", "recordFailed"}
    BY <1>1, <2>1, RepliesGoto
  <2> QED BY <1>4, <2>2 DEF RecordJobCompleted, RecordJobFailed
<1>5. CASE RunIsGone(s) \/ CallFails(s)
  BY <1>1, <1>5 DEF RunIsGone, CallFails, Throw, Goto, SlotsOK
<1>6. CASE ProcessorResolves(s) \/ ProcessorRejects(s)
  BY <1>1, <1>6 DEF ProcessorResolves, ProcessorRejects, JobReturns, SlotsOK
<1>7. ~(\/ MarkActive(s) \/ AdvanceToRunning(s) \/ Execute(s) \/ ClearTestResults(s)
        \/ InsertTestResults(s) \/ FinishTestRun(s) \/ FailTestRun(s))
  BY DEF MarkActive, AdvanceToRunning, Execute, ClearTestResults, InsertTestResults,
         FinishTestRun, FailTestRun
<1> QED BY <1>2, <1>3, <1>4, <1>5, <1>6, <1>7 DEF AttemptStep

LEMMA SettledStep == TypeOK /\ [Next]_vars => \A r \in Runs : SettledStays(r)
<1> SUFFICES ASSUME TypeOK, [Next]_vars, NEW r \in Runs, Settled(r)
             PROVE  /\ Settled(r)'
                    /\ results'[r] = results[r] \/ status'[r] = NoRow
                    /\ status'[r] \in {status[r], NoRow}
  BY DEF SettledStays
<1> DEFINE Goal == /\ Settled(r)'
                   /\ results'[r] = results[r] \/ status'[r] = NoRow
                   /\ status'[r] \in {status[r], NoRow}
<1> USE DEF rowVars, requestVars, slotVars
<1>1. RowsOK /\ RequestsOK /\ SlotsOK /\ None # r
  BY TypeParts, ConstantsAssumption DEF ConstantsAssumption
<1>2. /\ NothingToDo(r) /\ request[r] = "done"
      /\ \A u \in Users : cancel[u].run # r
      /\ \A s \in Slots : pc[s] \in WriterSteps => task[s].run # r
  BY DEF Settled
<1>3. ASSUME UNCHANGED slotVars, request'[r] = request[r], \A u \in Users : cancel'[u].run # r,
             \/ status'[r] = status[r] /\ results'[r] = results[r]
             \/ status'[r] = NoRow
      PROVE  Goal
  BY <1>2, <1>3 DEF Settled, NothingToDo
<1>4. ASSUME UNCHANGED <<requestVars, status, results>>, NEW s \in Slots,
             \A t \in Slots : t # s => pc'[t] = pc[t] /\ task'[t] = task[t],
             pc'[s] \notin WriterSteps
      PROVE  Goal
  BY <1>2, <1>4 DEF Settled, NothingToDo
<1>5. ASSUME NEW q \in Runs, CreateTestRun(q) \/ RequestStep(q) \/ RequestDies(q)
      PROVE  Goal
  <2>1. q # r /\ UNCHANGED <<slotVars, cancel, results>>
        /\ (\E step : Proceed(q, step))
        /\ (UNCHANGED status \/ \E to : status' = [status EXCEPT ![q] = to])
    BY <1>2, <1>5 DEF CreateTestRun, RequestStep, EnqueueTestRun, MarkQueued, MarkEnqueueFailed,
                      MarkRun, UpdateStatus, RequestDies
  <2> QED BY <1>1, <1>2, <1>3, <2>1 DEF Proceed, RowsOK, RequestsOK
<1>6. ASSUME NEW q \in Runs, DeleteRun(q) \/ PromoteJob(q) \/ RecoverStalledJob(q) \/ LoseLock(q)
      PROVE  Goal
  BY <1>1, <1>2, <1>3, <1>6 DEF DeleteRun, PromoteJob, RecoverStalledJob, LoseLock, RowsOK
<1>7. ASSUME NEW u \in Users, CancelStep(u) \/ CancelDies(u)
      PROVE  Goal
  <2>1. UNCHANGED <<slotVars, request, results>>
        /\ (CancelReturns(u) \/ \E step : CancelGoto(u, step))
        /\ (UNCHANGED status \/ UpdateStatus(cancel[u].run, "cancelled"))
    BY <1>7 DEF CancelStep, InspectJob, RemoveQueuedJob, WriteCancelled, CancelDies
  <2>2. \A v \in Users : cancel'[v].run # r
    BY <1>1, <1>2, <2>1 DEF CancelReturns, CancelGoto, RequestsOK, CancelRequests, NoCancel
  <2>3. status'[r] = status[r]
    BY <1>1, <1>2, <2>1 DEF UpdateStatus, RowsOK
  <2> QED BY <1>3, <2>1, <2>2, <2>3
<1>8. ASSUME NEW u \in Users, NEW q \in Runs, CancelTestRun(u, q)
      PROVE  Goal
  <2>1. q # r
    BY <1>2, <1>8, TransitionsType
       DEF CancelTestRun, NothingToDo, IsTestRunFinished, NoRow, TestRunStatuses
  <2>2. \A v \in Users : cancel'[v].run # r
    BY <1>1, <1>2, <1>8, <2>1 DEF CancelTestRun, RequestsOK
  <2> QED BY <1>3, <1>8, <2>2 DEF CancelTestRun
<1>9. ASSUME NEW s \in Slots, AttemptStep(s) \/ CallFails(s)
      PROVE  Goal
  <2>1. /\ task[s].run # r => status'[r] = status[r] /\ results'[r] = results[r]
        /\ \A t \in Slots : t # s => pc'[t] = pc[t] /\ task'[t] = task[t]
        /\ UNCHANGED requestVars
    BY <1>9, AttemptIsLocal
  <2>2. CASE task[s].run = r
    <3>1. pc[s] \notin WriterSteps
      BY <1>2, <2>2
    <3> QED BY <1>2, <1>4, <1>9, <2>1, <2>2, <3>1, SettledAttempt
  <2>3. CASE task[s].run # r
    <3>1. pc'[s] = "idle" \/ task'[s].run # r
      <4>1. CASE Returns(s)
        BY <1>1, <4>1 DEF Returns, JobReturns, SlotsOK
      <4> QED BY <1>9, <2>3, <4>1, AttemptShape, RunsKept
    <3> QED BY <1>2, <2>1, <2>3, <3>1 DEF Settled, NothingToDo, WriterSteps
  <2> QED BY <2>2, <2>3
<1>10. ASSUME NEW s \in Slots, WorkerDies(s) \/ \E q \in Runs : TakeJob(s, q)
       PROVE  Goal
  <2>1. /\ \A t \in Slots : t # s => pc'[t] = pc[t] /\ task'[t] = task[t]
        /\ pc'[s] \in {"idle", "load"} /\ UNCHANGED <<requestVars, status, results>>
    BY <1>1, <1>10 DEF WorkerDies, TakeJob, SlotsOK
  <2> QED BY <1>4, <2>1 DEF WriterSteps
<1>11. CASE UNCHANGED vars
  BY <1>2, <1>3, <1>11 DEF vars
<1> QED BY <1>5, <1>6, <1>7, <1>8, <1>9, <1>10, <1>11 DEF Next

\* Whatever fails, dies or loses its lock: a run that has finished and that
\* nobody read before it did changes neither its status nor its results again.
THEOREM SettledIsFinal == Spec => SettledForGood
<1>1. TypeOK /\ [Next]_vars => [\A r \in Runs : SettledStays(r)]_vars
  BY SettledStep
<1> QED BY <1>1, TypeCorrect, PTL DEF Spec, SettledForGood

-----------------------------------------------------------------------------
(* The job's row.                                                          *)

\* What is used up of a bound stays used up.
LEMMA BudgetsStep ==
    ASSUME [Next]_vars
    PROVE  /\ UNCHANGED faults \/ faults' = faults + 1
           /\ UNCHANGED crashes \/ crashes' = crashes + 1
           /\ UNCHANGED dropped \/ dropped' = dropped + 1
<1> DEFINE Goal == /\ UNCHANGED faults \/ faults' = faults + 1
                   /\ UNCHANGED crashes \/ crashes' = crashes + 1
                   /\ UNCHANGED dropped \/ dropped' = dropped + 1
<1> USE DEF budgetVars, Fault, RequestDeath
<1>1. ASSUME NEW r \in Runs,
             \/ CreateTestRun(r) \/ RequestStep(r) \/ RequestDies(r) \/ DeleteRun(r)
             \/ PromoteJob(r) \/ RecoverStalledJob(r) \/ LoseLock(r)
      PROVE  Goal
  BY <1>1 DEF CreateTestRun, RequestStep, EnqueueTestRun, MarkQueued, MarkEnqueueFailed, MarkRun,
              RequestDies, DeleteRun, PromoteJob, RecoverStalledJob, LoseLock
<1>2. ASSUME NEW u \in Users, CancelStep(u) \/ CancelDies(u) \/ \E r \in Runs : CancelTestRun(u, r)
      PROVE  Goal
  BY <1>2 DEF CancelStep, InspectJob, RemoveQueuedJob, WriteCancelled, CancelDies, CancelTestRun
<1>3. ASSUME NEW s \in Slots, AttemptStep(s)
      PROVE  Goal
  BY <1>3 DEF AttemptStep, LoadForAttempt, MarkActive, AdvanceToRunning, Execute,
       ClearTestResults, InsertTestResults, WriteArtifacts, ReloadTestRun, FinishTestRun,
       RecordJobCompleted, RecordJobFailed, ReloadForFailure, FailTestRun, RunIsGone,
       ProcessorResolves, ProcessorRejects, JobReturns, Replies
<1>4. ASSUME NEW s \in Slots, CallFails(s) \/ WorkerDies(s) \/ \E r \in Runs : TakeJob(s, r)
      PROVE  Goal
  BY <1>4 DEF CallFails, WorkerDies, TakeJob
<1>5. CASE UNCHANGED vars
  BY <1>5 DEF vars
<1> QED BY <1>1, <1>2, <1>3, <1>4, <1>5 DEF Next

LEMMA BudgetsGrow ==
    ASSUME TypeOK, [Next]_vars
    PROVE  /\ faults' = 0 => faults = 0
           /\ crashes' = 0 => crashes = 0
           /\ dropped' = 0 => dropped = 0
BY BudgetsStep DEF TypeOK

\* Without a fault every write is answered.
LEMMA RepliesClean ==
    ASSUME TypeOK, faults' = 0, NEW s \in Slots, NEW step, Replies(s, step)
    PROVE  pc'[s] = step
BY DEF TypeOK, Replies, Goto, Fault

\* Where Throw takes a processor.
LEMMA ThrowGoto ==
    ASSUME SlotsOK, NEW s \in Slots, Throw(s)
    PROVE  pc'[s] = IF pc[s] \in TryBlock THEN "recordFailed" ELSE "reject"
BY DEF Throw, Goto, SlotsOK

\* An attempt writes the job's row of its own run only, and of a run with a row.
LEMMA JobRowIsLocal ==
    ASSUME TypeOK, NEW s \in Slots, AttemptStep(s) \/ CallFails(s), NEW q \in Runs,
           q # task[s].run \/ status[q] = NoRow
    PROVE  jobRow'[q] = jobRow[q]
<1>1. RowsOK
  BY TypeParts
<1>2. UNCHANGED jobRow \/ \E to : UpsertJobRecord(s, to)
  <2> USE DEF rowVars
  <2>1. CASE \/ LoadForAttempt(s) \/ AdvanceToRunning(s) \/ Execute(s) \/ ClearTestResults(s)
             \/ InsertTestResults(s) \/ WriteArtifacts(s) \/ ReloadTestRun(s) \/ FinishTestRun(s)
    BY <2>1 DEF LoadForAttempt, AdvanceToRunning, Execute, ClearTestResults, InsertTestResults,
                WriteArtifacts, ReloadTestRun, FinishTestRun
  <2>2. CASE \/ ReloadForFailure(s) \/ FailTestRun(s) \/ RunIsGone(s) \/ ProcessorResolves(s)
             \/ ProcessorRejects(s) \/ CallFails(s)
    BY <2>2 DEF ReloadForFailure, FailTestRun, RunIsGone, ProcessorResolves, ProcessorRejects,
                CallFails, JobReturns
  <2>3. CASE MarkActive(s) \/ RecordJobCompleted(s) \/ RecordJobFailed(s)
    BY <2>3 DEF MarkActive, RecordJobCompleted, RecordJobFailed
  <2> QED BY <2>1, <2>2, <2>3 DEF AttemptStep
<1> QED BY <1>1, <1>2 DEF UpsertJobRecord, RowsOK

\* The awaits of an attempt whose way out closes the job's row.
Open == TryBlock \cup { "recordFailed" }

\* The row of a job exists only beside its run's, and while nothing has failed
\* an active one is that of a processor that will still close it.
ActiveInv ==
    /\ \A r \in Runs : status[r] = NoRow => jobRow[r] = NoJobRow
    /\ faults = 0 /\ crashes = 0 =>
           \A r \in Runs : jobRow[r].status = "active" =>
               \E s \in Slots : task[s].run = r /\ pc[s] \in Open

LEMMA ActiveInit == Init => ActiveInv
BY DEF Init, ActiveInv, NoJobRow

\* An attempt leaves its job's row active only while it can still close it.
LEMMA AttemptCloses ==
    ASSUME TypeOK, faults' = 0, NEW s \in Slots, AttemptStep(s) \/ CallFails(s),
           NEW r \in Runs, task[s].run = r,
           status[r] = NoRow => jobRow[r] = NoJobRow,
           jobRow'[r].status = "active"
    PROVE  \/ jobRow[r].status = "active" /\ pc[s] \notin Open
           \/ task'[s].run = r /\ pc'[s] \in Open
<1>1. RowsOK /\ SlotsOK
  BY TypeParts
<1> USE DEF Open, TryBlock, rowVars
<1>2. CASE LoadForAttempt(s) \/ ReloadForFailure(s) \/ FailTestRun(s)
  BY <1>2 DEF LoadForAttempt, ReloadForFailure, FailTestRun
<1>3. CASE MarkActive(s)
  BY <1>3, RepliesClean DEF MarkActive
<1>4. CASE AdvanceToRunning(s)
  <2>1. PICK hop \in {<<"queued", "starting", "advance">>, <<"starting", "running", "execute">>} :
            task' = [task EXCEPT ![s].row = hop[2]] /\ Replies(s, hop[3])
    BY <1>4 DEF AdvanceToRunning
  <2>2. pc'[s] \in {"advance", "execute"}
    BY <2>1, RepliesClean
  <2>3. hop[2] \in TestRunStatuses
    BY <2>1 DEF TestRunStatuses
  <2> QED BY <2>1, <2>2, <2>3, RunsKept DEF KeepsRun
<1>5. CASE Execute(s)
  <2>1. pc'[s] \in {"clear", "recordFailed"}
    BY <1>1, <1>5 DEF Execute, Goto, Throw, SlotsOK
  <2> QED BY <1>5, <2>1, RunsKept DEF Execute, KeepsRun
<1>6. CASE ClearTestResults(s) \/ InsertTestResults(s) \/ WriteArtifacts(s)
  BY <1>1, <1>6, RepliesClean DEF ClearTestResults, InsertTestResults, WriteArtifacts, Goto, Throw, SlotsOK
<1>7. CASE ReloadTestRun(s)
  <2>1. pc'[s] \in {"recordDone", "finish"}
    BY <1>1, <1>7 DEF ReloadTestRun, Goto, SlotsOK
  <2> QED BY <1>1, <1>7, <2>1, RunsKept, LoadKeepsRun DEF ReloadTestRun
<1>8. CASE FinishTestRun(s)
  BY <1>1, <1>8, RepliesClean DEF FinishTestRun, Goto, Throw, SlotsOK
<1>9. CASE RecordJobCompleted(s) \/ RecordJobFailed(s)
  BY <1>1, <1>9 DEF RecordJobCompleted, RecordJobFailed, UpsertJobRecord, RowsOK
<1>10. CASE RunIsGone(s)
  <2>1. jobRow'[r].status # "active" \/ pc[s] \in TryBlock
    BY <1>10 DEF RunIsGone, NoJobRow
  <2> QED BY <1>1, <1>10, <2>1, ThrowGoto DEF RunIsGone
<1>11. CASE ProcessorResolves(s) \/ ProcessorRejects(s)
  BY <1>11 DEF ProcessorResolves, ProcessorRejects, JobReturns
<1>12. ~CallFails(s)
  BY DEF CallFails, Fault, TypeOK
<1> QED
  BY <1>2, <1>3, <1>4, <1>5, <1>6, <1>7, <1>8, <1>9, <1>10, <1>11, <1>12 DEF AttemptStep

LEMMA ActiveStep == TypeOK /\ ActiveInv /\ [Next]_vars => ActiveInv'
<1> SUFFICES ASSUME TypeOK, ActiveInv, [Next]_vars
             PROVE  ActiveInv'
  OBVIOUS
<1>1. RowsOK /\ RequestsOK /\ SlotsOK
  BY TypeParts
<1>2. (faults' = 0 => faults = 0) /\ (crashes' = 0 => crashes = 0)
  BY BudgetsGrow
<1> USE DEF rowVars, slotVars
<1>3. ASSUME UNCHANGED slotVars,
             \A r \in Runs : \/ jobRow'[r] = NoJobRow
                             \/ jobRow'[r] = jobRow[r] /\ (status'[r] = NoRow => status[r] = NoRow)
      PROVE  ActiveInv'
  <2>1. \A r \in Runs : status'[r] = NoRow => jobRow'[r] = NoJobRow
    BY <1>3 DEF ActiveInv
  <2>2. NoJobRow.status # "active"
    BY DEF NoJobRow
  <2> QED BY <1>2, <1>3, <2>1, <2>2 DEF ActiveInv
<1>4. ASSUME NEW r \in Runs, \/ CreateTestRun(r) \/ RequestStep(r) \/ RequestDies(r) \/ DeleteRun(r)
                             \/ PromoteJob(r) \/ RecoverStalledJob(r) \/ LoseLock(r)
      PROVE  ActiveInv'
  <2>1. CASE CreateTestRun(r)
    BY <1>1, <1>3, <2>1 DEF CreateTestRun, RowsOK, NoRow
  <2>2. CASE RequestStep(r)
    <3>1. UNCHANGED <<slotVars, jobRow>>
          /\ (UNCHANGED status \/ \E to \in {"queued", "failed"} : UpdateStatus(r, to))
      BY <2>2 DEF RequestStep, EnqueueTestRun, MarkQueued, MarkEnqueueFailed, MarkRun
    <3> QED BY <1>1, <1>3, <3>1 DEF UpdateStatus, RowsOK, NoRow
  <2>3. CASE DeleteRun(r)
    BY <1>1, <1>3, <2>3 DEF DeleteRun, RowsOK
  <2>4. CASE RequestDies(r) \/ PromoteJob(r) \/ RecoverStalledJob(r) \/ LoseLock(r)
    BY <1>3, <2>4 DEF RequestDies, PromoteJob, RecoverStalledJob, LoseLock
  <2> QED BY <1>4, <2>1, <2>2, <2>3, <2>4
<1>5. ASSUME NEW u \in Users, CancelStep(u) \/ CancelDies(u) \/ \E r \in Runs : CancelTestRun(u, r)
      PROVE  ActiveInv'
  <2>1. UNCHANGED <<slotVars, jobRow>>
        /\ (UNCHANGED status \/ UpdateStatus(cancel[u].run, "cancelled"))
    BY <1>5 DEF CancelStep, InspectJob, RemoveQueuedJob, WriteCancelled, CancelDies, CancelTestRun
  <2> QED BY <1>1, <1>3, <2>1 DEF UpdateStatus, RowsOK, NoRow
<1>6. ASSUME NEW s \in Slots, AttemptStep(s) \/ CallFails(s)
      PROVE  ActiveInv'
  <2>1. PICK r \in Runs : task[s].run = r
    BY <1>1, <1>6, AttemptShape DEF SlotsOK
  <2>2. /\ \A q \in Runs : status'[q] = NoRow <=> status[q] = NoRow
        /\ \A t \in Slots : t # s => pc'[t] = pc[t] /\ task'[t] = task[t]
        /\ \A q \in Runs : q # r \/ status[q] = NoRow => jobRow'[q] = jobRow[q]
    BY <1>6, <2>1, AttemptIsLocal, JobRowIsLocal
  <2>3. ASSUME faults' = 0, crashes' = 0, NEW q \in Runs, jobRow'[q].status = "active"
        PROVE  \E t \in Slots : task'[t].run = q /\ pc'[t] \in Open
    <3>1. \A p \in Runs : jobRow[p].status = "active" => \E t \in Slots : task[t].run = p /\ pc[t] \in Open
      BY <1>2, <2>3 DEF ActiveInv
    <3>2. CASE q # r
      BY <2>1, <2>2, <2>3, <3>1, <3>2
    <3>3. CASE q = r
      <4>1. \/ jobRow[r].status = "active" /\ pc[s] \notin Open
            \/ task'[s].run = r /\ pc'[s] \in Open
        BY <1>6, <2>1, <2>3, <3>3, AttemptCloses DEF ActiveInv
      <4> QED BY <2>2, <3>1, <3>3, <4>1
    <3> QED BY <3>2, <3>3
  <2> QED BY <2>2, <2>3 DEF ActiveInv
<1>7. ASSUME NEW s \in Slots, WorkerDies(s)
      PROVE  ActiveInv'
  BY <1>7 DEF WorkerDies, ActiveInv, TypeOK
<1>8. ASSUME NEW s \in Slots, NEW r \in Runs, TakeJob(s, r)
      PROVE  ActiveInv'
  <2>1. \A t \in Slots : pc[t] \in Open => t # s /\ pc'[t] = pc[t] /\ task'[t] = task[t]
    BY <1>1, <1>8 DEF TakeJob, SlotsOK, Open, TryBlock
  <2> QED BY <1>2, <1>8, <2>1 DEF TakeJob, ActiveInv
<1>9. CASE UNCHANGED vars
  BY <1>3, <1>9 DEF vars
<1> QED BY <1>4, <1>5, <1>6, <1>7, <1>8, <1>9 DEF Next

\* While no call has failed and no process has died, a test_run_jobs row that
\* says "active" is that of a processor at work on the run.
THEOREM ActiveRowIsProcessed == Spec => []ActiveRowHasProcessor
<1>1. ActiveInv => ActiveRowHasProcessor
  BY DEF ActiveInv, ActiveRowHasProcessor, Processing, Open, TryBlock
<1> QED BY <1>1, TypeCorrect, ActiveInit, ActiveStep, PTL DEF Spec

-----------------------------------------------------------------------------
(* The attempts.                                                           *)

\* The number of an attempt does not change while it runs.
LEMMA AttemptsKept ==
    ASSUME TypeOK, NEW s \in Slots, KeepsRun(s)
    PROVE  \A t \in Slots : task'[t].attempt = task[t].attempt
<1>1. \A t \in Slots : task[t] \in Tasks
  BY DEF TypeOK
<1>2. \A t \in Tasks : /\ \A x : [t EXCEPT !.row = x].attempt = t.attempt
                       /\ \A o : [t EXCEPT !.outcome = o].attempt = t.attempt
  BY DEF Tasks
<1>3. CASE \E x \in TestRunStatuses \cup {NoRow} : task' = [task EXCEPT ![s].row = x]
  <2>1. PICK x : task' = [task EXCEPT ![s] = [task[s] EXCEPT !.row = x]]
    BY <1>3
  <2> QED BY <1>1, <1>2, <2>1 DEF TypeOK
<1>4. CASE \E o \in Outcomes : task' = [task EXCEPT ![s].outcome = o]
  <2>1. PICK o : task' = [task EXCEPT ![s] = [task[s] EXCEPT !.outcome = o]]
    BY <1>4
  <2> QED BY <1>1, <1>2, <2>1 DEF TypeOK
<1> QED BY <1>3, <1>4 DEF KeepsRun

\* The queue as an attempt leaves it: only the jobs that return move.
LEMMA QueueIsLocal ==
    ASSUME TypeOK, NEW s \in Slots, AttemptStep(s) \/ CallFails(s),
           NEW q \in Runs, q # task[s].run
    PROVE  /\ jobState'[q] = jobState[q]
           /\ attemptsMade'[q] = attemptsMade[q]
           /\ lock'[q] = lock[q]
<1>1. QueueOK
  BY TypeParts
<1>2. CASE UNCHANGED queueVars
  BY <1>2 DEF queueVars
<1>3. CASE Returns(s)
  BY <1>1, <1>3 DEF Returns, JobReturns, QueueOK
<1> QED BY <1>2, <1>3, AttemptShape

\* While no lock has been lost, a processor works on the attempt that follows
\* those BullMQ has counted.
AttemptCounts ==
    lockLosses = 0 =>
        \A s \in Slots : pc[s] # "idle" => task[s].attempt = attemptsMade[task[s].run] + 1

LEMMA CountsInit == Init => AttemptCounts
BY DEF Init, AttemptCounts

LEMMA CountsStep == TypeOK /\ LockInv /\ AttemptCounts /\ [Next]_vars => AttemptCounts'
<1> SUFFICES ASSUME TypeOK, LockHeld, [Next]_vars,
                    \A s \in Slots : pc[s] # "idle" => task[s].attempt = attemptsMade[task[s].run] + 1
             PROVE  \A s \in Slots : pc'[s] # "idle" => task'[s].attempt = attemptsMade'[task'[s].run] + 1
  BY LossesGrow DEF LockInv, AttemptCounts
<1> DEFINE Goal == \A s \in Slots : pc'[s] # "idle" => task'[s].attempt = attemptsMade'[task'[s].run] + 1
<1>1. SlotsOK /\ QueueOK
  BY TypeParts
<1> USE DEF slotVars, queueVars
<1>2. CASE UNCHANGED <<slotVars, attemptsMade>>
  BY <1>2
<1>3. ASSUME NEW r \in Runs,
             \/ CreateTestRun(r) \/ RequestStep(r) \/ RequestDies(r) \/ DeleteRun(r)
             \/ PromoteJob(r) \/ RecoverStalledJob(r) \/ LoseLock(r)
      PROVE  Goal
  BY <1>2, <1>3 DEF CreateTestRun, RequestStep, EnqueueTestRun, AddJob, MarkQueued, MarkEnqueueFailed,
                    MarkRun, RequestDies, DeleteRun, PromoteJob, RecoverStalledJob, LoseLock
<1>4. ASSUME NEW u \in Users, CancelStep(u) \/ CancelDies(u) \/ \E r \in Runs : CancelTestRun(u, r)
      PROVE  Goal
  BY <1>2, <1>4 DEF CancelStep, InspectJob, RemoveQueuedJob, WriteCancelled, CancelDies, CancelTestRun
<1>5. ASSUME NEW s \in Slots, AttemptStep(s) \/ CallFails(s)
      PROVE  Goal
  <2>1. CASE Continues(s) /\ KeepsRun(s) /\ UNCHANGED queueVars
    BY <1>1, <1>5, <2>1, AttemptShape, AttemptsKept, RunsKept DEF Continues, Goto, SlotsOK
  <2>2. CASE Returns(s)
    <3>1. pc'[s] = "idle" /\ pc[s] # "idle"
      BY <1>1, <1>5, <2>2, AttemptShape DEF Returns, JobReturns, SlotsOK
    <3>2. \A t \in Slots : t # s => pc'[t] = pc[t] /\ task'[t] = task[t]
      BY <1>5, AttemptIsLocal
    <3>3. \A t \in Slots : t # s /\ pc[t] # "idle" =>
              attemptsMade'[task[t].run] = attemptsMade[task[t].run]
      BY <1>1, <1>5, <3>1, QueueIsLocal DEF LockHeld, SlotsOK
    <3> QED BY <3>1, <3>2, <3>3
  <2> QED BY <1>5, <2>1, <2>2, AttemptShape
<1>6. ASSUME NEW s \in Slots, WorkerDies(s)
      PROVE  Goal
  BY <1>1, <1>6 DEF WorkerDies, SlotsOK
<1>7. ASSUME NEW s \in Slots, NEW r \in Runs, TakeJob(s, r)
      PROVE  Goal
  <2>1. task'[s].attempt = attemptsMade[r] + 1 /\ task'[s].run = r
    BY <1>1, <1>7 DEF TakeJob, SlotsOK, NoTask
  <2>2. \A t \in Slots : t # s => pc'[t] = pc[t] /\ task'[t] = task[t]
    BY <1>1, <1>7 DEF TakeJob, SlotsOK
  <2> QED BY <1>7, <2>1, <2>2 DEF TakeJob
<1>8. CASE UNCHANGED vars
  BY <1>2, <1>8 DEF vars
<1> QED BY <1>3, <1>4, <1>5, <1>6, <1>7, <1>8 DEF Next

\* Past the catch block's first write the job's row says that this attempt
\* failed, and it still does while BullMQ waits to retry the job.
FailureRecorded(s) ==
    LET r == task[s].run
    IN  pc[s] \in {"reloadFinal", "fail", "reject"} /\ status[r] # NoRow =>
            jobRow[r] = [status |-> "failed", attempts |-> task[s].attempt]

RetryRecorded(r) ==
    jobState[r] = "delayed" /\ status[r] # NoRow =>
        jobRow[r] = [status |-> "failed", attempts |-> attemptsMade[r]]

RetryInv ==
    faults = 0 /\ lockLosses = 0 =>
        (\A s \in Slots : FailureRecorded(s)) /\ (\A r \in Runs : RetryRecorded(r))

LEMMA RetryInit == Init => RetryInv
BY DEF Init, RetryInv, FailureRecorded, RetryRecorded

\* An attempt that leaves through the catch block leaves its failure behind.
LEMMA AttemptRecords ==
    ASSUME TypeOK, faults' = 0, NEW s \in Slots, AttemptStep(s) \/ CallFails(s), FailureRecorded(s)
    PROVE  FailureRecorded(s)'
<1>1. RowsOK /\ SlotsOK /\ pc[s] # "idle" /\ task[s].run \in Runs
  BY TypeParts, AttemptShape DEF SlotsOK
<1> USE DEF TryBlock, rowVars
<1>2. ASSUME pc'[s] \notin {"reloadFinal", "fail", "reject"}
      PROVE  FailureRecorded(s)'
  BY <1>2 DEF FailureRecorded
<1>3. CASE LoadForAttempt(s) \/ ReloadTestRun(s)
  BY <1>1, <1>2, <1>3 DEF LoadForAttempt, ReloadTestRun, Goto, SlotsOK
<1>4. CASE MarkActive(s) \/ ClearTestResults(s) \/ InsertTestResults(s) \/ RecordJobCompleted(s)
  BY <1>1, <1>2, <1>4, RepliesClean
     DEF MarkActive, ClearTestResults, InsertTestResults, RecordJobCompleted, Goto, SlotsOK
<1>5. CASE AdvanceToRunning(s)
  <2>1. PICK step \in {"advance", "execute"} : Replies(s, step)
    BY <1>5 DEF AdvanceToRunning
  <2> QED BY <1>2, <2>1, RepliesClean
<1>6. CASE Execute(s) \/ WriteArtifacts(s)
  BY <1>1, <1>2, <1>6 DEF Execute, WriteArtifacts, Goto, Throw, SlotsOK
<1>7. CASE FinishTestRun(s)
  BY <1>1, <1>2, <1>7, RepliesClean DEF FinishTestRun, Goto, Throw, SlotsOK
<1>8. CASE RecordJobFailed(s)
  BY <1>1, <1>8 DEF RecordJobFailed, UpsertJobRecord, FailureRecorded, RowsOK
<1>9. CASE ReloadForFailure(s)
  <2>1. pc[s] = "reloadFinal" /\ UNCHANGED <<status, jobRow>> /\ KeepsRun(s)
    BY <1>1, <1>9, LoadKeepsRun DEF ReloadForFailure
  <2> QED BY <2>1, RunsKept, AttemptsKept DEF FailureRecorded
<1>10. CASE FailTestRun(s)
  BY <1>1, <1>10 DEF FailTestRun, TransitionTestRun, FailureRecorded
<1>11. CASE RunIsGone(s)
  BY <1>11 DEF RunIsGone, FailureRecorded
<1>12. CASE ProcessorResolves(s) \/ ProcessorRejects(s)
  BY <1>1, <1>2, <1>12 DEF ProcessorResolves, ProcessorRejects, JobReturns, SlotsOK
<1>13. ~CallFails(s)
  BY DEF CallFails, Fault, TypeOK
<1> QED
  BY <1>3, <1>4, <1>5, <1>6, <1>7, <1>8, <1>9, <1>10, <1>11, <1>12, <1>13 DEF AttemptStep

LEMMA RetryStep ==
    TypeOK /\ LockInv /\ RequestInv /\ AttemptCounts /\ RetryInv /\ [Next]_vars => RetryInv'
<1> SUFFICES ASSUME TypeOK, LockHeld, LockedIsActive, RequestInv, [Next]_vars, faults' = 0,
                    \A s \in Slots : pc[s] # "idle" => task[s].attempt = attemptsMade[task[s].run] + 1,
                    \A s \in Slots : FailureRecorded(s), \A r \in Runs : RetryRecorded(r)
             PROVE  (\A s \in Slots : FailureRecorded(s)') /\ (\A r \in Runs : RetryRecorded(r)')
  BY LossesGrow, BudgetsGrow DEF LockInv, AttemptCounts, RetryInv
<1> DEFINE Goal == (\A s \in Slots : FailureRecorded(s)') /\ (\A r \in Runs : RetryRecorded(r)')
<1>1. RowsOK /\ QueueOK /\ RequestsOK /\ SlotsOK
  BY TypeParts
<1>2. None \notin Slots
  BY ConstantsAssumption DEF ConstantsAssumption
<1> USE DEF rowVars, slotVars, queueVars
<1>3. ASSUME UNCHANGED <<slotVars, attemptsMade>>,
             \A r \in Runs : jobState'[r] = jobState[r] \/ jobState'[r] # "delayed",
             \A r \in Runs : \/ status'[r] = NoRow
                             \/ jobRow'[r] = jobRow[r] /\ status[r] # NoRow
                             \/ request[r] = "none" /\ jobState[r] = jobState'[r]
      PROVE  Goal
  <2>1. \A r \in Runs : request[r] = "none" =>
            jobState[r] = "absent" /\ \A s \in Slots : pc[s] # "idle" => task[s].run # r
    BY <1>2 DEF RequestInv, LockedIsActive, LockHeld
  <2>2. \A s \in Slots : pc[s] = "idle" \/ task[s].run \in Runs
    BY <1>1 DEF SlotsOK
  <2> QED BY <1>3, <2>1, <2>2 DEF FailureRecorded, RetryRecorded
<1>4. ASSUME NEW r \in Runs,
             \/ CreateTestRun(r) \/ RequestStep(r) \/ RequestDies(r) \/ DeleteRun(r)
             \/ PromoteJob(r) \/ RecoverStalledJob(r) \/ LoseLock(r)
      PROVE  Goal
  <2>1. CASE CreateTestRun(r)
    BY <1>1, <1>3, <2>1 DEF CreateTestRun, RowsOK
  <2>2. CASE EnqueueTestRun(r)
    <3>1. UNCHANGED <<slotVars, rowVars, attemptsMade>> /\ (AddJob(r) \/ UNCHANGED jobState)
      BY <2>2 DEF EnqueueTestRun, AddJob
    <3> QED BY <1>1, <1>3, <3>1 DEF AddJob, QueueOK
  <2>3. CASE MarkQueued(r) \/ MarkEnqueueFailed(r)
    <3>1. UNCHANGED <<slotVars, queueVars, jobRow>> /\ (UNCHANGED status \/ \E to : UpdateStatus(r, to))
      BY <2>3 DEF MarkQueued, MarkEnqueueFailed, MarkRun
    <3> QED BY <1>1, <1>3, <3>1 DEF UpdateStatus, RowsOK
  <2>4. CASE DeleteRun(r)
    BY <1>1, <1>3, <2>4 DEF DeleteRun, RowsOK
  <2>5. CASE RequestDies(r) \/ PromoteJob(r) \/ RecoverStalledJob(r) \/ LoseLock(r)
    BY <1>1, <1>3, <2>5 DEF RequestDies, PromoteJob, RecoverStalledJob, LoseLock, QueueOK
  <2> QED BY <1>4, <2>1, <2>2, <2>3, <2>4, <2>5 DEF RequestStep
<1>5. ASSUME NEW u \in Users, CancelStep(u) \/ CancelDies(u) \/ \E r \in Runs : CancelTestRun(u, r)
      PROVE  Goal
  <2>1. /\ UNCHANGED <<slotVars, jobRow, attemptsMade>>
        /\ UNCHANGED status \/ UpdateStatus(cancel[u].run, "cancelled")
        /\ UNCHANGED jobState \/ jobState' = [jobState EXCEPT ![cancel[u].run] = "absent"]
    BY <1>5 DEF CancelStep, InspectJob, RemoveQueuedJob, WriteCancelled, CancelDies, CancelTestRun
  <2> QED BY <1>1, <1>3, <2>1 DEF UpdateStatus, RowsOK, QueueOK
<1>6. ASSUME NEW s \in Slots, AttemptStep(s) \/ CallFails(s)
      PROVE  Goal
  <2>1. PICK r \in Runs : task[s].run = r /\ pc[s] # "idle"
    BY <1>1, <1>6, AttemptShape DEF SlotsOK
  <2>2. /\ \A q \in Runs : status'[q] = NoRow <=> status[q] = NoRow
        /\ \A t \in Slots : t # s => pc'[t] = pc[t] /\ task'[t] = task[t]
        /\ \A q \in Runs : q # r => jobRow'[q] = jobRow[q]
        /\ \A q \in Runs : q # r => jobState'[q] = jobState[q] /\ attemptsMade'[q] = attemptsMade[q]
    BY <1>6, <2>1, AttemptIsLocal, JobRowIsLocal, QueueIsLocal
  <2>3. \A t \in Slots : t # s => pc[t] = "idle" \/ (task[t].run \in Runs /\ task[t].run # r)
    BY <1>1, <2>1 DEF LockHeld, SlotsOK
  <2>4. \A t \in Slots : t # s => FailureRecorded(t)'
    BY <2>2, <2>3 DEF FailureRecorded
  <2>5. FailureRecorded(s)'
    BY <1>6, AttemptRecords
  <2>6. \A q \in Runs : q # r => RetryRecorded(q)'
    BY <2>2 DEF RetryRecorded
  <2>7. RetryRecorded(r)'
    <3>1. lock[r] = s /\ jobState[r] = "active"
      BY <1>2, <2>1 DEF LockHeld, LockedIsActive
    <3>2. ASSUME jobState'[r] = "delayed"
          PROVE  /\ ProcessorRejects(s) /\ UNCHANGED rowVars
                 /\ attemptsMade'[r] = attemptsMade[r] + 1
      <4>1. ~ProcessorResolves(s)
        BY <1>1, <2>1, <3>1, <3>2 DEF ProcessorResolves, JobReturns, QueueOK
      <4>2. ProcessorRejects(s)
        <5>1. jobState'[r] # jobState[r]
          BY <3>1, <3>2
        <5> QED BY <1>6, <4>1, <5>1 DEF AttemptStep, CallFails, LoadForAttempt, MarkActive,
                   AdvanceToRunning, Execute, ClearTestResults, InsertTestResults, WriteArtifacts,
                   ReloadTestRun, FinishTestRun, RecordJobCompleted, RecordJobFailed,
                   ReloadForFailure, FailTestRun, RunIsGone
      <4> QED BY <1>1, <2>1, <3>1, <4>2 DEF ProcessorRejects, JobReturns, QueueOK
    <3> QED BY <2>1, <3>2 DEF RetryRecorded, FailureRecorded, ProcessorRejects
  <2> QED BY <2>4, <2>5, <2>6, <2>7
<1>7. ASSUME NEW s \in Slots, WorkerDies(s) \/ \E r \in Runs : TakeJob(s, r)
      PROVE  Goal
  <2>1. /\ \A t \in Slots : t # s => pc'[t] = pc[t] /\ task'[t] = task[t]
        /\ pc'[s] \in {"idle", "load"} /\ UNCHANGED <<rowVars, attemptsMade>>
        /\ \A q \in Runs : jobState'[q] = jobState[q] \/ jobState'[q] = "active"
    BY <1>1, <1>7 DEF WorkerDies, TakeJob, SlotsOK, QueueOK
  <2> QED BY <2>1 DEF FailureRecorded, RetryRecorded
<1>8. CASE UNCHANGED vars
  BY <1>8 DEF vars, FailureRecorded, RetryRecorded
<1> QED BY <1>4, <1>5, <1>6, <1>7, <1>8 DEF Next

THEOREM RetriesInvariant == Spec => [](PipelineInv /\ AttemptCounts /\ RetryInv)
<1>1. PipelineInv => TypeOK /\ LockInv /\ RequestInv
  BY DEF PipelineInv
<1>2. PipelineInv /\ AttemptCounts /\ RetryInv /\ [Next]_vars => (AttemptCounts /\ RetryInv)'
  BY <1>1, CountsStep, RetryStep
<1> QED BY <1>2, PipelineInvariant, CountsInit, RetryInit, PTL DEF Spec

\* While no call has failed and no lock was lost, a job that BullMQ is about to
\* retry has a row that says its last attempt failed, with BullMQ's count.
THEOREM RetriesAreRecorded == Spec => []RetryIsRecorded
<1>1. RetryInv => RetryIsRecorded
  BY DEF RetryInv, RetryRecorded, RetryIsRecorded
<1> QED BY <1>1, RetriesInvariant, PTL

-----------------------------------------------------------------------------
(* Nobody is forgotten.                                                    *)

\* When no worker can overtake createTestRun, the run it has not finished with
\* is untouched: newly inserted, its job absent or waiting, nobody cancelling.
HandedOver(r) ==
    request[r] # "done" =>
        /\ status[r] \in {NoRow, "created"}
        /\ \A u \in Users : cancel[u].run # r
        /\ jobState[r] \in {"absent", "waiting"}
        /\ request[r] = "enqueue" => jobState[r] = "absent"
        /\ request[r] = "markQueued" => jobState[r] = "waiting"

HandOverInv ==
    ~EarlyPickup =>
        /\ \A s \in Slots : pc[s] # "idle" => request[task[s].run] = "done"
        /\ \A r \in Runs : HandedOver(r)

LEMMA HandOverInit == Init => HandOverInv
BY ConstantsAssumption DEF Init, HandOverInv, HandedOver, NoCancel, ConstantsAssumption

\* Only a run that was handed over can be cancelled.
LEMMA CancelNeedsHandOver ==
    ASSUME NEW u \in Users, NEW r \in Runs, CancelTestRun(u, r), HandedOver(r)
    PROVE  request[r] = "done"
BY TransitionsType
   DEF CancelTestRun, HandedOver, CanTransitionTestRunStatus, TestRunTransitions, TestRunStatuses, NoRow

LEMMA HandOverStep ==
    TypeOK /\ LockInv /\ RequestInv /\ HandOverInv /\ [Next]_vars => HandOverInv'
<1> SUFFICES ASSUME TypeOK, LockInv, RequestInv, [Next]_vars, ~EarlyPickup,
                    \A s \in Slots : pc[s] # "idle" => request[task[s].run] = "done",
                    \A r \in Runs : HandedOver(r)
             PROVE  /\ \A s \in Slots : pc'[s] # "idle" => request'[task'[s].run] = "done"
                    /\ \A r \in Runs : HandedOver(r)'
  BY DEF HandOverInv
<1> DEFINE Goal == /\ \A s \in Slots : pc'[s] # "idle" => request'[task'[s].run] = "done"
                   /\ \A r \in Runs : HandedOver(r)'
<1>1. RowsOK /\ QueueOK /\ RequestsOK /\ SlotsOK /\ None \notin Runs
  BY TypeParts, ConstantsAssumption DEF ConstantsAssumption
<1> USE DEF rowVars, slotVars, queueVars, requestVars
\* A step of the control plane of one run.
<1>2. ASSUME NEW r \in Runs, UNCHANGED <<slotVars, cancel>>, HandedOver(r)',
             request[r] = "done" => request'[r] = "done",
             \A q \in Runs : q # r => /\ status'[q] = status[q] /\ jobState'[q] = jobState[q]
                                      /\ request'[q] = request[q]
      PROVE  Goal
  <2>1. \A s \in Slots : pc[s] = "idle" \/ task[s].run \in Runs
    BY <1>1 DEF SlotsOK
  <2> QED BY <1>2, <2>1 DEF HandedOver
<1>3. ASSUME NEW r \in Runs, CreateTestRun(r)
      PROVE  Goal
  BY <1>1, <1>2, <1>3 DEF CreateTestRun, Proceed, HandedOver, RequestInv, RowsOK, RequestsOK
<1>4. ASSUME NEW r \in Runs, EnqueueTestRun(r)
      PROVE  Goal
  <2>1. jobState[r] = "absent" /\ status[r] \in {NoRow, "created"} /\ \A u \in Users : cancel[u].run # r
    BY <1>4 DEF EnqueueTestRun, HandedOver
  <2>2. /\ UNCHANGED <<slotVars, cancel, status>>
        /\ \/ AddJob(r) /\ Proceed(r, "markQueued")
           \/ (AddJob(r) \/ UNCHANGED jobState) /\ Proceed(r, "markFailed")
    BY <1>4 DEF EnqueueTestRun
  <2> QED BY <1>1, <1>2, <1>4, <2>1, <2>2 DEF EnqueueTestRun, AddJob, Proceed, HandedOver, QueueOK, RequestsOK
<1>5. ASSUME NEW r \in Runs, MarkQueued(r) \/ MarkEnqueueFailed(r) \/ RequestDies(r)
      PROVE  Goal
  <2>1. /\ UNCHANGED <<slotVars, cancel, jobState>> /\ Proceed(r, "done")
        /\ UNCHANGED status \/ \E to : UpdateStatus(r, to)
    BY <1>5 DEF MarkQueued, MarkEnqueueFailed, MarkRun, RequestDies
  <2> QED BY <1>1, <1>2, <2>1 DEF UpdateStatus, Proceed, HandedOver, RowsOK, RequestsOK
<1>6. ASSUME NEW r \in Runs, DeleteRun(r) \/ PromoteJob(r) \/ RecoverStalledJob(r) \/ LoseLock(r)
      PROVE  Goal
  <2>1. HandedOver(r)
    OBVIOUS
  <2> QED BY <1>1, <1>2, <1>6, <2>1 DEF DeleteRun, PromoteJob, RecoverStalledJob, LoseLock, HandedOver, RowsOK, QueueOK
<1>7. ASSUME NEW u \in Users, CancelStep(u) \/ CancelDies(u)
      PROVE  Goal
  <2>1. /\ UNCHANGED <<slotVars, request>>
        /\ CancelReturns(u) \/ \E step : CancelGoto(u, step)
        /\ UNCHANGED status \/ UpdateStatus(cancel[u].run, "cancelled")
        /\ UNCHANGED jobState \/ jobState' = [jobState EXCEPT ![cancel[u].run] = "absent"]
    BY <1>7 DEF CancelStep, InspectJob, RemoveQueuedJob, WriteCancelled, CancelDies
  <2>2. \A v \in Users : cancel'[v].run \in {cancel[v].run, None}
    BY <1>1, <2>1 DEF CancelReturns, CancelGoto, RequestsOK, CancelRequests, NoCancel
  <2>3. \A q \in Runs : cancel[u].run # q => status'[q] = status[q] /\ jobState'[q] = jobState[q]
    BY <1>1, <2>1 DEF UpdateStatus, RowsOK, QueueOK
  <2> QED BY <1>1, <2>1, <2>2, <2>3 DEF HandedOver
<1>8. ASSUME NEW u \in Users, NEW r \in Runs, CancelTestRun(u, r)
      PROVE  Goal
  <2>1. request[r] = "done"
    BY <1>8, CancelNeedsHandOver
  <2>2. \A v \in Users : cancel'[v].run \in {cancel[v].run, r}
    BY <1>1, <1>8 DEF CancelTestRun, RequestsOK
  <2> QED BY <1>8, <2>1, <2>2 DEF CancelTestRun, HandedOver
<1>9. ASSUME NEW s \in Slots, AttemptStep(s) \/ CallFails(s)
      PROVE  Goal
  <2>1. PICK r \in Runs : task[s].run = r /\ request[r] = "done"
    BY <1>1, <1>9, AttemptShape DEF SlotsOK
  <2>2. /\ UNCHANGED requestVars
        /\ \A q \in Runs : q # r => status'[q] = status[q] /\ jobState'[q] = jobState[q]
        /\ \A t \in Slots : t # s => pc'[t] = pc[t] /\ task'[t] = task[t]
    BY <1>9, <2>1, AttemptIsLocal, QueueIsLocal
  <2>3. pc'[s] = "idle" \/ task'[s].run = r
    <3>1. CASE Returns(s)
      BY <1>1, <3>1 DEF Returns, JobReturns, SlotsOK
    <3> QED BY <1>9, <2>1, <3>1, AttemptShape, RunsKept
  <2> QED BY <2>1, <2>2, <2>3 DEF HandedOver
<1>10. ASSUME NEW s \in Slots, WorkerDies(s)
       PROVE  Goal
  BY <1>1, <1>10 DEF WorkerDies, SlotsOK, HandedOver
<1>11. ASSUME NEW s \in Slots, NEW r \in Runs, TakeJob(s, r)
       PROVE  Goal
  <2>1. request[r] = "done" /\ task'[s].run = r
        /\ \A t \in Slots : t # s => pc'[t] = pc[t] /\ task'[t] = task[t]
    BY <1>1, <1>11 DEF TakeJob, SlotsOK, NoTask
  <2> QED BY <1>1, <1>11, <2>1 DEF TakeJob, HandedOver, QueueOK
<1>12. CASE UNCHANGED vars
  BY <1>12 DEF vars, HandedOver
<1> QED
  BY <1>3, <1>4, <1>5, <1>6, <1>7, <1>8, <1>9, <1>10, <1>11, <1>12 DEF Next, RequestStep

\* Redis never refused a job while no call has failed.
NoRefusal == faults = 0 => \A r \in Runs : request[r] # "markFailed"

LEMMA NoRefusalInit == Init => NoRefusal
BY DEF Init, NoRefusal

LEMMA NoRefusalStep == TypeOK /\ NoRefusal /\ [Next]_vars => NoRefusal'
<1> SUFFICES ASSUME TypeOK, [Next]_vars, faults' = 0, \A r \in Runs : request[r] # "markFailed"
             PROVE  \A r \in Runs : request'[r] # "markFailed"
  BY BudgetsGrow DEF NoRefusal
<1> DEFINE Goal == \A r \in Runs : request'[r] # "markFailed"
<1>1. request \in [Runs -> RequestSteps]
  BY DEF TypeOK
<1>2. ASSUME NEW r \in Runs,
             \/ CreateTestRun(r) \/ RequestStep(r) \/ RequestDies(r) \/ DeleteRun(r)
             \/ PromoteJob(r) \/ RecoverStalledJob(r) \/ LoseLock(r)
      PROVE  Goal
  <2>1. UNCHANGED request \/ \E step \in {"enqueue", "markQueued", "done"} : Proceed(r, step)
    <3>1. ~Fault
      BY DEF Fault, TypeOK
    <3> QED BY <1>2, <3>1
            DEF CreateTestRun, RequestStep, EnqueueTestRun, MarkQueued, MarkEnqueueFailed, MarkRun,
                RequestDies, DeleteRun, PromoteJob, RecoverStalledJob, LoseLock, requestVars
  <2> QED BY <1>1, <2>1 DEF Proceed
<1>3. ASSUME NEW u \in Users, CancelStep(u) \/ CancelDies(u) \/ \E r \in Runs : CancelTestRun(u, r)
      PROVE  Goal
  BY <1>3 DEF CancelStep, InspectJob, RemoveQueuedJob, WriteCancelled, CancelDies, CancelTestRun
<1>4. ASSUME NEW s \in Slots, AttemptStep(s) \/ CallFails(s)
      PROVE  Goal
  BY <1>4, AttemptIsLocal DEF requestVars
<1>5. ASSUME NEW s \in Slots, WorkerDies(s) \/ \E r \in Runs : TakeJob(s, r)
      PROVE  Goal
  BY <1>5 DEF WorkerDies, TakeJob, requestVars
<1>6. CASE UNCHANGED vars
  BY <1>6 DEF vars, requestVars
<1> QED BY <1>2, <1>3, <1>4, <1>5, <1>6 DEF Next

\* Every stall that BullMQ has counted, and the one it is about to find, is a
\* process that died.
Abandoned(r) == jobState[r] = "active" /\ lock[r] = None

StallsInv ==
    lockLosses = 0 =>
        \A r \in Runs : stalls[r] <= crashes /\ (Abandoned(r) => stalls[r] < crashes)

LEMMA StallsInit == Init => StallsInv
BY DEF Init, StallsInv, Abandoned

LEMMA StallsStep == TypeOK /\ LockInv /\ StallsInv /\ [Next]_vars => StallsInv'
<1> SUFFICES ASSUME TypeOK, LockInv, [Next]_vars, lockLosses = 0, lockLosses' = 0, NEW r \in Runs,
                    stalls[r] <= crashes, Abandoned(r) => stalls[r] < crashes
             PROVE  stalls'[r] <= crashes' /\ (Abandoned(r)' => stalls'[r] < crashes')
  BY LossesGrow DEF StallsInv
<1> DEFINE Goal == stalls'[r] <= crashes' /\ (Abandoned(r)' => stalls'[r] < crashes')
<1>1. QueueOK /\ BudgetsOK /\ RequestsOK /\ SlotsOK
  BY TypeParts
<1> USE DEF budgetVars, queueVars, Fault, RequestDeath
<1>2. ASSUME stalls'[r] = stalls[r], crashes' = crashes, Abandoned(r)' => Abandoned(r)
      PROVE  Goal
  BY <1>2
<1>3. ASSUME NEW q \in Runs,
             \/ CreateTestRun(q) \/ RequestStep(q) \/ RequestDies(q) \/ DeleteRun(q) \/ PromoteJob(q)
      PROVE  Goal
  <2>1. /\ UNCHANGED <<stalls, crashes, lock>>
        /\ UNCHANGED jobState \/ AddJob(q) \/ jobState' = [jobState EXCEPT ![q] = "waiting"]
    BY <1>3 DEF CreateTestRun, RequestStep, EnqueueTestRun, AddJob, MarkQueued, MarkEnqueueFailed, MarkRun,
                RequestDies, DeleteRun, PromoteJob
  <2> QED BY <1>1, <1>2, <2>1 DEF AddJob, Abandoned, QueueOK
<1>4. ASSUME NEW q \in Runs, RecoverStalledJob(q)
      PROVE  Goal
  <2>1. CASE q = r
    <3>1. Abandoned(r) /\ stalls'[r] = stalls[r] + 1 /\ crashes' = crashes /\ ~Abandoned(r)'
      BY <1>1, <1>4, <2>1 DEF RecoverStalledJob, Abandoned, QueueOK
    <3> QED BY <1>1, <3>1 DEF QueueOK, BudgetsOK
  <2>2. CASE q # r
    BY <1>1, <1>2, <1>4, <2>2 DEF RecoverStalledJob, Abandoned, QueueOK
  <2> QED BY <2>1, <2>2
<1>5. ASSUME NEW q \in Runs
      PROVE  ~LoseLock(q)
  BY <1>1 DEF LoseLock, BudgetsOK
<1>6. ASSUME NEW u \in Users, CancelStep(u) \/ CancelDies(u) \/ \E q \in Runs : CancelTestRun(u, q)
      PROVE  Goal
  <2>1. /\ UNCHANGED <<stalls, crashes, lock>>
        /\ UNCHANGED jobState \/ jobState' = [jobState EXCEPT ![cancel[u].run] = "absent"]
    BY <1>6 DEF CancelStep, InspectJob, RemoveQueuedJob, WriteCancelled, CancelDies, CancelTestRun
  <2> QED BY <1>1, <1>2, <2>1 DEF Abandoned, QueueOK
<1>7. ASSUME NEW s \in Slots, AttemptStep(s) \/ CallFails(s)
      PROVE  Goal
  <2>1. crashes' = crashes
    BY <1>7 DEF AttemptStep, LoadForAttempt, MarkActive, AdvanceToRunning, Execute,
       ClearTestResults, InsertTestResults, WriteArtifacts, ReloadTestRun, FinishTestRun,
       RecordJobCompleted, RecordJobFailed, ReloadForFailure, FailTestRun, RunIsGone,
       ProcessorResolves, ProcessorRejects, JobReturns, Replies, CallFails
  <2>2. CASE UNCHANGED queueVars
    BY <1>2, <2>1, <2>2 DEF Abandoned
  <2>3. CASE Returns(s)
    BY <1>1, <1>2, <2>1, <2>3 DEF Returns, JobReturns, Abandoned, QueueOK
  <2> QED BY <1>7, <2>2, <2>3, AttemptShape
<1>8. ASSUME NEW s \in Slots, WorkerDies(s)
      PROVE  Goal
  BY <1>1, <1>8 DEF WorkerDies, QueueOK, BudgetsOK
<1>9. ASSUME NEW s \in Slots, NEW q \in Runs, TakeJob(s, q)
      PROVE  Goal
  <2>1. s # None
    BY ConstantsAssumption DEF ConstantsAssumption
  <2> QED BY <1>1, <1>2, <1>9, <2>1 DEF TakeJob, Abandoned, QueueOK
<1>10. CASE UNCHANGED vars
  BY <1>2, <1>10 DEF vars, Abandoned
<1> QED BY <1>3, <1>4, <1>5, <1>6, <1>7, <1>8, <1>9, <1>10 DEF Next

\* An attempt ends well, or gives up, only on a run that is finished or gone.
EndsFinished(s) ==
    /\ pc[s] \in {"recordDone", "resolve"} => NothingToDo(task[s].run)
    /\ pc[s] = "reject" /\ IsFinalAttempt(s) => NothingToDo(task[s].run)

EndInv ==
    ~EarlyPickup /\ faults = 0 /\ lockLosses = 0 => \A s \in Slots : EndsFinished(s)

LEMMA EndInit == Init => EndInv
BY DEF Init, EndInv, EndsFinished

LEMMA AttemptEnds ==
    ASSUME TypeOK, faults' = 0, NEW s \in Slots, AttemptStep(s) \/ CallFails(s), EndsFinished(s)
    PROVE  EndsFinished(s)'
<1>1. RowsOK /\ SlotsOK /\ pc[s] # "idle" /\ task[s].run \in Runs
  BY TypeParts, AttemptShape DEF SlotsOK
<1> USE DEF TryBlock, rowVars
<1>2. ASSUME pc'[s] \notin {"recordDone", "resolve", "reject"}
      PROVE  EndsFinished(s)'
  BY <1>2 DEF EndsFinished
<1>3. ASSUME NothingToDo(task[s].run)', task'[s].run = task[s].run
      PROVE  EndsFinished(s)'
  BY <1>3 DEF EndsFinished, NothingToDo
<1>4. CASE LoadForAttempt(s) \/ ReloadTestRun(s) \/ ReloadForFailure(s)
  <2>1. KeepsRun(s) /\ UNCHANGED status
    BY <1>1, <1>4, LoadKeepsRun DEF LoadForAttempt, ReloadTestRun, ReloadForFailure
  <2>2. CASE NothingToDo(task[s].run)
    BY <1>3, <2>1, <2>2, RunsKept DEF NothingToDo
  <2>3. CASE ~NothingToDo(task[s].run)
    BY <1>1, <1>2, <1>4, <2>3 DEF LoadForAttempt, ReloadTestRun, ReloadForFailure, Goto, SlotsOK
  <2> QED BY <2>2, <2>3
<1>5. CASE MarkActive(s) \/ ClearTestResults(s) \/ InsertTestResults(s)
  BY <1>1, <1>2, <1>5, RepliesClean
     DEF MarkActive, ClearTestResults, InsertTestResults, Goto, SlotsOK
<1>6. CASE AdvanceToRunning(s)
  <2>1. PICK step \in {"advance", "execute"} : Replies(s, step)
    BY <1>6 DEF AdvanceToRunning
  <2> QED BY <1>2, <2>1, RepliesClean
<1>7. CASE Execute(s) \/ WriteArtifacts(s)
  BY <1>1, <1>2, <1>7 DEF Execute, WriteArtifacts, Goto, Throw, SlotsOK
<1>8. CASE FinishTestRun(s)
  <2>1. CASE TransitionTestRun(s, FinalStatus(task[s].outcome))
    <3>1. FinalStatus(task[s].outcome) \in {"completed", "failed", "blocked"}
      <4>1. task[s].outcome \in Outcomes \cup {"none"}
        BY <1>1 DEF SlotsOK, Tasks
      <4>2. FinalStatus(task[s].outcome) \in TestRunStatuses
        BY <2>1, TransitionsType DEF TransitionTestRun
      <4> QED BY <4>1, <4>2 DEF FinalStatus, Outcomes, TestRunStatuses
    <3>2. NothingToDo(task[s].run)'
      BY <1>1, <1>8, <2>1, <3>1
         DEF FinishTestRun, TransitionTestRun, NothingToDo, IsTestRunFinished, TestRunTerminalStatuses, RowsOK
    <3> QED BY <1>3, <1>8, <3>2 DEF FinishTestRun
  <2>2. CASE Throw(s)
    BY <1>1, <1>2, <1>8, <2>2, ThrowGoto DEF FinishTestRun
  <2> QED BY <1>8, <2>1, <2>2 DEF FinishTestRun
<1>9. CASE RecordJobCompleted(s)
  BY <1>3, <1>9 DEF RecordJobCompleted, EndsFinished, NothingToDo
<1>10. CASE RecordJobFailed(s)
  BY <1>10, RepliesClean DEF RecordJobFailed, EndsFinished, IsFinalAttempt
<1>11. CASE FailTestRun(s)
  <2>1. NothingToDo(task[s].run)'
    BY <1>1, <1>11
       DEF FailTestRun, TransitionTestRun, NothingToDo, IsTestRunFinished, TestRunTerminalStatuses, RowsOK
  <2> QED BY <1>3, <1>11, <2>1 DEF FailTestRun
<1>12. CASE RunIsGone(s)
  BY <1>3, <1>12 DEF RunIsGone, NothingToDo
<1>13. CASE ProcessorResolves(s) \/ ProcessorRejects(s)
  BY <1>1, <1>2, <1>13 DEF ProcessorResolves, ProcessorRejects, JobReturns, SlotsOK
<1>14. ~CallFails(s)
  BY DEF CallFails, Fault, TypeOK
<1> QED
  BY <1>4, <1>5, <1>6, <1>7, <1>8, <1>9, <1>10, <1>11, <1>12, <1>13, <1>14 DEF AttemptStep

\* A step of the control plane or of BullMQ's housekeeping.
ControlStep ==
    \/ \E r \in Runs : \/ CreateTestRun(r) \/ RequestStep(r) \/ RequestDies(r) \/ DeleteRun(r)
                       \/ PromoteJob(r) \/ RecoverStalledJob(r) \/ LoseLock(r)
    \/ \E u \in Users : CancelStep(u) \/ CancelDies(u) \/ \E r \in Runs : CancelTestRun(u, r)

\* It moves no processor, and of a run that was handed over it can only cancel
\* or delete the row.
LEMMA ControlKeeps ==
    ASSUME TypeOK, ControlStep
    PROVE  /\ UNCHANGED slotVars
           /\ \A q \in Runs : request[q] = "done" =>
                  /\ request'[q] = "done"
                  /\ \/ status'[q] \in {status[q], NoRow}
                     \/ status'[q] = "cancelled" /\ \E u \in Users : cancel[u].pc # "idle"
<1> DEFINE Goal == /\ UNCHANGED slotVars
                   /\ \A q \in Runs : request[q] = "done" =>
                          /\ request'[q] = "done"
                          /\ \/ status'[q] \in {status[q], NoRow}
                             \/ status'[q] = "cancelled" /\ \E u \in Users : cancel[u].pc # "idle"
<1>1. RowsOK /\ RequestsOK
  BY TypeParts
<1> USE DEF requestVars, rowVars
<1>2. ASSUME NEW r \in Runs, CreateTestRun(r) \/ RequestStep(r) \/ RequestDies(r)
      PROVE  Goal
  <2>1. /\ request[r] # "done" /\ UNCHANGED slotVars
        /\ \E step : Proceed(r, step)
        /\ UNCHANGED status \/ \E to : status' = [status EXCEPT ![r] = to]
    BY <1>2 DEF CreateTestRun, RequestStep, EnqueueTestRun, MarkQueued, MarkEnqueueFailed,
                MarkRun, UpdateStatus, RequestDies
  <2> QED BY <1>1, <2>1 DEF Proceed, RowsOK, RequestsOK
<1>3. ASSUME NEW r \in Runs, DeleteRun(r) \/ PromoteJob(r) \/ RecoverStalledJob(r) \/ LoseLock(r)
      PROVE  Goal
  BY <1>1, <1>3 DEF DeleteRun, PromoteJob, RecoverStalledJob, LoseLock, RowsOK
<1>4. ASSUME NEW u \in Users, CancelStep(u) \/ CancelDies(u)
      PROVE  Goal
  <2>1. /\ UNCHANGED <<slotVars, request>>
        /\ \/ UNCHANGED status
           \/ UpdateStatus(cancel[u].run, "cancelled") /\ cancel[u].pc # "idle"
    BY <1>4 DEF CancelStep, InspectJob, RemoveQueuedJob, WriteCancelled, CancelDies
  <2> QED BY <1>1, <2>1 DEF UpdateStatus, RowsOK
<1>5. ASSUME NEW u \in Users, NEW r \in Runs, CancelTestRun(u, r)
      PROVE  Goal
  BY <1>5 DEF CancelTestRun
<1> QED BY <1>2, <1>3, <1>4, <1>5 DEF ControlStep

LEMMA StepCases ==
    ASSUME [Next]_vars
    PROVE  \/ ControlStep
           \/ \E s \in Slots : AttemptStep(s) \/ CallFails(s)
           \/ \E s \in Slots : WorkerDies(s) \/ \E r \in Runs : TakeJob(s, r)
           \/ UNCHANGED vars
BY DEF Next, ControlStep

\* A processor that dies or begins leaves the rows, and the others, alone.
LEMMA OthersStay ==
    ASSUME TypeOK, NEW s \in Slots, WorkerDies(s) \/ \E r \in Runs : TakeJob(s, r)
    PROVE  /\ \A t \in Slots : t # s => pc'[t] = pc[t] /\ task'[t] = task[t]
           /\ pc'[s] \in {"idle", "load"}
           /\ UNCHANGED <<rowVars, requestVars>>
<1>1. SlotsOK
  BY TypeParts
<1> QED BY <1>1 DEF WorkerDies, TakeJob, SlotsOK

LEMMA EndStep == TypeOK /\ LockInv /\ HandOverInv /\ EndInv /\ [Next]_vars => EndInv'
<1> SUFFICES ASSUME TypeOK, LockHeld, [Next]_vars, faults' = 0,
                    \A s \in Slots : pc[s] # "idle" => request[task[s].run] = "done",
                    \A s \in Slots : EndsFinished(s)
             PROVE  \A s \in Slots : EndsFinished(s)'
  BY LossesGrow, BudgetsGrow DEF LockInv, HandOverInv, EndInv
<1>1. SlotsOK
  BY TypeParts
<1> USE DEF EndsFinished, NothingToDo, IsFinalAttempt
<1>2. CASE ControlStep
  <2>1. \A q \in Runs : request[q] = "done" /\ NothingToDo(q) => NothingToDo(q)'
    BY <1>2, ControlKeeps DEF IsTestRunFinished, TestRunTerminalStatuses
  <2> SUFFICES ASSUME NEW s \in Slots, pc[s] # "idle"
               PROVE  EndsFinished(s)'
    BY <1>2, ControlKeeps DEF slotVars
  <2>2. task[s].run \in Runs /\ request[task[s].run] = "done" /\ EndsFinished(s)
    BY <1>1 DEF SlotsOK
  <2> QED BY <1>2, <2>1, <2>2, ControlKeeps DEF slotVars
<1>3. ASSUME NEW s \in Slots, AttemptStep(s) \/ CallFails(s)
      PROVE  \A t \in Slots : EndsFinished(t)'
  <2>1. PICK r \in Runs : task[s].run = r /\ pc[s] # "idle"
    BY <1>1, <1>3, AttemptShape DEF SlotsOK
  <2>2. EndsFinished(s)'
    BY <1>3, AttemptEnds
  <2>3. \A t \in Slots : t # s => pc[t] = "idle" \/ (task[t].run \in Runs /\ task[t].run # r)
    BY <1>1, <2>1 DEF LockHeld, SlotsOK
  <2> QED BY <1>3, <2>1, <2>2, <2>3, AttemptIsLocal
<1>4. ASSUME NEW s \in Slots, WorkerDies(s) \/ \E r \in Runs : TakeJob(s, r)
      PROVE  \A t \in Slots : EndsFinished(t)'
  BY <1>4, OthersStay DEF rowVars
<1>5. CASE UNCHANGED vars
  BY <1>5 DEF vars, rowVars, slotVars
<1> QED BY <1>2, <1>3, <1>4, <1>5, StepCases

\* A cancelTestRun request that has returned is about no run.
IdleCancels == \A u \in Users : cancel[u].pc = "idle" => cancel[u].run = None

LEMMA IdleCancelsInit == Init => IdleCancels
BY DEF Init, IdleCancels, NoCancel

LEMMA IdleCancelsStep == TypeOK /\ IdleCancels /\ [Next]_vars => IdleCancels'
<1> SUFFICES ASSUME TypeOK, IdleCancels, [Next]_vars
             PROVE  IdleCancels'
  OBVIOUS
<1>1. cancel \in [Users -> CancelRequests]
  BY DEF TypeOK
<1>2. CASE UNCHANGED cancel
  BY <1>2 DEF IdleCancels
<1>3. ASSUME NEW r \in Runs,
             \/ CreateTestRun(r) \/ RequestStep(r) \/ RequestDies(r) \/ DeleteRun(r)
             \/ PromoteJob(r) \/ RecoverStalledJob(r) \/ LoseLock(r)
      PROVE  IdleCancels'
  BY <1>2, <1>3 DEF CreateTestRun, RequestStep, EnqueueTestRun, MarkQueued, MarkEnqueueFailed, MarkRun,
                RequestDies, DeleteRun, PromoteJob, RecoverStalledJob, LoseLock, requestVars
<1>4. ASSUME NEW u \in Users, CancelStep(u) \/ CancelDies(u)
      PROVE  IdleCancels'
  <2>1. CancelReturns(u) \/ \E step \in {"remove", "write"} : CancelGoto(u, step)
    BY <1>4 DEF CancelStep, InspectJob, RemoveQueuedJob, WriteCancelled, CancelDies
  <2> QED BY <1>1, <2>1 DEF CancelReturns, CancelGoto, IdleCancels, NoCancel, CancelRequests
<1>5. ASSUME NEW u \in Users, NEW r \in Runs, CancelTestRun(u, r)
      PROVE  IdleCancels'
  BY <1>1, <1>5 DEF CancelTestRun, IdleCancels
<1>6. ASSUME NEW s \in Slots, AttemptStep(s) \/ CallFails(s)
      PROVE  IdleCancels'
  BY <1>2, <1>6, AttemptIsLocal DEF requestVars
<1>7. ASSUME NEW s \in Slots, WorkerDies(s) \/ \E r \in Runs : TakeJob(s, r)
      PROVE  IdleCancels'
  BY <1>2, <1>7 DEF WorkerDies, TakeJob, requestVars
<1>8. CASE UNCHANGED vars
  BY <1>2, <1>8 DEF vars, requestVars
<1> QED BY <1>3, <1>4, <1>5, <1>6, <1>7, <1>8 DEF Next

\* The invariant behind NoOrphanedRun.
RecoveryInv ==
    /\ PipelineInv /\ AttemptCounts
    /\ HandOverInv /\ IdleCancels /\ NoRefusal /\ StallsInv /\ EndInv

\* A step of the control plane leaves somebody to finish the run.
LEMMA ControlOrphansNone ==
    ASSUME RecoveryInv, ControlStep, NEW r \in Runs,
           ~EarlyPickup, faults = 0, faults' = 0, dropped = 0, dropped' = 0, lockLosses = 0,
           crashes <= MaxStalled, NothingToDo(r) \/ Held(r)
    PROVE  NothingToDo(r)' \/ Held(r)'
<1> DEFINE Goal == NothingToDo(r)' \/ Held(r)'
<1>1. /\ TypeOK /\ RowsOK /\ QueueOK /\ RequestsOK /\ BudgetsOK
      /\ HandedOver(r) /\ request[r] # "markFailed" /\ IdleCancels
      /\ None \notin Runs
  BY TypeParts, ConstantsAssumption
     DEF RecoveryInv, PipelineInv, HandOverInv, NoRefusal, ConstantsAssumption
<1>2. ~Fault /\ ~RequestDeath
  BY <1>1 DEF Fault, RequestDeath, BudgetsOK
<1> USE DEF rowVars, queueVars, requestVars
\* A step of another run's request, or one that changes none of this.
<1>3. ASSUME status'[r] = status[r], request'[r] = request[r], cancel' = cancel,
             jobState'[r] = jobState[r] \/ jobState'[r] \in {"waiting", "delayed", "active"}
      PROVE  Goal
  BY <1>3 DEF NothingToDo, Held
<1>4. ASSUME NEW q \in Runs, CreateTestRun(q)
      PROVE  Goal
  <2>1. CASE q = r
    BY <1>1, <1>4, <2>1 DEF CreateTestRun, Proceed, Held, RequestsOK
  <2>2. CASE q # r
    BY <1>1, <1>3, <1>4, <2>2 DEF CreateTestRun, Proceed, RowsOK, RequestsOK
  <2> QED BY <2>1, <2>2
<1>5. ASSUME NEW q \in Runs, EnqueueTestRun(q)
      PROVE  Goal
  <2>1. AddJob(q) /\ Proceed(q, "markQueued") /\ UNCHANGED <<status, cancel>>
    BY <1>2, <1>5 DEF EnqueueTestRun
  <2>2. CASE q = r
    BY <1>1, <2>1, <2>2 DEF Proceed, Held, RequestsOK
  <2>3. CASE q # r
    BY <1>1, <1>3, <2>1, <2>3 DEF AddJob, Proceed, QueueOK, RequestsOK
  <2> QED BY <2>2, <2>3
<1>6. ASSUME NEW q \in Runs, MarkQueued(q) \/ MarkEnqueueFailed(q)
      PROVE  Goal
  <2>1. UpdateStatus(q, status'[q]) /\ Proceed(q, "done") /\ UNCHANGED <<jobState, cancel>>
        /\ request[q] \in {"markQueued", "markFailed"}
    BY <1>1, <1>2, <1>6 DEF MarkQueued, MarkEnqueueFailed, MarkRun, UpdateStatus, RowsOK
  <2>2. CASE q = r
    <3>1. jobState[r] = "waiting"
      BY <1>1, <2>1, <2>2 DEF HandedOver
    <3> QED BY <2>1, <3>1 DEF Held
  <2>3. CASE q # r
    BY <1>1, <1>3, <2>1, <2>3 DEF UpdateStatus, Proceed, RowsOK, RequestsOK
  <2> QED BY <2>2, <2>3
<1>7. ASSUME NEW q \in Runs, RequestDies(q)
      PROVE  FALSE
  BY <1>2, <1>7 DEF RequestDies
<1>8. ASSUME NEW q \in Runs, DeleteRun(q)
      PROVE  Goal
  BY <1>1, <1>3, <1>8 DEF DeleteRun, NothingToDo, RowsOK
<1>9. ASSUME NEW q \in Runs, PromoteJob(q) \/ LoseLock(q)
      PROVE  Goal
  BY <1>1, <1>3, <1>9 DEF PromoteJob, LoseLock, QueueOK
<1>10. ASSUME NEW q \in Runs, RecoverStalledJob(q)
       PROVE  Goal
  <2>1. CASE q = r
    <3>1. Abandoned(r) /\ stalls[r] < crashes
      BY <1>10, <2>1 DEF RecoverStalledJob, Abandoned, RecoveryInv, StallsInv
    <3>2. stalls[r] < MaxStalled
      BY <1>1, <3>1, ConstantsAssumption DEF QueueOK, BudgetsOK, ConstantsAssumption
    <3> QED BY <1>1, <1>10, <2>1, <3>2, ConstantsAssumption
            DEF RecoverStalledJob, Held, QueueOK, ConstantsAssumption
  <2>2. CASE q # r
    BY <1>1, <1>3, <1>10, <2>2 DEF RecoverStalledJob, QueueOK
  <2> QED BY <2>1, <2>2
<1>11. ASSUME NEW u \in Users, InspectJob(u) \/ RemoveQueuedJob(u)
       PROVE  Goal
  <2>1. \A v \in Users : cancel'[v].run = cancel[v].run
    <3>1. PICK step : CancelGoto(u, step)
      BY <1>11 DEF InspectJob, RemoveQueuedJob
    <3> QED BY <1>1, <3>1 DEF CancelGoto, RequestsOK, CancelRequests
  <2>2. UNCHANGED <<status, request>>
        /\ (UNCHANGED jobState \/ jobState' = [jobState EXCEPT ![cancel[u].run] = "absent"])
    BY <1>11 DEF InspectJob, RemoveQueuedJob
  <2>3. CASE cancel[u].run = r
    BY <2>1, <2>3 DEF Held
  <2>4. CASE cancel[u].run # r
    BY <1>1, <2>1, <2>2, <2>4 DEF Held, NothingToDo, QueueOK
  <2> QED BY <2>3, <2>4
<1>12. ASSUME NEW u \in Users, WriteCancelled(u)
       PROVE  Goal
  <2>1. UpdateStatus(cancel[u].run, "cancelled") /\ CancelReturns(u) /\ UNCHANGED <<request, jobState>>
    BY <1>2, <1>12 DEF WriteCancelled
  <2>2. CASE cancel[u].run = r
    BY <1>1, <2>1, <2>2
       DEF UpdateStatus, NothingToDo, IsTestRunFinished, TestRunTerminalStatuses, RowsOK
  <2>3. CASE cancel[u].run # r
    BY <1>1, <2>1, <2>3 DEF UpdateStatus, CancelReturns, Held, NothingToDo, RowsOK, RequestsOK
  <2> QED BY <2>2, <2>3
<1>13. ASSUME NEW u \in Users, CancelDies(u)
       PROVE  FALSE
  BY <1>2, <1>13 DEF CancelDies
<1>14. ASSUME NEW u \in Users, NEW q \in Runs, CancelTestRun(u, q)
       PROVE  Goal
  BY <1>1, <1>14 DEF CancelTestRun, IdleCancels, Held, NothingToDo, RequestsOK
<1> QED
  BY <1>4, <1>5, <1>6, <1>7, <1>8, <1>9, <1>10, <1>11, <1>12, <1>13, <1>14
     DEF ControlStep, RequestStep, CancelStep

\* So does a processor: while it works its job is active, and it returns from
\* a run that is finished, gone, or to be tried again.
LEMMA AttemptOrphansNone ==
    ASSUME RecoveryInv, NEW s \in Slots, AttemptStep(s) \/ CallFails(s), NEW r \in Runs,
           ~EarlyPickup, faults = 0, faults' = 0, lockLosses = 0,
           NothingToDo(r) \/ Held(r)
    PROVE  NothingToDo(r)' \/ Held(r)'
<1>1. /\ TypeOK /\ QueueOK /\ SlotsOK /\ LockHeld /\ LockedIsActive
      /\ EndsFinished(s)
      /\ pc[s] # "idle" => task[s].attempt = attemptsMade[task[s].run] + 1
      /\ None \notin Slots
  BY TypeParts, ConstantsAssumption
     DEF RecoveryInv, PipelineInv, LockInv, EndInv, AttemptCounts, ConstantsAssumption
<1>2. pc[s] # "idle" /\ task[s].run \in Runs
  BY <1>1, AttemptShape DEF SlotsOK
<1>3. CASE task[s].run # r
  BY <1>1, <1>3, AttemptIsLocal, QueueIsLocal DEF NothingToDo, Held, requestVars
<1>4. CASE task[s].run = r
  <2>1. lock[r] = s /\ jobState[r] = "active"
    BY <1>1, <1>2, <1>4 DEF LockHeld, LockedIsActive
  <2>2. CASE UNCHANGED queueVars
    BY <2>1, <2>2 DEF Held, queueVars
  <2>3. CASE ProcessorResolves(s)
    BY <1>1, <1>4, <2>3 DEF ProcessorResolves, JobReturns, EndsFinished, NothingToDo, rowVars
  <2>4. CASE ProcessorRejects(s)
    <3>1. CASE IsFinalAttempt(s)
      BY <1>1, <1>4, <2>4, <3>1 DEF ProcessorRejects, JobReturns, EndsFinished, NothingToDo, rowVars
    <3>2. CASE ~IsFinalAttempt(s)
      <4>1. attemptsMade[r] + 1 < MaxAttempts
        BY <1>1, <1>2, <1>4, <3>2, ConstantsAssumption
           DEF IsFinalAttempt, QueueOK, ConstantsAssumption
      <4>2. jobState'[r] = "delayed"
        BY <1>1, <1>4, <2>1, <2>4, <4>1 DEF ProcessorRejects, JobReturns, QueueOK
      <4> QED BY <4>2 DEF Held
    <3> QED BY <3>1, <3>2
  <2>5. UNCHANGED queueVars \/ ProcessorResolves(s) \/ ProcessorRejects(s)
    BY DEF AttemptStep, CallFails, LoadForAttempt, MarkActive, AdvanceToRunning, Execute,
           ClearTestResults, InsertTestResults, WriteArtifacts, ReloadTestRun, FinishTestRun,
           RecordJobCompleted, RecordJobFailed, ReloadForFailure, FailTestRun, RunIsGone
  <2> QED BY <2>2, <2>3, <2>4, <2>5
<1> QED BY <1>3, <1>4

LEMMA OrphansStep == RecoveryInv /\ NoOrphanedRun /\ [Next]_vars => NoOrphanedRun'
<1> SUFFICES ASSUME RecoveryInv, NoOrphanedRun, [Next]_vars, NEW r \in Runs,
                    ~EarlyPickup, faults' = 0, dropped' = 0, lockLosses' = 0, crashes' <= MaxStalled
             PROVE  NothingToDo(r)' \/ Held(r)'
  BY DEF NoOrphanedRun
<1>1. TypeOK /\ QueueOK
  BY TypeParts DEF RecoveryInv, PipelineInv
<1>2. faults = 0 /\ dropped = 0 /\ lockLosses = 0 /\ crashes <= MaxStalled
  <2>1. crashes <= crashes' /\ crashes \in Nat /\ crashes' \in Nat /\ MaxStalled \in Nat
    <3>1. crashes' = crashes \/ crashes' = crashes + 1
      BY <1>1, BudgetsStep
    <3> QED BY <1>1, <3>1, ConstantsAssumption DEF TypeOK, ConstantsAssumption
  <2> QED BY <1>1, <2>1, BudgetsGrow, LossesGrow
<1>3. NothingToDo(r) \/ Held(r)
  BY <1>2 DEF NoOrphanedRun
<1>4. CASE ControlStep
  BY <1>2, <1>3, <1>4, ControlOrphansNone
<1>5. ASSUME NEW s \in Slots, AttemptStep(s) \/ CallFails(s)
      PROVE  NothingToDo(r)' \/ Held(r)'
  BY <1>2, <1>3, <1>5, AttemptOrphansNone
<1>6. ASSUME NEW s \in Slots, WorkerDies(s) \/ \E q \in Runs : TakeJob(s, q)
      PROVE  NothingToDo(r)' \/ Held(r)'
  <2>1. jobState'[r] = jobState[r] \/ jobState'[r] = "active"
    BY <1>1, <1>6 DEF WorkerDies, TakeJob, QueueOK
  <2> QED BY <1>1, <1>3, <1>6, <2>1, OthersStay DEF NothingToDo, Held, rowVars, requestVars
<1>7. CASE UNCHANGED vars
  BY <1>3, <1>7 DEF vars, NothingToDo, Held, rowVars, queueVars, requestVars
<1> QED BY <1>4, <1>5, <1>6, <1>7, StepCases

THEOREM RecoveryInvariant == Spec => [](RecoveryInv /\ NoOrphanedRun)
<1>1. Init => RecoveryInv \/ ~PipelineInv
  BY CountsInit, HandOverInit, IdleCancelsInit, NoRefusalInit, StallsInit, EndInit DEF RecoveryInv
<1>2. Init => NoOrphanedRun
  BY DEF Init, NoOrphanedRun, NothingToDo
<1>3. RecoveryInv => TypeOK /\ LockInv /\ RequestInv
  BY DEF RecoveryInv, PipelineInv
<1>4. RecoveryInv /\ [Next]_vars /\ PipelineInv' => RecoveryInv'
  BY <1>3, CountsStep, HandOverStep, IdleCancelsStep, NoRefusalStep, StallsStep, EndStep DEF RecoveryInv
<1> QED BY <1>1, <1>2, <1>4, OrphansStep, PipelineInvariant, PTL DEF Spec

\* No run is stranded: as long as no call fails, no request dies, no lock is
\* lost and no more workers die than BullMQ forgives, a run that has not
\* finished always has a request, a job, a processor or a cancel left.
THEOREM RunsAreNotOrphaned == Spec => []NoOrphanedRun
BY RecoveryInvariant, PTL

-----------------------------------------------------------------------------
(* The transition map, when nobody cancels.                                *)

\* The bounds of this section: no cancel, no lost lock, no early pickup.
Undisturbed == ~EarlyPickup /\ MaxCancels = 0 /\ MaxLockLosses = 0

NoDisturbance ==
    Undisturbed => lockLosses = 0 /\ cancels = 0 /\ \A u \in Users : cancel[u].pc = "idle"

LEMMA NoDisturbanceInit == Init => NoDisturbance
BY DEF Init, NoDisturbance, NoCancel

LEMMA NoDisturbanceStep == TypeOK /\ NoDisturbance /\ [Next]_vars => NoDisturbance'
<1> SUFFICES ASSUME TypeOK, [Next]_vars, MaxCancels = 0, MaxLockLosses = 0,
                    lockLosses = 0, cancels = 0, \A u \in Users : cancel[u].pc = "idle"
             PROVE  UNCHANGED <<lockLosses, cancels, cancel>>
  BY DEF NoDisturbance, Undisturbed
<1> USE DEF budgetVars, requestVars, Fault, RequestDeath
<1>1. ASSUME NEW r \in Runs,
             \/ CreateTestRun(r) \/ RequestStep(r) \/ RequestDies(r) \/ DeleteRun(r)
             \/ PromoteJob(r) \/ RecoverStalledJob(r) \/ LoseLock(r)
      PROVE  UNCHANGED <<lockLosses, cancels, cancel>>
  BY <1>1 DEF CreateTestRun, RequestStep, EnqueueTestRun, MarkQueued, MarkEnqueueFailed, MarkRun,
              RequestDies, DeleteRun, PromoteJob, RecoverStalledJob, LoseLock
<1>2. ASSUME NEW u \in Users, CancelStep(u) \/ CancelDies(u) \/ \E r \in Runs : CancelTestRun(u, r)
      PROVE  FALSE
  BY <1>2 DEF CancelStep, InspectJob, RemoveQueuedJob, WriteCancelled, CancelDies, CancelTestRun
<1>3. ASSUME NEW s \in Slots, AttemptStep(s) \/ CallFails(s)
      PROVE  UNCHANGED <<lockLosses, cancels, cancel>>
  BY <1>3 DEF AttemptStep, LoadForAttempt, MarkActive, AdvanceToRunning, Execute,
       ClearTestResults, InsertTestResults, WriteArtifacts, ReloadTestRun, FinishTestRun,
       RecordJobCompleted, RecordJobFailed, ReloadForFailure, FailTestRun, RunIsGone,
       ProcessorResolves, ProcessorRejects, JobReturns, Replies, CallFails
<1>4. ASSUME NEW s \in Slots, WorkerDies(s) \/ \E r \in Runs : TakeJob(s, r)
      PROVE  UNCHANGED <<lockLosses, cancels, cancel>>
  BY <1>4 DEF WorkerDies, TakeJob
<1>5. CASE UNCHANGED vars
  BY <1>5 DEF vars
<1> QED BY <1>1, <1>2, <1>3, <1>4, <1>5 DEF Next

\* A processor about to write the status has in hand the status that is stored.
RowIsFresh(s) ==
    pc[s] \in {"markActive", "advance", "finish", "fail"} /\ status[task[s].run] # NoRow =>
        task[s].row = status[task[s].run]

FreshInv == Undisturbed => \A s \in Slots : RowIsFresh(s)

LEMMA FreshInit == Init => FreshInv
BY DEF Init, FreshInv, RowIsFresh

LEMMA AttemptIsFresh ==
    ASSUME TypeOK, NEW s \in Slots, AttemptStep(s) \/ CallFails(s), RowIsFresh(s)
    PROVE  RowIsFresh(s)'
<1>1. RowsOK /\ SlotsOK /\ pc[s] # "idle" /\ task[s].run \in Runs /\ task[s] \in Tasks
  BY TypeParts, AttemptShape DEF SlotsOK
<1> USE DEF TryBlock, rowVars
<1>2. ASSUME pc'[s] \notin {"markActive", "advance", "finish", "fail"}
      PROVE  RowIsFresh(s)'
  BY <1>2 DEF RowIsFresh
<1>3. CASE LoadForAttempt(s) \/ ReloadTestRun(s) \/ ReloadForFailure(s)
  <2>1. task'[s].row = status[task[s].run] /\ task'[s].run = task[s].run /\ UNCHANGED status
    BY <1>1, <1>3 DEF LoadForAttempt, ReloadTestRun, ReloadForFailure, LoadTestRun, SlotsOK, Tasks
  <2> QED BY <2>1 DEF RowIsFresh
<1>4. CASE MarkActive(s)
  BY <1>4 DEF MarkActive, RowIsFresh
<1>5. CASE AdvanceToRunning(s)
  <2>1. PICK hop \in {<<"queued", "starting", "advance">>, <<"starting", "running", "execute">>} :
            TransitionTestRun(s, hop[2]) /\ task' = [task EXCEPT ![s].row = hop[2]]
    BY <1>5 DEF AdvanceToRunning
  <2>2. status'[task[s].run] = hop[2]
    BY <1>1, <2>1 DEF TransitionTestRun, RowsOK
  <2>3. task'[s].row = hop[2] /\ task'[s].run = task[s].run
    BY <1>1, <2>1 DEF SlotsOK, Tasks
  <2> QED BY <2>2, <2>3 DEF RowIsFresh
<1>6. CASE Execute(s) \/ WriteArtifacts(s)
  BY <1>1, <1>2, <1>6 DEF Execute, WriteArtifacts, Goto, Throw, SlotsOK
<1>7. CASE ClearTestResults(s) \/ InsertTestResults(s) \/ RecordJobCompleted(s)
  BY <1>1, <1>2, <1>7, RepliesGoto
     DEF ClearTestResults, InsertTestResults, RecordJobCompleted, Goto, SlotsOK
<1>8. CASE RecordJobFailed(s) \/ FailTestRun(s)
  <2>1. pc'[s] \in {"reloadFinal", "reject", "recordFailed"}
    BY <1>1, <1>8, RepliesGoto DEF RecordJobFailed, FailTestRun
  <2> QED BY <1>2, <2>1
<1>9. CASE FinishTestRun(s)
  <2>1. pc'[s] \in {"recordDone", "reject", "recordFailed"}
    BY <1>1, <1>9, RepliesGoto, ThrowGoto DEF FinishTestRun
  <2> QED BY <1>2, <2>1
<1>10. CASE RunIsGone(s) \/ CallFails(s)
  BY <1>1, <1>2, <1>10, ThrowGoto DEF RunIsGone, CallFails
<1>11. CASE ProcessorResolves(s) \/ ProcessorRejects(s)
  BY <1>1, <1>2, <1>11 DEF ProcessorResolves, ProcessorRejects, JobReturns, SlotsOK
<1> QED
  BY <1>3, <1>4, <1>5, <1>6, <1>7, <1>8, <1>9, <1>10, <1>11 DEF AttemptStep

LEMMA FreshStep ==
    TypeOK /\ LockInv /\ HandOverInv /\ NoDisturbance /\ FreshInv /\ [Next]_vars => FreshInv'
<1> SUFFICES ASSUME TypeOK, LockHeld, [Next]_vars, \A u \in Users : cancel[u].pc = "idle",
                    \A s \in Slots : pc[s] # "idle" => request[task[s].run] = "done",
                    \A s \in Slots : RowIsFresh(s)
             PROVE  \A s \in Slots : RowIsFresh(s)'
  BY DEF LockInv, HandOverInv, NoDisturbance, FreshInv, Undisturbed
<1>1. SlotsOK
  BY TypeParts
<1>2. CASE ControlStep
  <2>1. \A q \in Runs : request[q] = "done" => status'[q] \in {status[q], NoRow}
    BY <1>2, ControlKeeps
  <2>2. ASSUME NEW s \in Slots
        PROVE  RowIsFresh(s)'
    <3>1. pc[s] = "idle" \/ (task[s].run \in Runs /\ request[task[s].run] = "done")
      BY <1>1 DEF SlotsOK
    <3>2. RowIsFresh(s) /\ UNCHANGED slotVars
      BY <1>2, ControlKeeps
    <3> QED BY <2>1, <3>1, <3>2 DEF RowIsFresh, slotVars
  <2> QED BY <2>2
<1>3. ASSUME NEW s \in Slots, AttemptStep(s) \/ CallFails(s)
      PROVE  \A t \in Slots : RowIsFresh(t)'
  <2>1. PICK r \in Runs : task[s].run = r /\ pc[s] # "idle"
    BY <1>1, <1>3, AttemptShape DEF SlotsOK
  <2>2. RowIsFresh(s)'
    BY <1>3, AttemptIsFresh
  <2>3. \A t \in Slots : t # s => pc[t] = "idle" \/ (task[t].run \in Runs /\ task[t].run # r)
    BY <1>1, <2>1 DEF LockHeld, SlotsOK
  <2> QED BY <1>3, <2>1, <2>2, <2>3, AttemptIsLocal DEF RowIsFresh
<1>4. ASSUME NEW s \in Slots, WorkerDies(s) \/ \E r \in Runs : TakeJob(s, r)
      PROVE  \A t \in Slots : RowIsFresh(t)'
  BY <1>4, OthersStay DEF RowIsFresh, rowVars
<1>5. CASE UNCHANGED vars
  BY <1>5 DEF vars, rowVars, slotVars, RowIsFresh
<1> QED BY <1>2, <1>3, <1>4, <1>5, StepCases

LifecycleInv == PipelineInv /\ HandOverInv /\ NoDisturbance /\ FreshInv

\* A write that follows the map is a step of the abstract life of a run.
LEMMA MoveIsAbstract ==
    ASSUME TypeOK, NEW r \in Runs, NEW to, CanTransitionTestRunStatus(status[r], to),
           status' = [status EXCEPT ![r] = to]
    PROVE  Lifecycle!Next
<1>1. to \in TestRunStatuses
  BY TransitionsType
<1>2. Lifecycle!Move(r)
  BY <1>1 DEF Lifecycle!Move, Lifecycle!CanTransitionTestRunStatus, Lifecycle!TestRunStatuses,
              Lifecycle!TestRunTransitions, CanTransitionTestRunStatus, TestRunStatuses, TestRunTransitions
<1> QED BY <1>2 DEF Lifecycle!Next

LEMMA LifecycleStep == Undisturbed /\ LifecycleInv /\ [Next]_vars => [Lifecycle!Next]_status
<1> SUFFICES ASSUME Undisturbed, LifecycleInv, [Next]_vars
             PROVE  Lifecycle!Next \/ UNCHANGED status
  OBVIOUS
<1>1. /\ TypeOK /\ RowsOK /\ RequestInv
      /\ \A r \in Runs : HandedOver(r)
      /\ \A u \in Users : cancel[u].pc = "idle"
      /\ \A s \in Slots : RowIsFresh(s)
  BY TypeParts DEF LifecycleInv, PipelineInv, HandOverInv, NoDisturbance, FreshInv, Undisturbed
<1> USE DEF rowVars
<1>2. ASSUME NEW r \in Runs, CreateTestRun(r)
      PROVE  Lifecycle!Next
  <2>1. Lifecycle!Insert(r)
    BY <1>1, <1>2 DEF CreateTestRun, RequestInv, Lifecycle!Insert, Lifecycle!NoRow, NoRow
  <2> QED BY <2>1 DEF Lifecycle!Next
<1>3. ASSUME NEW r \in Runs, DeleteRun(r)
      PROVE  Lifecycle!Next
  <2>1. Lifecycle!Delete(r)
    BY <1>3 DEF DeleteRun, Lifecycle!Delete, Lifecycle!NoRow, NoRow
  <2> QED BY <2>1 DEF Lifecycle!Next
<1>4. ASSUME NEW r \in Runs, MarkQueued(r) \/ MarkEnqueueFailed(r)
      PROVE  Lifecycle!Next \/ UNCHANGED status
  <2>1. PICK to \in {"queued", "failed"} : UpdateStatus(r, to) \/ UNCHANGED status
    BY <1>4 DEF MarkQueued, MarkEnqueueFailed, MarkRun
  <2>2. status[r] \in {NoRow, "created"}
    BY <1>1, <1>4 DEF MarkQueued, MarkEnqueueFailed, MarkRun, HandedOver
  <2>3. CASE UpdateStatus(r, to) /\ status[r] = "created"
    <3>1. CanTransitionTestRunStatus(status[r], to) /\ status' = [status EXCEPT ![r] = to]
      BY <1>1, <2>3 DEF UpdateStatus, NoRow, CanTransitionTestRunStatus, TestRunTransitions, TestRunStatuses
    <3> QED BY <1>1, <3>1, MoveIsAbstract
  <2>4. CASE UpdateStatus(r, to) /\ status[r] = NoRow
    BY <1>1, <2>4 DEF UpdateStatus, RowsOK
  <2> QED BY <2>1, <2>2, <2>3, <2>4
<1>5. ASSUME NEW s \in Slots, AdvanceToRunning(s) \/ FinishTestRun(s) \/ FailTestRun(s)
      PROVE  Lifecycle!Next \/ UNCHANGED status
  <2>1. pc[s] \in {"advance", "finish", "fail"} /\ task[s].run \in Runs
    BY <1>1, <1>5 DEF AdvanceToRunning, FinishTestRun, FailTestRun, TypeOK
  <2>2. UNCHANGED status \/ \E to : TransitionTestRun(s, to)
    BY <1>5 DEF AdvanceToRunning, FinishTestRun, FailTestRun
  <2>3. ASSUME NEW to, TransitionTestRun(s, to)
        PROVE  Lifecycle!Next
    <3>1. task[s].row = status[task[s].run]
      BY <1>1, <2>1, <2>3 DEF RowIsFresh, TransitionTestRun
    <3> QED BY <1>1, <2>1, <2>3, <3>1, MoveIsAbstract DEF TransitionTestRun
  <2> QED BY <2>2, <2>3
<1>6. ASSUME NEW s \in Slots, AttemptStep(s) \/ CallFails(s)
      PROVE  Lifecycle!Next \/ UNCHANGED status
  BY <1>5, <1>6 DEF AttemptStep, LoadForAttempt, MarkActive, Execute, ClearTestResults,
       InsertTestResults, WriteArtifacts, ReloadTestRun, RecordJobCompleted, RecordJobFailed,
       ReloadForFailure, RunIsGone, ProcessorResolves, ProcessorRejects, JobReturns, CallFails
<1>7. ASSUME NEW u \in Users, CancelStep(u) \/ CancelDies(u) \/ \E r \in Runs : CancelTestRun(u, r)
      PROVE  UNCHANGED status
  BY <1>1, <1>7 DEF CancelStep, InspectJob, RemoveQueuedJob, WriteCancelled, CancelDies, CancelTestRun
<1>8. ASSUME NEW r \in Runs,
             EnqueueTestRun(r) \/ RequestDies(r) \/ PromoteJob(r) \/ RecoverStalledJob(r) \/ LoseLock(r)
      PROVE  UNCHANGED status
  BY <1>8 DEF EnqueueTestRun, RequestDies, PromoteJob, RecoverStalledJob, LoseLock
<1>9. ASSUME NEW s \in Slots, WorkerDies(s) \/ \E r \in Runs : TakeJob(s, r)
      PROVE  UNCHANGED status
  BY <1>1, <1>9, OthersStay
<1>10. CASE UNCHANGED vars
  BY <1>10 DEF vars
<1> QED
  BY <1>2, <1>3, <1>4, <1>6, <1>7, <1>8, <1>9, <1>10 DEF Next, RequestStep

\* When nobody cancels, no lock is lost and no worker overtakes createTestRun,
\* the pipeline implements the abstract life of a run, whatever calls fail and
\* whatever processes die: every write of the status follows the map.
THEOREM ImplementsLifecycle ==
    ASSUME Undisturbed
    PROVE  Spec => FollowsLifecycle
<1>1. Init => Lifecycle!Init
  BY DEF Init, Lifecycle!Init, Lifecycle!NoRow, NoRow
<1>2. Init => HandOverInv /\ NoDisturbance /\ FreshInv
  BY HandOverInit, NoDisturbanceInit, FreshInit
<1>3. PipelineInv /\ HandOverInv /\ NoDisturbance /\ FreshInv /\ [Next]_vars
          => (HandOverInv /\ NoDisturbance /\ FreshInv)'
  BY HandOverStep, NoDisturbanceStep, FreshStep DEF PipelineInv
<1>4. Spec => []LifecycleInv
  BY <1>2, <1>3, PipelineInvariant, PTL DEF Spec, LifecycleInv
<1>5. LifecycleInv /\ [Next]_vars => [Lifecycle!Next]_status
  BY LifecycleStep
<1> QED BY <1>1, <1>4, <1>5, PTL DEF Spec, FollowsLifecycle, Lifecycle!Spec
=============================================================================
