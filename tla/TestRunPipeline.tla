--------------------------- MODULE TestRunPipeline ---------------------------
(***************************************************************************)
(* One test run from the "New test run" button to its terminal status: the *)
(* control plane's createTestRun and cancelTestRun requests, the BullMQ    *)
(* job, and the worker's processTestRunJob, interleaved at every await.    *)
(* None of their status writes has a predicate on the stored status, so    *)
(* what a writer last READ (task[s].row, a cancel that has passed its      *)
(* guard) is state of its own here.                                        *)
(***************************************************************************)
EXTENDS TestRunStatus, Naturals

CONSTANTS
    Runs,           \* test runs
    Slots,          \* concurrent processor invocations, over all worker processes
    Users,          \* concurrent cancelTestRun requests
    None,           \* "no run", "no slot"
    MaxAttempts,    \* DEFAULT_JOB_OPTIONS.attempts
    MaxStalled,     \* BullMQ's maxStalledCount
    EarlyPickup,    \* may a worker overtake createTestRun's write of "queued"?
    Deletable,      \* runs whose project or environment may be deleted
    MaxFaults,      \* bound: database or Redis calls that answer with an error
    MaxCrashes,     \* bound: worker processes that die in an attempt
    MaxDropped,     \* bound: requests that die between two of their calls
    MaxLockLosses,  \* bound: job locks that expire under a live processor
    MaxCancels      \* bound: cancelTestRun requests that pass their guard

ASSUME ConstantsAssumption ==
    /\ None \notin Runs \cup Slots
    /\ MaxAttempts \in Nat \ {0}
    /\ MaxStalled \in Nat
    /\ EarlyPickup \in BOOLEAN
    /\ Deletable \subseteq Runs
    /\ {MaxFaults, MaxCrashes, MaxDropped, MaxLockLosses, MaxCancels} \subseteq Nat

VARIABLES
    status,         \* test_runs.status
    jobRow,         \* the run's test_run_jobs row: [status, attempts]
    results,        \* the batches of test_results rows stored for the run
    jobState,       \* BullMQ: the job's state
    attemptsMade,   \* BullMQ: job.attemptsMade
    stalls,         \* BullMQ: how often the job was found stalled
    lock,           \* BullMQ: the slot that renews the job's lock
    request,        \* where the run's createTestRun request is
    cancel,         \* each cancelTestRun request: [pc, run]
    pc,             \* the await each processor is at
    task,           \* each processor's locals: [run, attempt, row, outcome]
    faults, crashes, dropped, lockLosses, cancels   \* how much of each bound is used

rowVars == <<status, jobRow, results>>
queueVars == <<jobState, attemptsMade, stalls, lock>>
requestVars == <<request, cancel>>
slotVars == <<pc, task>>
budgetVars == <<faults, crashes, dropped, lockLosses, cancels>>
vars == <<rowVars, queueVars, requestVars, slotVars, budgetVars>>

JobStates == { "absent", "waiting", "delayed", "active", "completed", "failed" }
JobRowStatuses == { "none", "active", "completed", "failed" }
RequestSteps == { "none", "enqueue", "markQueued", "markFailed", "done" }
CancelSteps == { "idle", "inspect", "remove", "write" }

\* The awaits inside processTestRunJob's try block, and those outside it.
TryBlock == { "advance", "execute", "clear", "insert", "artifacts", "reload",
              "finish", "recordDone" }
SlotSteps == TryBlock \cup { "idle", "load", "markActive", "recordFailed",
                             "reloadFinal", "fail", "resolve", "reject" }

\* What an executor reports; "empty" is a failure with no page checked.
Outcomes == { "completed", "failed", "blocked", "empty" }
FinalStatus(outcome) == IF outcome = "empty" THEN "failed" ELSE outcome

JobRows == [status : JobRowStatuses, attempts : Nat]
CancelRequests == [pc : CancelSteps, run : Runs \cup {None}]
Tasks == [run : Runs \cup {None}, attempt : Nat,
          row : TestRunStatuses \cup {NoRow}, outcome : Outcomes \cup {"none"}]

NoTask == [run |-> None, attempt |-> 0, row |-> NoRow, outcome |-> "none"]
NoJobRow == [status |-> "none", attempts |-> 0]
NoCancel == [pc |-> "idle", run |-> None]

\* The rows one execution inserts carry fresh ids, so a batch is its slot's.
Batches == [slot : Slots, outcome : Outcomes \cup {"none"}]
Batch(s) == [slot |-> s, outcome |-> task[s].outcome]

TypeOK ==
    /\ status \in [Runs -> TestRunStatuses \cup {NoRow}]
    /\ jobRow \in [Runs -> JobRows]
    /\ results \in [Runs -> SUBSET Batches]
    /\ jobState \in [Runs -> JobStates]
    /\ attemptsMade \in [Runs -> Nat]
    /\ stalls \in [Runs -> Nat]
    /\ lock \in [Runs -> Slots \cup {None}]
    /\ request \in [Runs -> RequestSteps]
    /\ cancel \in [Users -> CancelRequests]
    /\ pc \in [Slots -> SlotSteps]
    /\ task \in [Slots -> Tasks]
    /\ faults \in Nat /\ crashes \in Nat /\ dropped \in Nat
    /\ lockLosses \in Nat /\ cancels \in Nat
    /\ \A s \in Slots : pc[s] = "idle" \/ task[s].run \in Runs
    /\ \A u \in Users : cancel[u].pc = "idle" \/ cancel[u].run \in Runs

Init ==
    /\ status = [r \in Runs |-> NoRow]
    /\ jobRow = [r \in Runs |-> NoJobRow]
    /\ results = [r \in Runs |-> {}]
    /\ jobState = [r \in Runs |-> "absent"]
    /\ attemptsMade = [r \in Runs |-> 0]
    /\ stalls = [r \in Runs |-> 0]
    /\ lock = [r \in Runs |-> None]
    /\ request = [r \in Runs |-> "none"]
    /\ cancel = [u \in Users |-> NoCancel]
    /\ pc = [s \in Slots |-> "idle"]
    /\ task = [s \in Slots |-> NoTask]
    /\ faults = 0 /\ crashes = 0 /\ dropped = 0 /\ lockLosses = 0 /\ cancels = 0

-----------------------------------------------------------------------------
(* Failures of the environment.                                            *)

\* A call answers with an error.
Fault ==
    /\ faults < MaxFaults
    /\ faults' = faults + 1
    /\ UNCHANGED <<crashes, dropped, lockLosses, cancels>>

\* The process of a server action dies.
RequestDeath ==
    /\ dropped < MaxDropped
    /\ dropped' = dropped + 1
    /\ UNCHANGED <<faults, crashes, lockLosses, cancels>>

-----------------------------------------------------------------------------
(* The control plane: createTestRun.                                       *)

Proceed(r, step) == request' = [request EXCEPT ![r] = step]

\* The permission, project and environment checks passed: the row is inserted.
CreateTestRun(r) ==
    /\ request[r] = "none"
    /\ status' = [status EXCEPT ![r] = "created"]
    /\ Proceed(r, "enqueue")
    /\ UNCHANGED <<jobRow, results, cancel, queueVars, slotVars, budgetVars>>

\* queue.add with the run's id as jobId: a no-op when the job exists.
AddJob(r) ==
    /\ jobState' = [jobState EXCEPT ![r] = IF @ = "absent" THEN "waiting" ELSE @]
    /\ UNCHANGED <<attemptsMade, stalls, lock>>

\* Redis may refuse the job, or take it and lose the answer.
EnqueueTestRun(r) ==
    /\ request[r] = "enqueue"
    /\ \/ AddJob(r) /\ Proceed(r, "markQueued") /\ UNCHANGED budgetVars
       \/ (AddJob(r) \/ UNCHANGED queueVars) /\ Proceed(r, "markFailed") /\ Fault
    /\ UNCHANGED <<cancel, rowVars, slotVars>>

\* An update by id alone: it matches whatever the status is, or no row.
UpdateStatus(r, to) ==
    status' = [status EXCEPT ![r] = IF @ = NoRow THEN NoRow ELSE to]

\* Both branches only log an error of the write.
MarkRun(r, step, to) ==
    /\ request[r] = step
    /\ Proceed(r, "done")
    /\ \/ UpdateStatus(r, to) /\ UNCHANGED budgetVars
       \/ UNCHANGED status /\ Fault
    /\ UNCHANGED <<jobRow, results, cancel, queueVars, slotVars>>

\* Variant: a status the type does not have.
MarkQueuedMisspelt(r) == MarkRun(r, "markQueued", "enqueued")

MarkQueued(r) == MarkRun(r, "markQueued", "queued")
MarkEnqueueFailed(r) == MarkRun(r, "markFailed", "failed")

\* The server action's process dies between two of its calls.
RequestDies(r) ==
    /\ request[r] \notin {"none", "done"}
    /\ Proceed(r, "done")
    /\ RequestDeath
    /\ UNCHANGED <<cancel, rowVars, queueVars, slotVars>>

-----------------------------------------------------------------------------
(* The control plane: cancelTestRun.                                       *)

CancelGoto(u, step) == cancel' = [cancel EXCEPT ![u].pc = step]
CancelReturns(u) == cancel' = [cancel EXCEPT ![u] = NoCancel]

\* Variant: any run can be cancelled.
CancelAnyTestRun(u, r) ==
    /\ cancel[u].pc = "idle"
    /\ cancels < MaxCancels
    /\ status[r] # NoRow
    /\ cancel' = [cancel EXCEPT ![u] = [pc |-> "inspect", run |-> r]]
    /\ cancels' = cancels + 1
    /\ UNCHANGED <<request, rowVars, queueVars, slotVars, faults, crashes, dropped, lockLosses>>

\* The status is read and the request passes its guard.
CancelTestRun(u, r) ==
    /\ cancel[u].pc = "idle"
    /\ cancels < MaxCancels
    /\ CanTransitionTestRunStatus(status[r], "cancelled")
    /\ cancel' = [cancel EXCEPT ![u] = [pc |-> "inspect", run |-> r]]
    /\ cancels' = cancels + 1
    /\ UNCHANGED <<request, rowVars, queueVars, slotVars, faults, crashes, dropped, lockLosses>>

\* removeQueuedTestRunJob reads the job's state; a Redis error is swallowed.
InspectJob(u) ==
    LET r == cancel[u].run
    IN  /\ cancel[u].pc = "inspect"
        /\ \/ /\ jobState[r] \in {"waiting", "delayed"}
              /\ CancelGoto(u, "remove")
              /\ UNCHANGED budgetVars
           \/ /\ jobState[r] \notin {"waiting", "delayed"}
              /\ CancelGoto(u, "write")
              /\ UNCHANGED budgetVars
           \/ CancelGoto(u, "write") /\ Fault
        /\ UNCHANGED <<request, rowVars, queueVars, slotVars>>

\* Variant: a removed job ends the cancel before its status write.
RemoveQueuedJobOnly(u) ==
    LET r == cancel[u].run
    IN  /\ cancel[u].pc = "remove"
        /\ \/ /\ lock[r] = None
              /\ jobState' = [jobState EXCEPT ![r] = "absent"]
              /\ CancelReturns(u)
           \/ /\ lock[r] # None
              /\ UNCHANGED jobState
              /\ CancelGoto(u, "write")
        /\ UNCHANGED <<request, rowVars, attemptsMade, stalls, lock, slotVars, budgetVars>>

\* job.remove() throws on a locked job, and the throw is swallowed as well.
RemoveQueuedJob(u) ==
    LET r == cancel[u].run
    IN  /\ cancel[u].pc = "remove"
        /\ \/ /\ lock[r] = None
              /\ jobState' = [jobState EXCEPT ![r] = "absent"]
              /\ UNCHANGED budgetVars
           \/ lock[r] # None /\ UNCHANGED <<jobState, budgetVars>>
           \/ UNCHANGED jobState /\ Fault
        /\ CancelGoto(u, "write")
        /\ UNCHANGED <<request, rowVars, attemptsMade, stalls, lock, slotVars>>

WriteCancelled(u) ==
    /\ cancel[u].pc = "write"
    /\ \/ UpdateStatus(cancel[u].run, "cancelled") /\ UNCHANGED budgetVars
       \/ UNCHANGED status /\ Fault
    /\ CancelReturns(u)
    /\ UNCHANGED <<jobRow, results, request, queueVars, slotVars>>

CancelDies(u) ==
    /\ cancel[u].pc # "idle"
    /\ CancelReturns(u)
    /\ RequestDeath
    /\ UNCHANGED <<request, rowVars, queueVars, slotVars>>

-----------------------------------------------------------------------------
(* deleteProject and deleteEnvironment: the cascade takes the run's rows,  *)
(* and nothing tells BullMQ.                                               *)

DeleteRun(r) ==
    /\ r \in Deletable
    /\ status[r] # NoRow
    /\ status' = [status EXCEPT ![r] = NoRow]
    /\ jobRow' = [jobRow EXCEPT ![r] = NoJobRow]
    /\ results' = [results EXCEPT ![r] = {}]
    /\ UNCHANGED <<requestVars, queueVars, slotVars, budgetVars>>

-----------------------------------------------------------------------------
(* BullMQ.                                                                 *)

\* Variant: the first attempt counts as number 0.
TakeJobFromZero(s, r) ==
    /\ pc[s] = "idle"
    /\ jobState[r] = "waiting"
    /\ EarlyPickup \/ request[r] = "done"
    /\ jobState' = [jobState EXCEPT ![r] = "active"]
    /\ lock' = [lock EXCEPT ![r] = s]
    /\ pc' = [pc EXCEPT ![s] = "load"]
    /\ task' = [task EXCEPT ![s] = [NoTask EXCEPT !.run = r, !.attempt = attemptsMade[r]]]
    /\ UNCHANGED <<attemptsMade, stalls, rowVars, requestVars, budgetVars>>

\* A waiting job goes to a free processor, which locks it.
TakeJob(s, r) ==
    /\ pc[s] = "idle"
    /\ jobState[r] = "waiting"
    /\ EarlyPickup \/ request[r] = "done"
    /\ jobState' = [jobState EXCEPT ![r] = "active"]
    /\ lock' = [lock EXCEPT ![r] = s]
    /\ pc' = [pc EXCEPT ![s] = "load"]
    /\ task' = [task EXCEPT ![s] = [NoTask EXCEPT !.run = r,
                                                  !.attempt = attemptsMade[r] + 1]]
    /\ UNCHANGED <<attemptsMade, stalls, rowVars, requestVars, budgetVars>>

\* The backoff of a failed attempt is over.
PromoteJob(r) ==
    /\ jobState[r] = "delayed"
    /\ jobState' = [jobState EXCEPT ![r] = "waiting"]
    /\ UNCHANGED <<attemptsMade, stalls, lock, rowVars, requestVars, slotVars, budgetVars>>

\* Variant: a job counts as stalled while its lock is still renewed.
RecoverActiveJob(r) ==
    /\ jobState[r] = "active"
    /\ stalls[r] < MaxStalled
    /\ jobState' = [jobState EXCEPT ![r] = "waiting"]
    /\ stalls' = [stalls EXCEPT ![r] = @ + 1]
    /\ UNCHANGED <<attemptsMade, lock, rowVars, requestVars, slotVars, budgetVars>>

\* The stalled-job check finds an active job whose lock has expired: it goes
\* back to waiting, or fails without reaching the processor again.
RecoverStalledJob(r) ==
    /\ jobState[r] = "active"
    /\ lock[r] = None
    /\ \/ /\ stalls[r] < MaxStalled
          /\ jobState' = [jobState EXCEPT ![r] = "waiting"]
       \/ /\ stalls[r] >= MaxStalled
          /\ jobState' = [jobState EXCEPT ![r] = "failed"]
    /\ stalls' = [stalls EXCEPT ![r] = @ + 1]
    /\ UNCHANGED <<attemptsMade, lock, rowVars, requestVars, slotVars, budgetVars>>

\* The worker's event loop hangs too long to renew a lock; its processor lives.
LoseLock(r) ==
    /\ lock[r] # None
    /\ lockLosses < MaxLockLosses
    /\ lock' = [lock EXCEPT ![r] = None]
    /\ lockLosses' = lockLosses + 1
    /\ UNCHANGED <<jobState, attemptsMade, stalls, rowVars, requestVars, slotVars,
                   faults, crashes, dropped, cancels>>

\* The worker process dies: its locals are gone and its lock expires.
WorkerDies(s) ==
    /\ pc[s] # "idle"
    /\ crashes < MaxCrashes
    /\ crashes' = crashes + 1
    /\ pc' = [pc EXCEPT ![s] = "idle"]
    /\ task' = [task EXCEPT ![s] = NoTask]
    /\ lock' = [r \in Runs |-> IF lock[r] = s THEN None ELSE lock[r]]
    /\ UNCHANGED <<jobState, attemptsMade, stalls, rowVars, requestVars,
                   faults, dropped, lockLosses, cancels>>

\* The processor's promise settles; only the lock's holder moves the job.
JobReturns(s, to, made) ==
    LET r == task[s].run
    IN  /\ \/ /\ lock[r] = s
              /\ jobState' = [jobState EXCEPT ![r] = to]
              /\ attemptsMade' = [attemptsMade EXCEPT ![r] = made]
              /\ lock' = [lock EXCEPT ![r] = None]
           \/ /\ lock[r] # s
              /\ UNCHANGED <<jobState, attemptsMade, lock>>
        /\ pc' = [pc EXCEPT ![s] = "idle"]
        /\ task' = [task EXCEPT ![s] = NoTask]
        /\ UNCHANGED <<stalls, rowVars, requestVars, budgetVars>>

ProcessorResolves(s) ==
    /\ pc[s] = "resolve"
    /\ JobReturns(s, "completed", attemptsMade[task[s].run])

\* A rejection counts as an attempt and is retried while attempts are left.
ProcessorRejects(s) ==
    LET made == attemptsMade[task[s].run] + 1
    IN  /\ pc[s] = "reject"
        /\ JobReturns(s, IF made < MaxAttempts THEN "delayed" ELSE "failed", made)

-----------------------------------------------------------------------------
(* The execution plane: processTestRunJob.                                 *)

Goto(s, step) == pc' = [pc EXCEPT ![s] = step]

\* Inside the try block an exception reaches the catch, elsewhere BullMQ.
Throw(s) == Goto(s, IF pc[s] \in TryBlock THEN "recordFailed" ELSE "reject")

\* The database has applied a write: its answer arrives, or is lost.
Replies(s, step) ==
    \/ Goto(s, step) /\ UNCHANGED budgetVars
    \/ Throw(s) /\ Fault

\* A call is refused and changes nothing.
CallFails(s) ==
    /\ pc[s] \notin {"idle", "execute", "resolve", "reject"}
    /\ Throw(s)
    /\ Fault
    /\ UNCHANGED <<task, rowVars, queueVars, requestVars>>

LoadTestRun(s) == task' = [task EXCEPT ![s].row = status[task[s].run]]

\* Nothing is left to do for a run that has finished or is not found.
NothingToDo(r) == IsTestRunFinished(status[r]) \/ status[r] = NoRow

\* Variant: the transition is not asserted.
TransitionUnchecked(s, to) ==
    /\ status[task[s].run] # NoRow
    /\ status' = [status EXCEPT ![task[s].run] = to]

\* transitionTestRun: asserts against the row in hand, then updates by id
\* alone; updating no row is an error.
TransitionTestRun(s, to) ==
    /\ CanTransitionTestRunStatus(task[s].row, to)
    /\ status[task[s].run] # NoRow
    /\ status' = [status EXCEPT ![task[s].run] = to]

UpsertJobRecord(s, to) ==
    /\ status[task[s].run] # NoRow
    /\ jobRow' = [jobRow EXCEPT ![task[s].run] = [status |-> to, attempts |-> task[s].attempt]]

\* A write for a deleted run: no row to update, or a broken foreign key.
RunIsGone(s) ==
    /\ \/ pc[s] \in {"markActive", "advance", "finish", "recordDone", "recordFailed", "fail"}
       \/ pc[s] = "insert" /\ task[s].outcome # "empty"
    /\ status[task[s].run] = NoRow
    /\ Throw(s)
    /\ UNCHANGED <<task, rowVars, queueVars, requestVars, budgetVars>>

\* Variant: off by one.
IsPastFinalAttempt(s) == task[s].attempt > MaxAttempts

IsFinalAttempt(s) == task[s].attempt >= MaxAttempts

\* Variant: a finished run is processed again.
LoadWithoutFinishedCheck(s) ==
    /\ pc[s] = "load"
    /\ LoadTestRun(s)
    /\ Goto(s, IF status[task[s].run] = NoRow THEN "resolve" ELSE "markActive")
    /\ UNCHANGED <<rowVars, queueVars, requestVars, budgetVars>>

\* A run that is finished or gone makes the whole attempt a no-op.
LoadForAttempt(s) ==
    /\ pc[s] = "load"
    /\ LoadTestRun(s)
    /\ \/ NothingToDo(task[s].run) /\ Goto(s, "resolve")
       \/ ~NothingToDo(task[s].run) /\ Goto(s, "markActive")
    /\ UNCHANGED <<rowVars, queueVars, requestVars, budgetVars>>

MarkActive(s) ==
    /\ pc[s] = "markActive"
    /\ UpsertJobRecord(s, "active")
    /\ Replies(s, IF task[s].row \in {"queued", "starting"} THEN "advance" ELSE "execute")
    /\ UNCHANGED <<status, results, task, queueVars, requestVars>>

\* queued -> starting -> running; a row in any other status is left alone.
AdvanceToRunning(s) ==
    /\ pc[s] = "advance"
    /\ \E hop \in {<<"queued", "starting", "advance">>, <<"starting", "running", "execute">>} :
        /\ task[s].row = hop[1]
        /\ TransitionTestRun(s, hop[2])
        /\ task' = [task EXCEPT ![s].row = hop[2]]
        /\ Replies(s, hop[3])
    /\ UNCHANGED <<jobRow, results, queueVars, requestVars>>

\* executeWithTimeout: the executor reports an outcome, or the race rejects.
Execute(s) ==
    /\ pc[s] = "execute"
    /\ \/ /\ \E o \in Outcomes : task' = [task EXCEPT ![s].outcome = o]
          /\ Goto(s, "clear")
       \/ Throw(s) /\ UNCHANGED task
    /\ UNCHANGED <<rowVars, queueVars, requestVars, budgetVars>>

\* Variant: results are appended, not replaced.
KeepTestResults(s) ==
    /\ pc[s] = "clear"
    /\ Replies(s, "insert")
    /\ UNCHANGED <<rowVars, task, queueVars, requestVars>>

\* writeTestResults, first statement: delete the run's results.
ClearTestResults(s) ==
    /\ pc[s] = "clear"
    /\ results' = [results EXCEPT ![task[s].run] = {}]
    /\ Replies(s, "insert")
    /\ UNCHANGED <<status, jobRow, task, queueVars, requestVars>>

\* writeTestResults, second statement, skipped when there is nothing to insert.
InsertTestResults(s) ==
    /\ pc[s] = "insert"
    /\ \/ /\ task[s].outcome = "empty"
          /\ Goto(s, "artifacts")
          /\ UNCHANGED <<results, budgetVars>>
       \/ /\ task[s].outcome # "empty"
          /\ status[task[s].run] # NoRow
          /\ results' = [results EXCEPT ![task[s].run] = @ \cup {Batch(s)}]
          /\ Replies(s, "artifacts")
    /\ UNCHANGED <<status, jobRow, task, queueVars, requestVars>>

\* writeArtifacts: a row of a result that is no longer stored breaks its
\* foreign key; a failed upload is CallFails.
WriteArtifacts(s) ==
    /\ pc[s] = "artifacts"
    /\ \/ Goto(s, "reload")
       \/ /\ task[s].outcome # "empty"
          /\ Batch(s) \notin results[task[s].run]
          /\ Throw(s)
    /\ UNCHANGED <<task, rowVars, queueVars, requestVars, budgetVars>>

\* Variant: a run finalized meanwhile ends the attempt at once.
ReloadAndReturn(s) ==
    /\ pc[s] = "reload"
    /\ LoadTestRun(s)
    /\ Goto(s, IF NothingToDo(task[s].run) THEN "resolve" ELSE "finish")
    /\ UNCHANGED <<rowVars, queueVars, requestVars, budgetVars>>

\* Was the run finalized while it was executing?
ReloadTestRun(s) ==
    /\ pc[s] = "reload"
    /\ LoadTestRun(s)
    /\ \/ NothingToDo(task[s].run) /\ Goto(s, "recordDone")
       \/ ~NothingToDo(task[s].run) /\ Goto(s, "finish")
    /\ UNCHANGED <<rowVars, queueVars, requestVars, budgetVars>>

\* The outcome becomes the run's status; an illegal transition throws.
FinishTestRun(s) ==
    LET final == FinalStatus(task[s].outcome)
    IN  /\ pc[s] = "finish"
        /\ \/ TransitionTestRun(s, final) /\ Replies(s, "recordDone")
           \/ /\ ~CanTransitionTestRunStatus(task[s].row, final)
              /\ Throw(s)
              /\ UNCHANGED <<status, budgetVars>>
        /\ UNCHANGED <<jobRow, results, task, queueVars, requestVars>>

RecordJobCompleted(s) ==
    /\ pc[s] = "recordDone"
    /\ UpsertJobRecord(s, "completed")
    /\ Replies(s, "resolve")
    /\ UNCHANGED <<status, results, task, queueVars, requestVars>>

\* The catch block; only the final attempt goes on to fail the run.
RecordJobFailed(s) ==
    /\ pc[s] = "recordFailed"
    /\ UpsertJobRecord(s, "failed")
    /\ Replies(s, IF IsFinalAttempt(s) THEN "reloadFinal" ELSE "reject")
    /\ UNCHANGED <<status, results, task, queueVars, requestVars>>

ReloadForFailure(s) ==
    /\ pc[s] = "reloadFinal"
    /\ LoadTestRun(s)
    /\ \/ NothingToDo(task[s].run) /\ Goto(s, "reject")
       \/ ~NothingToDo(task[s].run) /\ Goto(s, "fail")
    /\ UNCHANGED <<rowVars, queueVars, requestVars, budgetVars>>

FailTestRun(s) ==
    /\ pc[s] = "fail"
    /\ TransitionTestRun(s, "failed")
    /\ Replies(s, "reject")
    /\ UNCHANGED <<jobRow, results, task, queueVars, requestVars>>

-----------------------------------------------------------------------------
RequestStep(r) == EnqueueTestRun(r) \/ MarkQueued(r) \/ MarkEnqueueFailed(r)

CancelStep(u) == InspectJob(u) \/ RemoveQueuedJob(u) \/ WriteCancelled(u)

AttemptStep(s) ==
    \/ LoadForAttempt(s) \/ MarkActive(s) \/ AdvanceToRunning(s) \/ Execute(s)
    \/ ClearTestResults(s) \/ InsertTestResults(s) \/ WriteArtifacts(s)
    \/ ReloadTestRun(s) \/ FinishTestRun(s) \/ RecordJobCompleted(s)
    \/ RecordJobFailed(s) \/ ReloadForFailure(s) \/ FailTestRun(s)
    \/ RunIsGone(s) \/ ProcessorResolves(s) \/ ProcessorRejects(s)

Next ==
    \/ \E r \in Runs :
        CreateTestRun(r) \/ RequestStep(r) \/ RequestDies(r) \/ DeleteRun(r)
            \/ PromoteJob(r) \/ RecoverStalledJob(r) \/ LoseLock(r)
    \/ \E u \in Users : CancelStep(u) \/ CancelDies(u) \/ \E r \in Runs : CancelTestRun(u, r)
    \/ \E s \in Slots : AttemptStep(s) \/ CallFails(s) \/ WorkerDies(s)
                            \/ \E r \in Runs : TakeJob(s, r)

Spec == Init /\ [][Next]_vars

\* A started request, cancel or attempt goes on until it returns or dies, and
\* BullMQ keeps promoting, recovering and handing out jobs.
Fairness ==
    /\ \A r \in Runs : /\ WF_vars(RequestStep(r))
                       /\ WF_vars(PromoteJob(r))
                       /\ WF_vars(RecoverStalledJob(r))
                       /\ WF_vars(\E s \in Slots : TakeJob(s, r))
    /\ \A u \in Users : WF_vars(CancelStep(u))
    /\ \A s \in Slots : WF_vars(AttemptStep(s))

FairSpec == Spec /\ Fairness
=============================================================================
