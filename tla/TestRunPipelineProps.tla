------------------------ MODULE TestRunPipelineProps ------------------------
(***************************************************************************)
(* What the pipeline guarantees, and what its documents claim of it.       *)
(***************************************************************************)
EXTENDS TestRunPipeline

\* The abstract life of a run, which the pipeline implements.
Lifecycle == INSTANCE TestRunLifecycle WITH Runs <- Runs, status <- status

Processing(s, r) == pc[s] # "idle" /\ task[s].run = r

-----------------------------------------------------------------------------
(* Safety.                                                                 *)

\* A run is never processed by two slots at once, whatever crashes, stalled-job
\* recoveries, retries and cancels happen, unless a live processor has lost
\* its lock (worker.ts relies on BullMQ for this and never checks it).
OneProcessorPerRun ==
    lockLosses = 0 =>
        \A r \in Runs : \A s, t \in Slots :
            Processing(s, r) /\ Processing(t, r) => s = t

\* However often an attempt is retried, repeated after a crash, or loses the
\* answer of its insert, writeTestResults leaves at most one execution's
\* results behind (docs/test-run-engine.md, Idempotency).
NoDuplicateResults ==
    lockLosses = 0 => \A r \in Runs : \A a, b \in results[r] : a = b

\* A run shown as completed has the results of an execution that completed:
\* no failed, partial or deleted batch stands under it.
CompletedRunHasItsResults ==
    lockLosses = 0 =>
        \A r \in Runs : status[r] = "completed" =>
            \E s \in Slots : results[r] = {[slot |-> s, outcome |-> "completed"]}

\* When no call failed and no process died, a test_run_jobs row that says
\* "active" has a processor at work on it: every way out of an attempt,
\* including that of a run finalized meanwhile, closes the row.
ActiveRowHasProcessor ==
    faults = 0 /\ crashes = 0 =>
        \A r \in Runs : jobRow[r].status = "active" =>
            \E s \in Slots : Processing(s, r)

\* While BullMQ waits to retry a job, the job's row says that the attempt
\* failed and counts the attempts as BullMQ does.
RetryIsRecorded ==
    faults = 0 /\ lockLosses = 0 =>
        \A r \in Runs : jobState[r] = "delayed" /\ status[r] # NoRow =>
            jobRow[r] = [status |-> "failed", attempts |-> attemptsMade[r]]

\* Somebody is still going to act on the run: its createTestRun request, its
\* job, a processor, or a cancel about to write.
Held(r) ==
    \/ request[r] \in {"enqueue", "markQueued", "markFailed"}
    \/ jobState[r] \in {"waiting", "delayed", "active"}
    \/ \E u \in Users : cancel[u].run = r

\* Without a failed call, a lost request or a lost lock, and with no more
\* worker crashes than BullMQ forgives, a run that has not finished always has
\* somebody left to finish it: removing a job on cancel, recovering a stalled
\* one and giving up after the last attempt never strand the row.
NoOrphanedRun ==
    /\ ~EarlyPickup
    /\ faults = 0 /\ dropped = 0 /\ lockLosses = 0
    /\ crashes <= MaxStalled
    => \A r \in Runs : NothingToDo(r) \/ Held(r)

-----------------------------------------------------------------------------
(* Action properties.                                                      *)

\* The awaits that precede a write of the run's status or results and that
\* no fresh read of the run separates from it.
WriterSteps == { "markActive", "advance", "execute", "clear", "insert", "finish", "fail" }

\* The run has finished (or is gone) and nobody holds a read of it from before.
Settled(r) ==
    /\ NothingToDo(r)
    /\ request[r] = "done"
    /\ \A u \in Users : cancel[u].run # r
    /\ \A s \in Slots : pc[s] \in WriterSteps => task[s].run # r

SettledStays(r) ==
    Settled(r) => /\ Settled(r)'
                  /\ results'[r] = results[r] \/ status'[r] = NoRow
                  /\ status'[r] \in {status[r], NoRow}

\* A settled run is settled for good: a late retry, a stalled job handed out
\* again or another click on Cancel changes neither its status nor its
\* results; only deleting it does.
SettledForGood == [][\A r \in Runs : SettledStays(r)]_vars

\* Every write of test_runs.status, by whichever plane, follows the transition
\* map, retries, crashes and failed calls included - as long as nobody cancels
\* and no writer works from a row it read before another one's write.
FollowsLifecycle == Lifecycle!Spec

\* A cancelled run stays cancelled: docs/test-run-engine.md:214-216, "a
\* cancellation racing the very end of execution is never clobbered either way
\* ... never a resurrection".
CancelledIsFinal ==
    [][\A r \in Runs : status[r] = "cancelled" => status'[r] \in {"cancelled", NoRow}]_vars

-----------------------------------------------------------------------------
(* Liveness.                                                               *)

\* Every run that is started reaches a terminal status and stays there (or is
\* deleted): docs/test-run-engine.md:175, "a retry can never ... leave the run
\* stuck".
EveryRunFinishes == \A r \in Runs : status[r] = "created" ~> []NothingToDo(r)
=============================================================================
