-------------------------- MODULE TestRunLifecycle --------------------------
(***************************************************************************)
(* What the transition map promises of test_runs.status, whoever writes    *)
(* it: a row is inserted as "created" and from then on every write follows *)
(* the map, so a terminal status is never left.                            *)
(***************************************************************************)
EXTENDS TestRunStatus

CONSTANT Runs

VARIABLE status

Init == status = [r \in Runs |-> NoRow]

\* createTestRun inserts the row.
Insert(r) ==
    /\ status[r] = NoRow
    /\ status' = [status EXCEPT ![r] = "created"]

\* Some writer moves the run along the map.
Move(r) ==
    \E to \in TestRunStatuses :
        /\ CanTransitionTestRunStatus(status[r], to)
        /\ status' = [status EXCEPT ![r] = to]

\* The run goes with its project or environment.
Delete(r) == status' = [status EXCEPT ![r] = NoRow]

Next == \E r \in Runs : Insert(r) \/ Move(r) \/ Delete(r)

Spec == Init /\ [][Next]_status
=============================================================================
