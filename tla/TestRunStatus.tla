---------------------------- MODULE TestRunStatus ----------------------------
(***************************************************************************)
(* The status of a test run and the map of legal transitions, shared by    *)
(* the control plane and the execution plane (packages/types).             *)
(***************************************************************************)

\* A run whose row has not been inserted yet.
NoRow == "none"

TestRunStatuses ==
    { "created", "queued", "starting", "running", "analyzing",
      "completed", "failed", "cancelled", "blocked" }

TestRunTerminalStatuses == { "completed", "failed", "cancelled", "blocked" }

IsTestRunFinished(s) == s \in TestRunTerminalStatuses

TestRunTransitions ==
    [ created   |-> { "queued", "failed" },
      queued    |-> { "starting", "failed", "cancelled", "blocked" },
      starting  |-> { "running", "failed", "cancelled", "blocked" },
      running   |-> { "analyzing", "completed", "failed", "cancelled", "blocked" },
      analyzing |-> { "completed", "failed", "cancelled", "blocked" },
      completed |-> {},
      failed    |-> {},
      cancelled |-> {},
      blocked   |-> {} ]

CanTransitionTestRunStatus(from, to) ==
    from \in TestRunStatuses /\ to \in TestRunTransitions[from]
=============================================================================
