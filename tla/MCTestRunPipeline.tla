-------------------------- MODULE MCTestRunPipeline --------------------------
(***************************************************************************)
(* Instances of the pipeline for TLC. The .cfg files give the constants.   *)
(***************************************************************************)
EXTENDS TestRunPipelineProps, TLC

\* Slots are interchangeable, and so are cancelTestRun requests.
Symmetry == Permutations(Slots) \cup Permutations(Users)

CONSTANT MaxDisturbances    \* bound: faults, deaths, lost locks and cancels together

FewDisturbances == faults + crashes + dropped + lockLosses + cancels <= MaxDisturbances
=============================================================================
