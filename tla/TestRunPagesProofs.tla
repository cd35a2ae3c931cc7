------------------------- MODULE TestRunPagesProofs -------------------------
(***************************************************************************)
(* What holds of the run's page for every number of projects, updates,     *)
(* executions and mishaps: its type invariant, that a run shown as         *)
(* completed is shown with its results, and that the throttle keeps its    *)
(* distance.                                                               *)
(***************************************************************************)
EXTENDS TestRunPages, TLAPS

Actions == {"create", "navigate", "refresh", "cancel"}
Types == {t \in DOMAIN TestTypes : TestTypes[t]}
Forms == [project : Projects \cup {None}, environment : Environments \cup {None},
          type : Types, submitting : BOOLEAN]
Calls == [step : Steps, view : Views, failed : BOOLEAN]
Workers == [step : WorkerSteps, status : TestRunStatuses \cup {NoRow}]
Throttles == [open : BOOLEAN, left : 0..Delay, trailing : BOOLEAN, age : 0..Delay]

-----------------------------------------------------------------------------
(* The parts of the state.                                                 *)

LEMMA StartingValues ==
    /\ Nothing \in Views /\ Started \in Calls /\ Closed \in Throttles /\ Refreshed \in Throttles
    /\ EmptyForm \in Forms
    /\ Started.step = "start" /\ Started.view = Nothing /\ ~Started.failed
    /\ Nothing.status = NoRow /\ Nothing.updates = 0
    /\ Idle \in Workers /\ Idle.step = "idle"
<1>1. MaxUpdates \in Nat /\ MaxBatches \in Nat /\ Delay \in Nat
  BY ConstantsAssumption
<1>2. Nothing \in Views /\ Nothing.status = NoRow /\ Nothing.updates = 0
  BY <1>1 DEF Nothing, Views, Batches
<1>3. /\ Started \in Calls /\ Started.step = "start" /\ Started.view = Nothing
      /\ ~Started.failed
  BY <1>2 DEF Started, Calls, Steps
<1>4. Closed \in Throttles /\ Refreshed \in Throttles
  BY <1>1 DEF Closed, Refreshed, Throttles
<1>5. EmptyForm \in Forms
  BY DEF EmptyForm, Forms, Types, TestTypes
<1>6. Idle \in Workers /\ Idle.step = "idle"
  BY DEF Idle, Working, Workers, WorkerSteps
<1> QED BY <1>2, <1>3, <1>4, <1>5, <1>6

\* What the router's queue becomes.
LEMMA QueueTypes ==
    ASSUME NEW q \in Seq(Actions), NEW a \in Actions
    PROVE  /\ Append(q, a) \in Seq(Actions)
           /\ q # <<>> => Tail(q) \in Seq(Actions) /\ Append(Tail(q), a) \in Seq(Actions)
OBVIOUS

Typed ==
    /\ form \in Forms /\ (form.environment # None => form.environment.project = form.project)
    /\ row \in Views /\ worker \in Workers /\ shown \in Views
    /\ queue \in Seq(Actions) /\ call \in Calls
    /\ channel \in {"none", "joining", "joined"} /\ inbox \in 0..MaxUpdates
    /\ throttle \in Throttles
    /\ isCancelling \in BOOLEAN /\ unseen \in BOOLEAN /\ failedRead \in BOOLEAN
    /\ mishaps \in 0..MaxMishaps

LEMMA TypedIsTypeOK == TypeOK <=> Typed
BY DEF TypeOK, Typed, Forms, Types, Actions, Calls, Workers, Throttles

LEMMA FormChanges ==
    ASSUME NEW f \in Forms, NEW b \in BOOLEAN
    PROVE  /\ [f EXCEPT !.submitting = b] \in Forms
           /\ [f EXCEPT !.submitting = b].environment = f.environment
           /\ [f EXCEPT !.submitting = b].project = f.project
           /\ [f EXCEPT !.submitting = b].submitting = b
BY DEF Forms

\* A step of the row that is not announced changes one of its fields.
LEMMA RowChanges ==
    ASSUME NEW v \in Views
    PROVE  /\ \A s \in TestRunStatuses \cup {NoRow} :
                 /\ [v EXCEPT !.status = s] \in Views
                 /\ [v EXCEPT !.status = s].status = s
                 /\ [v EXCEPT !.status = s].updates = v.updates
                 /\ [v EXCEPT !.status = s].results = v.results
                 /\ [v EXCEPT !.status = s].evidence = v.evidence
           /\ \A b \in Batches :
                 /\ [v EXCEPT !.results = b] \in Views
                 /\ [v EXCEPT !.results = b].status = v.status
                 /\ [v EXCEPT !.results = b].updates = v.updates
           /\ /\ [v EXCEPT !.results = 0, !.evidence = FALSE] \in Views
              /\ [v EXCEPT !.results = 0, !.evidence = FALSE].status = v.status
              /\ [v EXCEPT !.results = 0, !.evidence = FALSE].updates = v.updates
           /\ /\ [v EXCEPT !.evidence = TRUE] \in Views
              /\ [v EXCEPT !.evidence = TRUE].status = v.status
              /\ [v EXCEPT !.evidence = TRUE].updates = v.updates
           /\ v.status \in TestRunStatuses \cup {NoRow} /\ v.updates \in 0..MaxUpdates
<1>1. 0 \in Batches
  BY ConstantsAssumption DEF Batches
<1>2. v.status \in TestRunStatuses \cup {NoRow} /\ v.updates \in 0..MaxUpdates
  BY DEF Views
<1>3. \A s \in TestRunStatuses \cup {NoRow} :
         /\ [v EXCEPT !.status = s] \in Views
         /\ [v EXCEPT !.status = s].status = s
         /\ [v EXCEPT !.status = s].updates = v.updates
         /\ [v EXCEPT !.status = s].results = v.results
         /\ [v EXCEPT !.status = s].evidence = v.evidence
  BY DEF Views
<1>4. \A b \in Batches :
         /\ [v EXCEPT !.results = b] \in Views
         /\ [v EXCEPT !.results = b].status = v.status
         /\ [v EXCEPT !.results = b].updates = v.updates
  BY DEF Views
<1>5. /\ [v EXCEPT !.results = 0, !.evidence = FALSE] \in Views
      /\ [v EXCEPT !.results = 0, !.evidence = FALSE].status = v.status
      /\ [v EXCEPT !.results = 0, !.evidence = FALSE].updates = v.updates
  BY <1>1 DEF Views
<1>6. /\ [v EXCEPT !.evidence = TRUE] \in Views
      /\ [v EXCEPT !.evidence = TRUE].status = v.status
      /\ [v EXCEPT !.evidence = TRUE].updates = v.updates
  BY DEF Views
<1> QED BY <1>2, <1>3, <1>4, <1>5, <1>6

\* An announced one counts as well.
LEMMA RowAnnounced ==
    ASSUME Typed, NEW update \in Views, NEW x, Announce(update, x), row.updates < MaxUpdates,
           inbox <= row.updates
    PROVE  /\ row' \in Views /\ row'.updates = row.updates + 1 /\ row'.status = update.status
           /\ row'.results = update.results /\ row'.evidence = update.evidence
           /\ inbox' \in 0..MaxUpdates /\ inbox' <= row'.updates
           /\ x \in BOOLEAN => unseen' \in BOOLEAN
<1>1. row.updates \in 0..MaxUpdates /\ inbox \in Nat /\ MaxUpdates \in Nat
  BY ConstantsAssumption DEF Typed, Views
<1>2. row.updates + 1 \in 0..MaxUpdates
  BY <1>1
<1>3. /\ row' \in Views /\ row'.updates = row.updates + 1 /\ row'.status = update.status
      /\ row'.results = update.results /\ row'.evidence = update.evidence
  BY <1>2 DEF Announce, Views
<1>4. inbox' \in 0..MaxUpdates /\ inbox' <= row'.updates
  BY <1>1, <1>2, <1>3 DEF Announce, Typed
<1>5. x \in BOOLEAN => unseen' \in BOOLEAN
  BY DEF Announce, Typed
<1> QED BY <1>3, <1>4, <1>5

\* Where the attempt goes on.
LEMMA WorkerChanges ==
    ASSUME NEW w \in Workers
    PROVE  /\ \A s \in WorkerSteps : Working(s) \in Workers /\ Working(s).step = s
           /\ \A s \in TestRunStatuses :
                 [w EXCEPT !.status = s] \in Workers /\ [w EXCEPT !.status = s].step = w.step
BY DEF Workers, Working

\* How the call at the head of the queue goes on.
LEMMA CallChanges ==
    ASSUME NEW c \in Calls, NEW s \in Steps
    PROVE  /\ [c EXCEPT !.step = s] \in Calls /\ [c EXCEPT !.step = s].step = s
           /\ [c EXCEPT !.step = s].view = c.view /\ [c EXCEPT !.step = s].failed = c.failed
           /\ [c EXCEPT !.step = s, !.failed = TRUE] \in Calls
           /\ [c EXCEPT !.step = s, !.failed = TRUE].step = s
           /\ [c EXCEPT !.step = s, !.failed = TRUE].view = c.view
           /\ [c EXCEPT !.step = s, !.failed = TRUE].failed
           /\ \A v \in Views :
                 /\ [c EXCEPT !.step = s, !.view = v] \in Calls
                 /\ [c EXCEPT !.step = s, !.view = v].step = s
                 /\ [c EXCEPT !.step = s, !.view = v].view = v
                 /\ [c EXCEPT !.step = s, !.view = v].failed = c.failed
           /\ c.step \in Steps /\ c.view \in Views
BY DEF Calls

LEMMA RunIsRead ==
    ASSUME Typed, ReadRun
    PROVE  /\ call' \in Calls /\ call'.step = "results" /\ call'.failed = call.failed
           /\ call'.view.status = row.status
<1> DEFINE v == [Nothing EXCEPT !.status = row.status, !.updates = row.updates]
<1>1. v \in Views /\ v.status = row.status
  BY StartingValues DEF Typed, Views
<1>2. "results" \in Steps
  BY DEF Steps
<1>3. call' = [call EXCEPT !.step = "results", !.view = v]
  BY DEF ReadRun
<1> HIDE DEF v
<1> QED BY <1>1, <1>2, <1>3 DEF Typed, Calls

LEMMA ResultsAreRead ==
    ASSUME Typed, ReadResults
    PROVE  /\ call' \in Calls /\ call'.failed = call.failed
           /\ call'.step = IF row.results = 0 THEN "arrive" ELSE "artifacts"
           /\ call'.view.status = call.view.status /\ call'.view.results = row.results
<1> DEFINE v == [call.view EXCEPT !.results = row.results]
           s == IF row.results = 0 THEN "arrive" ELSE "artifacts"
<1>1. v \in Views /\ v.status = call.view.status /\ v.results = row.results
  BY CallChanges DEF Typed, Views, Calls
<1>2. s \in Steps
  BY DEF Steps
<1>3. call' = [call EXCEPT !.step = s, !.view = v]
  BY DEF ReadResults, Typed, Calls
<1> HIDE DEF v, s
<1>4. call' \in Calls /\ call'.failed = call.failed /\ call'.step = s /\ call'.view = v
  BY <1>1, <1>2, <1>3 DEF Typed, Calls
<1> QED BY <1>1, <1>4 DEF s

LEMMA ArtifactsAreRead ==
    ASSUME Typed, ReadArtifacts
    PROVE  /\ call' \in Calls /\ call'.failed = call.failed /\ call'.step = "arrive"
           /\ call'.view.status = call.view.status /\ call'.view.results = call.view.results
           /\ call'.view.evidence = (row.evidence /\ row.results = call.view.results)
<1> DEFINE e == row.evidence /\ row.results = call.view.results
           v == [call.view EXCEPT !.evidence = e]
<1>1. e \in BOOLEAN
  BY DEF Typed, Views
<1> HIDE DEF e
<1>2. /\ v \in Views /\ v.status = call.view.status /\ v.results = call.view.results
      /\ v.evidence = e
  BY <1>1 DEF Typed, Views, Calls
<1>3. "arrive" \in Steps
  BY DEF Steps
<1>4. call' = [call EXCEPT !.step = "arrive", !.view = v]
  BY DEF ReadArtifacts, Typed, Calls, e
<1> HIDE DEF v
<1>5. call' \in Calls /\ call'.failed = call.failed /\ call'.step = "arrive" /\ call'.view = v
  BY <1>2, <1>3, <1>4 DEF Typed, Calls
<1> QED BY <1>2, <1>5 DEF e

\* The last update of the row is a cancel's, and only one is on its way.
UpdatesInv ==
    /\ row.updates = MaxUpdates => row.status = "cancelled"
    /\ call.step = "write" => row.updates < MaxUpdates
    /\ inbox <= row.updates

\* Until its row is there, a run has no page and no panel, and is created once.
Before ==
    /\ queue = <<>> \/ (queue = <<"create">> /\ form.submitting)
    /\ row = Nothing /\ worker.step = "idle" /\ shown = Nothing
    /\ channel = "none" /\ inbox = 0 /\ ~throttle.open
    /\ call.step \in {"start", "error"} /\ call.view = Nothing

CreateInv ==
    /\ row.status = NoRow => Before
    /\ \A i \in DOMAIN queue : queue[i] = "create" =>
          i = 1 /\ (call.step = "start" => row.status = NoRow)
    /\ queue = <<>> => call = Started
    /\ call.step = "start" => call = Started

PageInv == Typed /\ UpdatesInv /\ CreateInv

-----------------------------------------------------------------------------
(* The type invariant.                                                     *)

\* The worker writes what it is to write by id, whatever the row has become.
LEMMA StatusIsWritten ==
    ASSUME PageInv, NEW s \in TestRunStatuses, AdvanceToRunning(s) \/ FinishTestRun(s)
    PROVE  /\ row' \in Views /\ row'.status = s /\ row'.updates < MaxUpdates
           /\ row'.results = row.results /\ row'.evidence = row.evidence
           /\ inbox' \in 0..MaxUpdates /\ inbox' <= row'.updates /\ unseen' \in BOOLEAN
<1> DEFINE u == [row EXCEPT !.status = s]
<1>0. row.updates < MaxUpdates - 1
  BY DEF AdvanceToRunning, FinishTestRun
<1>1. /\ Typed /\ inbox <= row.updates /\ row.updates < MaxUpdates
      /\ row.updates \in Nat /\ MaxUpdates \in Nat /\ FALSE \in BOOLEAN
  BY <1>0, ConstantsAssumption DEF PageInv, UpdatesInv, Typed, Views
<1>2. u \in Views /\ u.status = s /\ u.results = row.results /\ u.evidence = row.evidence
  BY <1>1, RowChanges DEF Typed
<1>3. Announce(u, FALSE)
  BY DEF AdvanceToRunning, FinishTestRun
<1> HIDE DEF u
<1>4. /\ row' \in Views /\ row'.updates = row.updates + 1 /\ row'.status = u.status
      /\ row'.results = u.results /\ row'.evidence = u.evidence
      /\ inbox' \in 0..MaxUpdates /\ inbox' <= row'.updates /\ unseen' \in BOOLEAN
  BY <1>1, <1>2, <1>3, RowAnnounced
<1> QED BY <1>0, <1>1, <1>2, <1>4

LEMMA ProgressIsWritten ==
    ASSUME PageInv, UpdateProgress
    PROVE  /\ row' \in Views /\ row'.status = row.status /\ row'.updates < MaxUpdates
           /\ inbox' \in 0..MaxUpdates /\ inbox' <= row'.updates /\ unseen' \in BOOLEAN
<1>0. row.updates < MaxUpdates - 1
  BY DEF UpdateProgress
<1>1. /\ Typed /\ inbox <= row.updates /\ row.updates < MaxUpdates /\ row \in Views
      /\ row.updates \in Nat /\ MaxUpdates \in Nat /\ FALSE \in BOOLEAN
  BY <1>0, ConstantsAssumption DEF PageInv, UpdatesInv, Typed, Views
<1>2. Announce(row, FALSE)
  BY DEF UpdateProgress
<1>3. /\ row' \in Views /\ row'.updates = row.updates + 1 /\ row'.status = row.status
      /\ inbox' \in 0..MaxUpdates /\ inbox' <= row'.updates /\ unseen' \in BOOLEAN
  BY <1>1, <1>2, RowAnnounced
<1> QED BY <1>0, <1>1, <1>3

\* So does a cancel.
LEMMA CancelIsWritten ==
    ASSUME PageInv, WriteCancelled
    PROVE  /\ row' \in Views /\ row'.status = "cancelled"
           /\ row'.results = row.results /\ row'.evidence = row.evidence
           /\ inbox' \in 0..MaxUpdates /\ inbox' <= row'.updates /\ unseen' \in BOOLEAN
           /\ call' = [call EXCEPT !.step = "ok"] /\ call'.step = "ok" /\ call'.view = call.view
<1> DEFINE u == [row EXCEPT !.status = "cancelled"]
<1>1. Typed /\ inbox <= row.updates /\ row.updates < MaxUpdates
  BY DEF PageInv, UpdatesInv, WriteCancelled
<1>2. u \in Views /\ u.status = "cancelled" /\ u.results = row.results /\ u.evidence = row.evidence
  BY <1>1, RowChanges DEF Typed, TestRunStatuses
<1>3. Announce(u, TRUE)
  BY DEF WriteCancelled
<1>4. call' = [call EXCEPT !.step = "ok"] /\ "ok" \in Steps
  BY DEF WriteCancelled, Steps
<1> HIDE DEF u
<1>5. /\ row' \in Views /\ row'.status = u.status
      /\ row'.results = u.results /\ row'.evidence = u.evidence
      /\ inbox' \in 0..MaxUpdates /\ inbox' <= row'.updates /\ unseen' \in BOOLEAN
  BY <1>1, <1>2, <1>3, RowAnnounced
<1>6. call'.step = "ok" /\ call'.view = call.view
  BY <1>1, <1>4, CallChanges DEF Typed
<1> QED BY <1>2, <1>4, <1>5, <1>6

\* An attempt ends or gives the run up.
LEMMA AttemptEnding ==
    ASSUME Typed, AttemptEnds
    PROVE  worker' \in Workers
BY WorkerChanges, StartingValues DEF AttemptEnds, Typed, WorkerSteps

LEMMA TypeStep == PageInv /\ [Next]_vars => Typed'
<1> SUFFICES ASSUME PageInv, [Next]_vars
             PROVE  Typed'
  OBVIOUS
<1> USE DEF PageInv, pageVars, panelVars
<1>1. ASSUME NEW p \in Projects, SelectProject(p)
      PROVE  Typed'
  <2>1. form' = [form EXCEPT !.project = p, !.environment = None]
    BY <1>1 DEF SelectProject
  <2>2. form' \in Forms /\ form'.environment = None
    BY <2>1 DEF Typed, Forms
  <2> QED BY <1>1, <2>2 DEF SelectProject, Typed
<1>2. ASSUME NEW e \in Environments, SelectEnvironment(e)
      PROVE  Typed'
  <2>1. form' = [form EXCEPT !.environment = e] /\ e.project = form.project
    BY <1>2 DEF SelectEnvironment, EnvironmentsForProject
  <2>2. form' \in Forms /\ form'.environment.project = form'.project
    BY <2>1 DEF Typed, Forms
  <2> QED BY <1>2, <2>2 DEF SelectEnvironment, Typed
<1>3. ASSUME NEW t \in DOMAIN TestTypes, SelectTestType(t)
      PROVE  Typed'
  <2>1. t \in Types
    BY <1>3 DEF SelectTestType, Types
  <2>2. form' = [form EXCEPT !.type = t]
    BY <1>3 DEF SelectTestType
  <2>3. form' \in Forms /\ form'.environment = form.environment /\ form'.project = form.project
    BY <2>1, <2>2 DEF Typed, Forms
  <2> QED BY <1>3, <2>3 DEF SelectTestType, Typed
<1>4. CASE HandleStart
  <2>1. queue' \in Seq(Actions)
    BY <1>4, QueueTypes DEF HandleStart, Typed, Actions
  <2> QED BY <1>4, <2>1, FormChanges DEF HandleStart, Typed
<1>5. ASSUME NEW s \in {"created", "queued", "failed"}
      PROVE  [row EXCEPT !.status = s] \in Views
  BY RowChanges DEF Typed, TestRunStatuses
<1>6. ASSUME NEW s \in Steps
      PROVE  [call EXCEPT !.step = s] \in Calls
  BY CallChanges DEF Typed
<1>7. CASE CreateTestRun
  BY <1>5, <1>6, <1>7 DEF CreateTestRun, Typed, Steps
<1>8. mishaps < MaxMishaps => mishaps + 1 \in 0..MaxMishaps
  BY ConstantsAssumption DEF Typed
<1>9. CASE QueuedIsNotWritten
  BY <1>5, <1>6, <1>8, <1>9 DEF QueuedIsNotWritten, Typed, Steps
<1>10. CASE CreateTestRunFails
  BY <1>5, <1>6, <1>8, <1>10 DEF CreateTestRunFails, Typed, Steps
<1>11. CASE CreateAnswers
  <2>1. queue' \in Seq(Actions)
    BY <1>11, QueueTypes DEF CreateAnswers, AtWork, Typed, Actions
  <2> QED BY <1>11, <2>1, FormChanges, StartingValues DEF CreateAnswers, Typed
<1>12. ASSUME NEW s \in TestRunStatuses, AdvanceToRunning(s) \/ FinishTestRun(s)
       PROVE  Typed'
  <2>1. row' \in Views /\ inbox' \in 0..MaxUpdates /\ unseen' \in BOOLEAN
    BY <1>12, StatusIsWritten
  <2>2. worker' \in Workers
    BY <1>12, WorkerChanges, StartingValues DEF AdvanceToRunning, FinishTestRun, Typed
  <2> QED BY <1>12, <2>1, <2>2 DEF AdvanceToRunning, FinishTestRun, Typed
<1>13. CASE UpdateProgress
  BY <1>13, ProgressIsWritten DEF UpdateProgress, Typed
<1>14. CASE ClearTestResults
  BY <1>14, RowChanges, WorkerChanges DEF ClearTestResults, Typed, WorkerSteps
<1>15. ASSUME NEW b \in Batches, InsertTestResults(b)
       PROVE  Typed'
  <2>1. worker' \in Workers
    BY <1>15, WorkerChanges DEF InsertTestResults, Typed, WorkerSteps
  <2> QED BY <1>15, <2>1, RowChanges DEF InsertTestResults, Typed
<1>16. CASE WriteArtifacts
  BY <1>16, RowChanges, WorkerChanges DEF WriteArtifacts, Typed, WorkerSteps
<1>39. CASE LoadForAttempt
  <2>1. worker' \in Workers
    BY <1>39, RowChanges DEF LoadForAttempt, Typed, Workers, WorkerSteps
  <2> QED BY <1>39, <2>1 DEF LoadForAttempt, Typed
<1>40. CASE ReloadTestRun
  <2>1. worker' \in Workers
    <3>1. row.status \in TestRunStatuses \cup {NoRow}
      BY RowChanges DEF Typed
    <3> QED BY <1>40, <3>1, StartingValues DEF ReloadTestRun, Workers, WorkerSteps
  <2> QED BY <1>40, <2>1 DEF ReloadTestRun, Typed
<1>41. CASE TransitionIsIllegal
  BY <1>41, AttemptEnding DEF TransitionIsIllegal, Typed
<1>42. CASE AttemptThrows
  BY <1>8, <1>42, AttemptEnding DEF AttemptThrows, Typed
<1>43. CASE GuardCancel
  BY <1>6, <1>43 DEF GuardCancel, Typed, Steps
<1>17. CASE ReadRun
  BY <1>17, RunIsRead DEF ReadRun, Typed
<1>18. CASE ReadResults
  BY <1>18, ResultsAreRead DEF ReadResults, Typed
<1>19. CASE ReadArtifacts
  BY <1>19, ArtifactsAreRead DEF ReadArtifacts, Typed
<1>20. CASE ReadFails
  <2>1. call' \in Calls
    BY <1>20, CallChanges DEF ReadFails, Typed, Steps
  <2> QED BY <1>8, <1>20, <2>1 DEF ReadFails, Typed
<1>21. CASE Arrive
  <2>1. queue' \in Seq(Actions)
    BY <1>21, QueueTypes DEF Arrive, Rendering, AtWork, Typed
  <2>2. shown' \in Views /\ failedRead' \in BOOLEAN
    BY <1>21, CallChanges DEF Arrive, Typed, Calls
  <2>3. form' \in Forms /\ form'.environment = None /\ call' = Started
    BY <1>21, StartingValues DEF Arrive, EmptyForm
  <2>4. /\ channel' \in {"none", "joining", "joined"} /\ inbox' \in 0..MaxUpdates
        /\ throttle' \in Throttles
    BY <1>21, StartingValues, ConstantsAssumption DEF Arrive, Typed
  <2>5. isCancelling' \in BOOLEAN /\ unseen' \in BOOLEAN /\ UNCHANGED <<row, worker, mishaps>>
    BY <1>21 DEF Arrive, Typed
  <2> QED BY <2>1, <2>2, <2>3, <2>4, <2>5, StartingValues DEF Typed
<1>22. CASE Join
  BY <1>22 DEF Join, Typed
<1>23. CASE Disconnect
  BY <1>8, <1>23, ConstantsAssumption DEF Disconnect, Typed
<1>24. CASE Deliver
  <2>1. queue' \in Seq(Actions)
    BY <1>24, QueueTypes DEF Deliver, Typed, Actions
  <2>2. inbox' \in 0..MaxUpdates
    BY <1>24, ConstantsAssumption DEF Deliver, Typed
  <2>3. throttle' \in Throttles
    BY <1>24, StartingValues DEF Deliver, Typed, Throttles
  <2> QED BY <1>24, <2>1, <2>2, <2>3 DEF Deliver, Typed
<1>25. CASE WindowEnds
  <2>1. queue' \in Seq(Actions)
    BY <1>25, QueueTypes DEF WindowEnds, Typed, Actions
  <2>2. throttle' \in Throttles
    BY <1>25, StartingValues DEF WindowEnds, Typed, Throttles
  <2> QED BY <1>25, <2>1, <2>2 DEF WindowEnds, Typed
<1>26. CASE Tick
  <2>1. throttle' \in Throttles
    <3>1. /\ throttle \in Throttles /\ Delay \in Nat /\ throttle.age + 1 \in 0..Delay
          /\ throttle.open => throttle.left - 1 \in 0..Delay
      BY <1>26, ConstantsAssumption DEF Tick, Typed, Throttles
    <3>2. (IF throttle.open THEN throttle.left - 1 ELSE throttle.left) \in 0..Delay
      BY <3>1 DEF Throttles
    <3>3. throttle' = [throttle EXCEPT !.left = IF throttle.open THEN throttle.left - 1 ELSE throttle.left,
                                       !.age = throttle.age + 1]
      BY <1>26 DEF Tick
    <3> QED BY <3>1, <3>2, <3>3 DEF Throttles
  <2> QED BY <1>26, <2>1 DEF Tick, Typed
<1>27. CASE HandleCancel
  <2>1. queue' \in Seq(Actions)
    BY <1>27, QueueTypes DEF HandleCancel, Typed, Actions
  <2> QED BY <1>27, <2>1 DEF HandleCancel, Typed
<1>28. CASE WriteCancelled
  BY <1>6, <1>28, CancelIsWritten DEF WriteCancelled, Typed, Steps
<1>29. CASE CancelIsRefused
  BY <1>6, <1>29 DEF CancelIsRefused, Typed, Steps
<1>30. CASE CancelFails
  BY <1>6, <1>8, <1>30 DEF CancelFails, Typed, Steps
<1>31. CASE CancelAnswers
  <2>1. queue' \in Seq(Actions)
    BY <1>31, QueueTypes DEF CancelAnswers, AtWork, Typed, Actions
  <2> QED BY <1>31, <2>1, StartingValues DEF CancelAnswers, Typed
<1>32. CASE Leave
  <2>1. queue' \in Seq(Actions) /\ inbox' \in 0..MaxUpdates
    BY <1>32, ConstantsAssumption DEF Leave
  <2> QED BY <1>32, <2>1, StartingValues DEF Leave, Typed
<1>33. CASE UNCHANGED vars
  BY <1>33 DEF vars, Typed
<1>34. CASE TheRouter
  BY <1>7, <1>11, <1>17, <1>18, <1>19, <1>21, <1>28, <1>29, <1>31, <1>34, <1>43
     DEF TheRouter
<1>35. CASE ThePanel
  BY <1>22, <1>24, <1>25, <1>26, <1>35 DEF ThePanel
<1>36. CASE TheUser
  BY <1>1, <1>2, <1>3, <1>4, <1>27, <1>32, <1>36 DEF TheUser
<1>37. CASE TheWorker
  BY <1>12, <1>13, <1>14, <1>15, <1>16, <1>37, <1>39, <1>40, <1>41 DEF TheWorker
<1>38. CASE Mishap
  BY <1>9, <1>10, <1>20, <1>23, <1>30, <1>38, <1>42 DEF Mishap
<1> QED BY <1>33, <1>34, <1>35, <1>36, <1>37, <1>38 DEF Next

\* What the router or a worker is at belongs to a run that is there, unless it
\* is being created.
LEMMA AtWorkOnARun ==
    ASSUME PageInv
    PROVE  /\ Rendering => row.status # NoRow
           /\ AtWork("cancel") => row.status # NoRow
           /\ AtWork("create") /\ call.step = "start" => row.status = NoRow
           /\ \/ channel # "none" \/ inbox > 0 \/ throttle.open \/ shown # Nothing
              \/ worker.step # "idle"
              => row.status # NoRow
<1>1. <<"create">> # <<>> /\ Head(<<"create">>) = "create"
  OBVIOUS
<1>2. queue # <<>> => 1 \in DOMAIN queue /\ Head(queue) = queue[1]
  BY DEF PageInv, Typed
<1>3. row.status = NoRow => queue = <<>> \/ queue = <<"create">>
  BY DEF PageInv, CreateInv, Before
<1>4. Rendering => row.status # NoRow
  BY <1>1, <1>3 DEF Rendering, AtWork
<1>5. AtWork("cancel") => row.status # NoRow
  BY <1>1, <1>3 DEF AtWork
<1>6. AtWork("create") /\ call.step = "start" => row.status = NoRow
  BY <1>2 DEF AtWork, PageInv, CreateInv
<1>7. \/ channel # "none" \/ inbox > 0 \/ throttle.open \/ shown # Nothing
      \/ worker.step # "idle"
      => row.status # NoRow
  BY DEF PageInv, CreateInv, Before
<1> QED BY <1>4, <1>5, <1>6, <1>7

LEMMA UpdatesStep == PageInv /\ [Next]_vars => UpdatesInv'
<1> SUFFICES ASSUME PageInv, [Next]_vars
             PROVE  UpdatesInv'
  OBVIOUS
<1> USE DEF pageVars, panelVars
<1>1. /\ row.updates \in Nat /\ row.updates <= MaxUpdates /\ inbox \in Nat
      /\ row \in Views /\ UpdatesInv /\ Typed /\ MaxUpdates \in Nat \ {0}
  BY ConstantsAssumption DEF PageInv, Typed, Views
<1>2. ASSUME row'.status = row.status, row'.updates = row.updates,
             inbox' \in Nat, inbox' <= inbox, call'.step # "write" \/ UNCHANGED call
      PROVE  UpdatesInv'
  BY <1>1, <1>2 DEF UpdatesInv
<1>3. ASSUME NEW s \in {"created", "queued", "failed"}, row.status = NoRow,
             row' = [row EXCEPT !.status = s], UNCHANGED inbox,
             NEW step \in {"ok", "error"}, call' = [call EXCEPT !.step = step]
      PROVE  UpdatesInv'
  <2>1. row'.status = s /\ row'.updates = row.updates
    BY <1>1, <1>3, RowChanges DEF TestRunStatuses
  <2>2. row.updates = 0
    BY <1>3, StartingValues DEF PageInv, CreateInv, Before
  <2>3. call'.step # "write"
    BY <1>1, <1>3, CallChanges DEF Typed, Steps
  <2> QED BY <1>1, <1>3, <2>1, <2>2, <2>3 DEF UpdatesInv
<1>4. CASE CreateTestRun \/ QueuedIsNotWritten
  BY <1>3, <1>4, AtWorkOnARun DEF CreateTestRun, QueuedIsNotWritten
<1>5. CASE CreateTestRunFails
  <2>1. CASE UNCHANGED row
    <3>1. call'.step # "write"
      BY <1>1, <1>5, CallChanges DEF CreateTestRunFails, Typed, Steps
    <3> QED BY <1>1, <1>2, <1>5, <2>1, <3>1 DEF CreateTestRunFails
  <2> QED BY <1>3, <1>5, <2>1, AtWorkOnARun DEF CreateTestRunFails
<1>6. ASSUME NEW s \in TestRunStatuses, AdvanceToRunning(s) \/ FinishTestRun(s)
      PROVE  UpdatesInv'
  <2>1. row'.updates < MaxUpdates /\ row'.updates \in Nat /\ inbox' <= row'.updates
    BY <1>6, StatusIsWritten DEF Views
  <2> QED BY <1>1, <2>1 DEF UpdatesInv
<1>7. CASE UpdateProgress
  <2>1. row'.updates < MaxUpdates /\ row'.updates \in Nat /\ inbox' <= row'.updates
    BY <1>7, ProgressIsWritten DEF Views
  <2> QED BY <1>1, <2>1 DEF UpdatesInv
<1>8. CASE WriteCancelled
  BY <1>8, CancelIsWritten DEF UpdatesInv
<1>9. CASE GuardCancel
  <2>1. row.status # "cancelled"
    BY <1>9 DEF GuardCancel, CanTransitionTestRunStatus, TestRunTransitions
  <2>2. row.updates < MaxUpdates
    BY <1>1, <2>1 DEF UpdatesInv
  <2> QED BY <1>1, <1>9, <2>2 DEF GuardCancel, UpdatesInv
<1>10. CASE CancelIsRefused \/ CancelFails \/ ReadFails
  <2>1. call'.step # "write"
    BY <1>1, <1>10, CallChanges DEF CancelIsRefused, CancelFails, ReadFails, Typed, Steps
  <2> QED BY <1>1, <1>2, <1>10, <2>1 DEF CancelIsRefused, CancelFails, ReadFails
<1>25. ASSUME row'.status = row.status, row'.updates = row.updates, UNCHANGED <<inbox, call>>
       PROVE  UpdatesInv'
  BY <1>1, <1>25 DEF UpdatesInv
<1>11. CASE ClearTestResults \/ WriteArtifacts
  BY <1>1, <1>11, <1>25, RowChanges DEF ClearTestResults, WriteArtifacts
<1>12. ASSUME NEW b \in Batches, InsertTestResults(b)
       PROVE  UpdatesInv'
  BY <1>1, <1>12, <1>25, RowChanges DEF InsertTestResults
<1>13. CASE Deliver
  BY <1>1, <1>2, <1>13 DEF Deliver
<1>14. CASE Arrive \/ Disconnect \/ Leave \/ CreateAnswers \/ CancelAnswers
  BY <1>1, <1>2, <1>14, StartingValues DEF Arrive, Disconnect, Leave, CreateAnswers, CancelAnswers
<1>15. CASE UNCHANGED <<row, inbox, call>>
  BY <1>1, <1>2, <1>15
<1>22. CASE ReadRun
  BY <1>1, <1>2, <1>22, RunIsRead DEF ReadRun
<1>23. CASE ReadResults
  BY <1>1, <1>2, <1>23, ResultsAreRead DEF ReadResults
<1>24. CASE ReadArtifacts
  BY <1>1, <1>2, <1>24, ArtifactsAreRead DEF ReadArtifacts
<1>16. CASE TheRouter
  BY <1>4, <1>8, <1>9, <1>10, <1>14, <1>16, <1>22, <1>23, <1>24 DEF TheRouter
<1>17. CASE ThePanel
  BY <1>13, <1>15, <1>17 DEF ThePanel, Join, WindowEnds, Tick
<1>18. CASE TheUser
  BY <1>14, <1>15, <1>18
     DEF TheUser, SelectProject, SelectEnvironment, SelectTestType, HandleStart, HandleCancel
<1>19. CASE TheWorker
  BY <1>6, <1>7, <1>11, <1>12, <1>15, <1>19
     DEF TheWorker, LoadForAttempt, ReloadTestRun, TransitionIsIllegal
<1>20. CASE Mishap
  BY <1>4, <1>5, <1>10, <1>14, <1>15, <1>20 DEF Mishap, AttemptThrows
<1>21. CASE UNCHANGED vars
  BY <1>15, <1>21 DEF vars
<1> QED BY <1>16, <1>17, <1>18, <1>19, <1>20, <1>21 DEF Next

-----------------------------------------------------------------------------
(* The router's queue.                                                     *)

LEMMA Enqueued ==
    ASSUME PageInv, row'.status # NoRow, row.status # NoRow, UNCHANGED call,
           NEW a \in Actions \ {"create"}, queue' = Append(queue, a)
    PROVE  CreateInv'
<1>1. /\ Len(queue) \in Nat /\ DOMAIN queue' = 1..(Len(queue) + 1) /\ DOMAIN queue = 1..Len(queue)
      /\ queue'[Len(queue) + 1] = a
      /\ \A i \in 1..Len(queue) : queue'[i] = queue[i]
  BY DEF PageInv, Typed
<1>2. queue' # <<>>
  BY <1>1
<1>3. \A i \in DOMAIN queue' : queue'[i] = "create" => i \in DOMAIN queue /\ queue[i] = "create"
  BY <1>1
<1> QED BY <1>2, <1>3 DEF PageInv, CreateInv

LEMMA Dequeued ==
    ASSUME PageInv, row'.status # NoRow, queue # <<>>, call' = Started,
           \/ queue' = Tail(queue)
           \/ \E a \in Actions \ {"create"} : queue' = Append(Tail(queue), a)
    PROVE  CreateInv'
<1>1. /\ Len(queue) \in Nat /\ Len(queue) # 0 /\ DOMAIN queue = 1..Len(queue)
      /\ Tail(queue) \in Seq(Actions)
      /\ DOMAIN Tail(queue) = 1..(Len(queue) - 1)
      /\ \A i \in 1..(Len(queue) - 1) : Tail(queue)[i] = queue[i + 1]
  BY DEF PageInv, Typed
<1>2. \A i \in DOMAIN Tail(queue) : Tail(queue)[i] # "create"
  <2> TAKE i \in DOMAIN Tail(queue)
  <2>1. i + 1 \in DOMAIN queue /\ i + 1 # 1 /\ Tail(queue)[i] = queue[i + 1]
    BY <1>1
  <2> QED BY <2>1 DEF PageInv, CreateInv
<1>3. ASSUME NEW a \in Actions \ {"create"}
      PROVE  \A i \in DOMAIN Append(Tail(queue), a) : Append(Tail(queue), a)[i] # "create"
  <2>1. PICK q \in Seq(Actions) : q = Tail(queue)
    BY <1>1
  <2>2. /\ Len(q) \in Nat /\ DOMAIN Append(q, a) = 1..(Len(q) + 1) /\ DOMAIN q = 1..Len(q)
        /\ Append(q, a)[Len(q) + 1] = a /\ \A i \in 1..Len(q) : Append(q, a)[i] = q[i]
    OBVIOUS
  <2> QED BY <1>2, <2>1, <2>2
<1>4. \A i \in DOMAIN queue' : queue'[i] # "create"
  BY <1>2, <1>3
<1> QED BY <1>4, StartingValues DEF CreateInv

LEMMA CreateStep == PageInv /\ Typed' /\ [Next]_vars => CreateInv'
<1> SUFFICES ASSUME PageInv, Typed', [Next]_vars
             PROVE  CreateInv'
  OBVIOUS
<1> USE DEF pageVars, panelVars
<1>1. Typed /\ CreateInv
  BY DEF PageInv
<1>2. ASSUME UNCHANGED <<queue, call>>, row.status # NoRow, row'.status # NoRow
      PROVE  CreateInv'
  BY <1>1, <1>2 DEF CreateInv
<1>3. ASSUME UNCHANGED queue, queue # <<>>, row'.status # NoRow, call'.step # "start"
      PROVE  CreateInv'
  BY <1>1, <1>3 DEF CreateInv
<1>4. ASSUME UNCHANGED <<row, worker, shown, queue, call, channel, inbox>>,
             form'.submitting = form.submitting, throttle'.open = throttle.open
      PROVE  CreateInv'
  BY <1>1, <1>4 DEF CreateInv, Before
<1>5. ASSUME NEW p \in Projects, SelectProject(p)
      PROVE  CreateInv'
  BY <1>1, <1>4, <1>5 DEF SelectProject, Typed, Forms
<1>6. ASSUME NEW e \in Environments, SelectEnvironment(e)
      PROVE  CreateInv'
  BY <1>1, <1>4, <1>6 DEF SelectEnvironment, Typed, Forms
<1>7. ASSUME NEW t \in DOMAIN TestTypes, SelectTestType(t)
      PROVE  CreateInv'
  BY <1>1, <1>4, <1>7 DEF SelectTestType, Typed, Forms
<1>8. CASE HandleStart
  <2>1. Before /\ queue = <<>> /\ call = Started
    BY <1>1, <1>8 DEF HandleStart, CanSubmit, CreateInv, Before
  <2>2. queue' = <<"create">> /\ form'.submitting
    BY <1>1, <1>8, <2>1, FormChanges DEF HandleStart, Typed
  <2>3. \A i \in DOMAIN queue' : i = 1
    BY <2>2
  <2>4. queue' # <<>>
    BY <2>2
  <2>5. Before'
    BY <1>8, <2>1, <2>2 DEF HandleStart, Before
  <2> QED BY <1>8, <2>3, <2>4, <2>5, <2>1 DEF HandleStart, CreateInv
<1>9. ASSUME NEW s \in {"created", "queued", "failed"}, NEW step \in {"ok", "error"},
             AtWork("create"), row' = [row EXCEPT !.status = s],
             call' = [call EXCEPT !.step = step], UNCHANGED queue
      PROVE  CreateInv'
  <2>1. row'.status # NoRow
    <3>1. s \in TestRunStatuses /\ s # NoRow
      BY DEF NoRow, TestRunStatuses
    <3> QED BY <1>1, <1>9, <3>1, RowChanges DEF Typed
  <2>2. call'.step # "start"
    BY <1>1, <1>9, CallChanges DEF Typed, Steps
  <2> QED BY <1>3, <1>9, <2>1, <2>2 DEF AtWork
<1>10. CASE CreateTestRun \/ QueuedIsNotWritten
  BY <1>9, <1>10 DEF CreateTestRun, QueuedIsNotWritten
<1>11. CASE CreateTestRunFails
  <2>1. CASE UNCHANGED row
    <3>1. Before
      BY <1>1, <1>11, AtWorkOnARun DEF CreateTestRunFails, CreateInv
    <3>2. call'.step = "error" /\ call'.view = Nothing
      BY <1>1, <1>11, <3>1, CallChanges DEF CreateTestRunFails, Typed, Steps, Before
    <3>3. Before'
      BY <1>11, <2>1, <3>1, <3>2 DEF CreateTestRunFails, Before
    <3>4. queue # <<>> /\ UNCHANGED queue
      BY <1>11 DEF CreateTestRunFails, AtWork
    <3> QED BY <1>1, <3>2, <3>3, <3>4 DEF CreateInv
  <2> QED BY <1>9, <1>11, <2>1 DEF CreateTestRunFails
<1>12. CASE CreateAnswers
  <2>1. CASE row.status = NoRow
    <3>1. Before /\ queue = <<"create">> /\ call.step = "error"
      BY <1>1, <1>12, <2>1, StartingValues DEF CreateAnswers, AtWork, CreateInv, Before
    <3>2. Tail(<<"create">>) = <<>>
      OBVIOUS
    <3>3. queue' = <<>> /\ call' = Started
      BY <1>12, <3>1, <3>2 DEF CreateAnswers
    <3>4. Before'
      BY <1>12, <3>1, <3>3, StartingValues DEF CreateAnswers, Before
    <3>5. DOMAIN queue' = {}
      BY <3>3
    <3> QED BY <3>3, <3>4, <3>5 DEF CreateInv
  <2>2. CASE row.status # NoRow
    BY <1>12, <2>2, Dequeued DEF CreateAnswers, AtWork, Actions
  <2> QED BY <2>1, <2>2
<1>13. ASSUME worker.step # "idle", row'.status # NoRow, UNCHANGED <<queue, call>>
       PROVE  CreateInv'
  BY <1>2, <1>13, AtWorkOnARun
<1>14. ASSUME NEW s \in TestRunStatuses, AdvanceToRunning(s) \/ FinishTestRun(s)
       PROVE  CreateInv'
  <2>1. s # NoRow
    BY DEF TestRunStatuses, NoRow
  <2> QED BY <1>13, <1>14, <2>1, StatusIsWritten DEF AdvanceToRunning, FinishTestRun
<1>15. ASSUME worker.step # "idle", row'.status = row.status, UNCHANGED <<queue, call>>
       PROVE  CreateInv'
  BY <1>13, <1>15, AtWorkOnARun
<1>16. CASE UpdateProgress
  BY <1>15, <1>16, ProgressIsWritten DEF UpdateProgress, Executing
<1>17. CASE ClearTestResults \/ WriteArtifacts
  BY <1>1, <1>15, <1>17, RowChanges DEF ClearTestResults, WriteArtifacts, Executing, Typed
<1>18. ASSUME NEW b \in Batches, InsertTestResults(b)
       PROVE  CreateInv'
  BY <1>1, <1>15, <1>18, RowChanges DEF InsertTestResults, Typed
<1>41. CASE LoadForAttempt
  BY <1>2, <1>41 DEF LoadForAttempt
<1>42. CASE ReloadTestRun \/ TransitionIsIllegal \/ AttemptThrows
  BY <1>15, <1>42 DEF ReloadTestRun, TransitionIsIllegal, AttemptThrows
<1>19. ASSUME Rendering \/ AtWork("cancel"), UNCHANGED <<row, queue>>, call'.step # "start"
       PROVE  CreateInv'
  <2>1. row.status # NoRow /\ queue # <<>>
    BY <1>19, AtWorkOnARun DEF Rendering, AtWork
  <2> QED BY <1>3, <1>19, <2>1
<1>20. CASE ReadRun
  BY <1>1, <1>19, <1>20, RunIsRead DEF ReadRun
<1>21. CASE ReadResults
  BY <1>1, <1>19, <1>21, ResultsAreRead DEF ReadResults
<1>22. CASE ReadArtifacts
  BY <1>1, <1>19, <1>22, ArtifactsAreRead DEF ReadArtifacts
<1>23. CASE ReadFails
  <2>1. call'.step # "start"
    BY <1>1, <1>23, CallChanges DEF ReadFails, Typed, Steps
  <2> QED BY <1>19, <1>23, <2>1 DEF ReadFails
<1>24. CASE GuardCancel \/ CancelIsRefused \/ CancelFails
  <2>1. call'.step # "start"
    BY <1>1, <1>24, CallChanges DEF GuardCancel, CancelIsRefused, CancelFails, Typed, Steps
  <2> QED BY <1>19, <1>24, <2>1 DEF GuardCancel, CancelIsRefused, CancelFails
<1>25. CASE Arrive
  <2>1. row.status # NoRow /\ queue # <<>>
    BY <1>25, AtWorkOnARun DEF Arrive, Rendering, AtWork
  <2> QED BY <1>25, <2>1, Dequeued DEF Arrive
<1>26. CASE Join
  BY <1>2, <1>26, AtWorkOnARun DEF Join
<1>27. CASE Disconnect
  BY <1>2, <1>27, AtWorkOnARun DEF Disconnect
<1>28. CASE Deliver
  <2>1. row.status # NoRow
    BY <1>28, AtWorkOnARun DEF Deliver
  <2> QED BY <1>2, <1>28, <2>1, Enqueued DEF Deliver, Actions
<1>29. CASE WindowEnds
  <2>1. row.status # NoRow
    BY <1>29, AtWorkOnARun DEF WindowEnds
  <2> QED BY <1>2, <1>29, <2>1, Enqueued DEF WindowEnds, Actions
<1>30. CASE Tick
  BY <1>1, <1>4, <1>30 DEF Tick, Typed, Throttles
<1>31. CASE HandleCancel
  <2>1. row.status # NoRow
    <3>1. ~Header(Nothing).cancel
      BY StartingValues DEF Header, CanTransitionTestRunStatus, TestRunStatuses, NoRow
    <3> QED BY <1>31, <3>1, AtWorkOnARun DEF HandleCancel
  <2> QED BY <1>31, <2>1, Enqueued DEF HandleCancel, Actions
<1>32. CASE WriteCancelled
  <2>1. row'.status # NoRow /\ call'.step # "start"
    BY <1>32, CancelIsWritten DEF NoRow
  <2> QED BY <1>3, <1>32, <2>1 DEF WriteCancelled, AtWork
<1>33. CASE CancelAnswers
  <2>1. row.status # NoRow /\ queue # <<>>
    BY <1>33, AtWorkOnARun DEF CancelAnswers, AtWork
  <2> QED BY <1>33, <2>1, Dequeued DEF CancelAnswers, Actions
<1>34. CASE Leave
  <2>1. row'.status # NoRow /\ DOMAIN queue' = {} /\ call' = Started
    BY <1>34, AtWorkOnARun DEF Leave
  <2> QED BY <2>1 DEF CreateInv
<1>35. CASE UNCHANGED vars
  BY <1>4, <1>35 DEF vars
<1>36. CASE TheRouter
  BY <1>10, <1>12, <1>20, <1>21, <1>22, <1>24, <1>25, <1>32, <1>33, <1>36 DEF TheRouter
<1>37. CASE ThePanel
  BY <1>26, <1>28, <1>29, <1>30, <1>37 DEF ThePanel
<1>38. CASE TheUser
  BY <1>5, <1>6, <1>7, <1>8, <1>31, <1>34, <1>38 DEF TheUser
<1>39. CASE TheWorker
  BY <1>14, <1>16, <1>17, <1>18, <1>39, <1>41, <1>42 DEF TheWorker
<1>40. CASE Mishap
  BY <1>10, <1>11, <1>23, <1>24, <1>27, <1>40, <1>42 DEF Mishap
<1> QED BY <1>35, <1>36, <1>37, <1>38, <1>39, <1>40 DEF Next

THEOREM PageInvariant == Spec => []PageInv
<1>1. Init => PageInv
  <2> SUFFICES ASSUME Init
               PROVE  PageInv
    OBVIOUS
  <2>1. Typed
    <3>1. queue \in Seq(Actions) /\ 0 \in 0..MaxUpdates /\ 0 \in 0..MaxMishaps
      BY ConstantsAssumption DEF Init
    <3> QED BY <3>1, StartingValues DEF Init, Typed, EmptyForm
  <2>2. DOMAIN queue = {}
    BY DEF Init
  <2>3. ~throttle.open
    BY DEF Init, Closed
  <2>4. UpdatesInv
    BY ConstantsAssumption, StartingValues DEF Init, UpdatesInv
  <2>5. CreateInv
    BY <2>2, <2>3, StartingValues DEF Init, CreateInv, Before
  <2> QED BY <2>1, <2>4, <2>5 DEF PageInv
<1>2. PageInv /\ [Next]_vars => PageInv'
  BY TypeStep, UpdatesStep, CreateStep DEF PageInv
<1> QED BY <1>1, <1>2, PTL DEF Spec

\* The form, the page, the router and the panel keep their shapes; an
\* environment that is selected belongs to the project that is (new-test-run-form
\* .tsx, lines 80-83 and 130-133).
THEOREM PageTypes == Spec => []TypeOK
<1>1. PageInv => TypeOK
  BY TypedIsTypeOK DEF PageInv
<1> QED BY <1>1, PageInvariant, PTL

-----------------------------------------------------------------------------
(* A completed run and its results.                                        *)

\* A run that was completed stays finished, with its results, and no attempt is
\* at it any more; a late cancel may still change its status.
Done ==
    /\ worker.step = "idle" /\ IsTestRunFinished(row.status)
    /\ row.results # 0

\* What the page has read of a completed run's results, or shows of them, is
\* what they are.
CompletedInv ==
    /\ row.status = "completed" => Done
    /\ call.view.status = "completed" =>
          /\ Done
          /\ call.step \in {"results", "artifacts", "arrive"}
          /\ ~call.failed /\ call.step # "results" => call.view.results = row.results
          /\ ~call.failed /\ call.step = "arrive" => call.view.evidence = row.evidence
    /\ shown.status = "completed" =>
          /\ Done
          /\ ~failedRead => shown.results = row.results /\ shown.evidence = row.evidence

CompletedStays ==
    /\ Done => Done' /\ row'.results = row.results /\ row'.evidence = row.evidence
    /\ row'.status = "completed" /\ row.status # "completed" => Done'

LEMMA CompletedIsFinal == PageInv /\ [Next]_vars => CompletedStays
<1> SUFFICES ASSUME PageInv, [Next]_vars
             PROVE  CompletedStays
  OBVIOUS
<1>1. Typed
  BY DEF PageInv
<1>2. ASSUME UNCHANGED <<row, worker>>
      PROVE  CompletedStays
  BY <1>2 DEF CompletedStays, Done
<1>3. ASSUME NEW s \in {"created", "queued", "failed"}, row.status = NoRow,
             row' = [row EXCEPT !.status = s]
      PROVE  CompletedStays
  <2>1. row'.status = s /\ s # "completed"
    BY <1>1, <1>3 DEF Typed, Views
  <2> QED BY <1>3, <2>1 DEF CompletedStays, Done, IsTestRunFinished, TestRunTerminalStatuses, NoRow
<1>4. CASE CreateTestRun \/ QueuedIsNotWritten
  BY <1>3, <1>4, AtWorkOnARun DEF CreateTestRun, QueuedIsNotWritten
<1>5. CASE CreateTestRunFails
  BY <1>2, <1>3, <1>5, AtWorkOnARun DEF CreateTestRunFails
<1>6. ASSUME worker.step # "idle", row'.status = row.status
      PROVE  CompletedStays
  BY <1>6 DEF CompletedStays, Done
<1>7. CASE WriteCancelled
  <2>1. /\ row'.status = "cancelled" /\ row'.results = row.results /\ row'.evidence = row.evidence
        /\ UNCHANGED worker
    BY <1>7, CancelIsWritten DEF WriteCancelled
  <2> QED BY <2>1 DEF CompletedStays, Done, IsTestRunFinished, TestRunTerminalStatuses
<1>8. ASSUME NEW s \in TestRunStatuses, AdvanceToRunning(s)
      PROVE  CompletedStays
  <2>1. row'.status = s /\ s # "completed" /\ worker.step # "idle"
    BY <1>8, StatusIsWritten DEF AdvanceToRunning
  <2> QED BY <2>1 DEF CompletedStays, Done
<1>9. ASSUME NEW s \in TestRunStatuses, FinishTestRun(s)
      PROVE  CompletedStays
  <2>1. row'.status = s /\ row'.results = row.results /\ worker'.step = "idle"
    BY <1>9, StatusIsWritten, StartingValues DEF FinishTestRun
  <2>2. worker.step # "idle" /\ (s = "completed" => row.results # 0)
    BY <1>9 DEF FinishTestRun
  <2> QED BY <2>1, <2>2 DEF CompletedStays, Done, IsTestRunFinished, TestRunTerminalStatuses
<1>10. CASE UpdateProgress
  BY <1>6, <1>10, ProgressIsWritten DEF UpdateProgress, Executing
<1>11. CASE ClearTestResults \/ WriteArtifacts
  BY <1>1, <1>6, <1>11, RowChanges DEF ClearTestResults, WriteArtifacts, Executing, Typed
<1>12. ASSUME NEW b \in Batches, InsertTestResults(b)
       PROVE  CompletedStays
  BY <1>1, <1>6, <1>12, RowChanges DEF InsertTestResults, Typed
<1>13. CASE LoadForAttempt
  BY <1>13 DEF LoadForAttempt, CompletedStays, Done
<1>14. CASE ReloadTestRun \/ TransitionIsIllegal \/ AttemptThrows
  BY <1>6, <1>14 DEF ReloadTestRun, TransitionIsIllegal, AttemptThrows
<1>15. CASE TheRouter
  BY <1>2, <1>4, <1>7, <1>15
     DEF TheRouter, CreateAnswers, ReadRun, ReadResults, ReadArtifacts, Arrive, GuardCancel,
         CancelIsRefused, CancelAnswers
<1>16. CASE ThePanel
  BY <1>2, <1>16 DEF ThePanel, Join, Deliver, WindowEnds, Tick
<1>17. CASE TheUser
  BY <1>2, <1>17
     DEF TheUser, SelectProject, SelectEnvironment, SelectTestType, HandleStart, HandleCancel, Leave
<1>18. CASE TheWorker
  BY <1>8, <1>9, <1>10, <1>11, <1>12, <1>13, <1>14, <1>18 DEF TheWorker
<1>19. CASE Mishap
  BY <1>2, <1>4, <1>5, <1>14, <1>19 DEF Mishap, ReadFails, Disconnect, CancelFails
<1>20. CASE UNCHANGED vars
  BY <1>2, <1>20 DEF vars
<1> QED BY <1>15, <1>16, <1>17, <1>18, <1>19, <1>20 DEF Next

\* What the page has read of a completed run changes by a read only.
ReadStep == ReadRun \/ ReadResults \/ ReadArtifacts \/ ReadFails

LEMMA ViewIsRead ==
    PageInv /\ [Next]_vars =>
        \/ ReadStep \/ UNCHANGED call \/ call'.view = Nothing
        \/ call.step = "write" /\ call'.view = call.view
<1> SUFFICES ASSUME PageInv, [Next]_vars
             PROVE  \/ ReadStep \/ UNCHANGED call \/ call'.view = Nothing
                    \/ call.step = "write" /\ call'.view = call.view
  OBVIOUS
<1>1. ASSUME call.step = "start", NEW s \in Steps, call' = [call EXCEPT !.step = s]
      PROVE  call'.view = Nothing
  <2>1. call.view = Nothing
    BY <1>1, StartingValues DEF PageInv, CreateInv
  <2> QED BY <1>1, <2>1 DEF PageInv, Typed, Calls
<1>2. "ok" \in Steps /\ "error" \in Steps /\ "write" \in Steps
  BY DEF Steps
<1>9. ASSUME call.step = "write", NEW s \in Steps, call' = [call EXCEPT !.step = s]
      PROVE  call'.view = call.view
  BY <1>9, CallChanges DEF PageInv, Typed
<1>3. CASE TheRouter
  BY <1>1, <1>2, <1>3, <1>9, StartingValues
     DEF TheRouter, ReadStep, CreateTestRun, CreateAnswers, Arrive, GuardCancel, WriteCancelled,
         CancelIsRefused, CancelAnswers
<1>4. CASE ThePanel
  BY <1>4 DEF ThePanel, Join, Deliver, WindowEnds, Tick
<1>5. CASE TheUser
  BY <1>5, StartingValues
     DEF TheUser, SelectProject, SelectEnvironment, SelectTestType, HandleStart, HandleCancel, Leave
<1>6. CASE TheWorker
  BY <1>6 DEF TheWorker, LoadForAttempt, AdvanceToRunning, FinishTestRun, UpdateProgress, ClearTestResults,
              InsertTestResults, WriteArtifacts, ReloadTestRun, TransitionIsIllegal
<1>7. CASE Mishap
  BY <1>1, <1>2, <1>7, <1>9
     DEF Mishap, ReadStep, QueuedIsNotWritten, CreateTestRunFails, Disconnect, CancelFails, AttemptThrows
<1>8. CASE UNCHANGED vars
  BY <1>8 DEF vars
<1> QED BY <1>3, <1>4, <1>5, <1>6, <1>7, <1>8 DEF Next

\* What is shown changes by an arrival, or is given up.
LEMMA ShownArrives ==
    PageInv /\ [Next]_vars =>
        Arrive \/ UNCHANGED <<shown, failedRead>> \/ shown' = Nothing
<1> SUFFICES ASSUME PageInv, [Next]_vars
             PROVE  Arrive \/ UNCHANGED <<shown, failedRead>> \/ shown' = Nothing
  OBVIOUS
<1> USE DEF pageVars
<1>1. CASE TheRouter
  BY <1>1 DEF TheRouter, CreateTestRun, CreateAnswers, ReadRun, ReadResults, ReadArtifacts,
              GuardCancel, WriteCancelled, CancelIsRefused, CancelAnswers
<1>2. CASE ThePanel
  BY <1>2 DEF ThePanel, Join, Deliver, WindowEnds, Tick
<1>3. CASE TheUser
  BY <1>3 DEF TheUser, SelectProject, SelectEnvironment, SelectTestType, HandleStart, HandleCancel, Leave
<1>4. CASE TheWorker
  BY <1>4 DEF TheWorker, LoadForAttempt, AdvanceToRunning, FinishTestRun, UpdateProgress, ClearTestResults,
              InsertTestResults, WriteArtifacts, ReloadTestRun, TransitionIsIllegal
<1>5. CASE Mishap
  BY <1>5 DEF Mishap, QueuedIsNotWritten, CreateTestRunFails, ReadFails, Disconnect, CancelFails,
              AttemptThrows
<1>6. CASE UNCHANGED vars
  BY <1>6 DEF vars
<1> QED BY <1>1, <1>2, <1>3, <1>4, <1>5, <1>6 DEF Next

LEMMA CompletedStep == PageInv /\ CompletedInv /\ [Next]_vars => CompletedInv'
<1> SUFFICES ASSUME PageInv, CompletedInv, [Next]_vars
             PROVE  CompletedInv'
  OBVIOUS
<1>1. Typed
  BY DEF PageInv
<1>2. /\ Done => Done' /\ row'.results = row.results /\ row'.evidence = row.evidence
      /\ row'.status = "completed" => Done'
  BY CompletedIsFinal DEF CompletedInv, CompletedStays
<1>3. Nothing.status # "completed"
  BY StartingValues DEF NoRow
<1>4. ASSUME call'.view.status = "completed"
      PROVE  /\ Done'
             /\ call'.step \in {"results", "artifacts", "arrive"}
             /\ ~call'.failed /\ call'.step # "results" => call'.view.results = row'.results
             /\ ~call'.failed /\ call'.step = "arrive" => call'.view.evidence = row'.evidence
  <2>1. CASE UNCHANGED call
    BY <1>2, <1>4, <2>1 DEF CompletedInv
  <2>2. CASE ReadRun
    BY <1>1, <1>2, <1>4, <2>2, RunIsRead DEF CompletedInv
  <2>3. CASE ReadResults
    <3>1. call.view.status = "completed" /\ Done
      BY <1>1, <1>4, <2>3, ResultsAreRead DEF CompletedInv
    <3>2. row.results # 0
      BY <3>1 DEF Done
    <3> QED BY <1>1, <1>2, <2>3, <3>1, <3>2, ResultsAreRead
  <2>4. CASE ReadArtifacts
    <3>1. call.view.status = "completed" /\ Done /\ call.step = "artifacts"
      BY <1>1, <1>4, <2>4, ArtifactsAreRead DEF CompletedInv, ReadArtifacts
    <3>2. row.evidence \in BOOLEAN
      BY <1>1 DEF Typed, Views
    <3>3. ~call.failed => call.view.results = row.results
      BY <3>1 DEF CompletedInv
    <3>4. ~call.failed => (row.evidence /\ row.results = call.view.results) = row.evidence
      BY <3>2, <3>3
    <3> QED BY <1>1, <1>2, <2>4, <3>1, <3>3, <3>4, ArtifactsAreRead
  <2>5. CASE ReadFails
    <3>1. call'.view = call.view /\ call'.step = "arrive" /\ call'.failed
      BY <1>1, <2>5, CallChanges DEF ReadFails, Typed, Steps
    <3> QED BY <1>2, <1>4, <3>1 DEF CompletedInv
  <2>6. ~(call.step = "write" /\ call'.view = call.view)
    BY <1>4 DEF CompletedInv
  <2> QED BY <1>3, <1>4, <2>1, <2>2, <2>3, <2>4, <2>5, <2>6, ViewIsRead DEF ReadStep
<1>5. ASSUME shown'.status = "completed"
      PROVE  /\ Done'
             /\ ~failedRead' => shown'.results = row'.results /\ shown'.evidence = row'.evidence
  <2>1. CASE UNCHANGED <<shown, failedRead>>
    BY <1>2, <1>5, <2>1 DEF CompletedInv
  <2>2. CASE Arrive
    BY <1>2, <1>5, <2>2 DEF Arrive, CompletedInv
  <2> QED BY <1>3, <1>5, <2>1, <2>2, ShownArrives
<1> QED BY <1>2, <1>4, <1>5 DEF CompletedInv

\* A run shown as completed is shown with the results it completed with, and
\* their artifacts, although the page reads the three one after the other while
\* the worker writes them in the opposite order (page.tsx, lines 59-73): for any
\* number of executions, updates and mishaps, and although a late cancel may still
\* change the status of a completed run.
THEOREM CompletedRunsShowTheirResults == Spec => []CompletedShowsResults
<1>1. Init => CompletedInv
  BY StartingValues DEF Init, CompletedInv, NoRow
<1>2. CompletedInv => CompletedShowsResults
  BY DEF CompletedInv, CompletedShowsResults, Done, Header, ResultTable
<1> QED BY <1>1, <1>2, CompletedStep, PageInvariant, PTL DEF Spec

-----------------------------------------------------------------------------
(* The throttle.                                                           *)

\* An open window and the time it is open for add up to the delay.
ThrottleInv ==
    throttle.age = IF throttle.open THEN Delay - throttle.left ELSE Delay

LEMMA ThrottleStep == PageInv /\ ThrottleInv /\ [Next]_vars => ThrottleInv'
<1> SUFFICES ASSUME PageInv, ThrottleInv, [Next]_vars
             PROVE  ThrottleInv'
  OBVIOUS
<1> USE DEF panelVars
<1>1. throttle \in Throttles /\ Delay \in Nat /\ Delay - Delay = 0 /\ Delay - 0 = Delay
  BY ConstantsAssumption DEF PageInv, Typed
<1>2. CASE UNCHANGED throttle
  BY <1>2 DEF ThrottleInv
<1>3. CASE throttle' = Closed
  BY <1>3 DEF ThrottleInv, Closed
<1>4. CASE throttle' = Refreshed
  BY <1>1, <1>4 DEF ThrottleInv, Refreshed
<1>5. CASE Deliver
  BY <1>1, <1>4, <1>5 DEF Deliver, ThrottleInv, Throttles
<1>6. CASE WindowEnds
  BY <1>1, <1>4, <1>6 DEF WindowEnds, ThrottleInv, Throttles
<1>7. CASE Tick
  <2>1. /\ throttle'.open = throttle.open /\ throttle'.age = throttle.age + 1
        /\ throttle.open => throttle'.left = throttle.left - 1
    BY <1>1, <1>7 DEF Tick, Throttles
  <2>2. throttle.age \in Nat /\ throttle.left \in Nat /\ throttle.age < Delay
    BY <1>1, <1>7 DEF Tick, Throttles
  <2> QED BY <1>1, <2>1, <2>2 DEF ThrottleInv
<1>8. CASE TheRouter
  BY <1>2, <1>3, <1>8
     DEF TheRouter, CreateTestRun, CreateAnswers, ReadRun, ReadResults, ReadArtifacts, Arrive,
         GuardCancel, WriteCancelled, CancelIsRefused, CancelAnswers
<1>9. CASE ThePanel
  BY <1>2, <1>5, <1>6, <1>7, <1>9 DEF ThePanel, Join
<1>10. CASE TheUser
  BY <1>2, <1>3, <1>10
     DEF TheUser, SelectProject, SelectEnvironment, SelectTestType, HandleStart, HandleCancel, Leave
<1>11. CASE TheWorker
  BY <1>2, <1>11
     DEF TheWorker, LoadForAttempt, AdvanceToRunning, FinishTestRun, UpdateProgress, ClearTestResults,
         InsertTestResults, WriteArtifacts, ReloadTestRun, TransitionIsIllegal
<1>12. CASE Mishap
  BY <1>2, <1>12 DEF Mishap, QueuedIsNotWritten, CreateTestRunFails, ReadFails, Disconnect, CancelFails,
                AttemptThrows
<1>13. CASE UNCHANGED vars
  BY <1>2, <1>13 DEF vars
<1> QED BY <1>8, <1>9, <1>10, <1>11, <1>12, <1>13 DEF Next

\* Only the panel and an answered cancel append a refresh, and the latter takes
\* its own place.
LEMMA RefreshComesFromThePanel ==
    ASSUME PageInv, [Next]_vars, queue' = Append(queue, "refresh")
    PROVE  Deliver \/ WindowEnds
<1> DEFINE q == Append(queue, "refresh")
<1>1. queue \in Seq(Actions)
  BY DEF PageInv, Typed
<1>2. /\ Len(queue) \in Nat /\ Len(q) = Len(queue) + 1 /\ q # queue /\ q # <<>>
      /\ q[Len(queue) + 1] = "refresh"
  BY <1>1
<1>3. \A a \in Actions \ {"refresh"} : Append(queue, a) # q
  <2> TAKE a \in Actions \ {"refresh"}
  <2>1. Append(queue, a)[Len(queue) + 1] = a
    BY <1>1
  <2> QED BY <1>2, <2>1
<1>4. ASSUME queue # <<>>
      PROVE  q # Tail(queue) /\ \A a \in Actions : q # Append(Tail(queue), a)
  <2>1. Len(Tail(queue)) = Len(queue) - 1
    BY <1>1, <1>4
  <2>2. ASSUME NEW a \in Actions
        PROVE  Len(Append(Tail(queue), a)) # Len(queue) + 1
    <3>0. Tail(queue) \in Seq(Actions)
      BY <1>1, <1>4
    <3>1. PICK r \in Seq(Actions) : r = Tail(queue)
      BY <3>0
    <3>2. Len(Append(r, a)) = Len(r) + 1
      OBVIOUS
    <3>3. Len(queue) \in Nat /\ Len(r) = Len(queue) - 1
      BY <1>1, <2>1, <3>1
    <3>4. Len(Append(r, a)) # Len(queue) + 1
      BY <3>2, <3>3
    <3> QED BY <3>1, <3>4
  <2>3. Len(Tail(queue)) # Len(queue) + 1
    BY <1>2, <2>1
  <2> QED BY <1>2, <2>2, <2>3
<1> HIDE DEF q
<1>5. queue' = q
  BY DEF q
<1>6. UNCHANGED queue => FALSE
  BY <1>2, <1>5
<1>7. CASE TheRouter
  BY <1>4, <1>5, <1>6, <1>7
     DEF TheRouter, CreateTestRun, CreateAnswers, ReadRun, ReadResults, ReadArtifacts, Arrive,
         GuardCancel, WriteCancelled, CancelIsRefused, CancelAnswers, Rendering, AtWork, Actions
<1>8. CASE ThePanel
  BY <1>6, <1>8 DEF ThePanel, Join, Tick
<1>9. CASE TheUser
  BY <1>2, <1>3, <1>5, <1>6, <1>9
     DEF TheUser, SelectProject, SelectEnvironment, SelectTestType, HandleStart, HandleCancel, Leave, Actions
<1>10. CASE TheWorker
  BY <1>6, <1>10
     DEF TheWorker, LoadForAttempt, AdvanceToRunning, FinishTestRun, UpdateProgress, ClearTestResults,
         InsertTestResults, WriteArtifacts, ReloadTestRun, TransitionIsIllegal
<1>11. CASE Mishap
  BY <1>6, <1>11 DEF Mishap, QueuedIsNotWritten, CreateTestRunFails, ReadFails, Disconnect, CancelFails,
                AttemptThrows
<1>12. CASE UNCHANGED vars
  BY <1>6, <1>12 DEF vars
<1> QED BY <1>7, <1>8, <1>9, <1>10, <1>11, <1>12 DEF Next

\* The throttle asks for a refresh at most once per delay, its own trailing
\* refreshes included, however the updates arrive (throttled-refresh.ts, lines
\* 16-46).
THEOREM ThrottleKeepsItsDistance == Spec => OneRefreshPerWindow
<1>1. Init => ThrottleInv
  BY DEF Init, ThrottleInv, Closed
<1>2. PageInv /\ ThrottleInv /\ [Next]_vars
         => [queue' = Append(queue, "refresh") => throttle.age = Delay]_vars
  <2> SUFFICES ASSUME PageInv, ThrottleInv, [Next]_vars, queue' = Append(queue, "refresh")
               PROVE  throttle.age = Delay
    OBVIOUS
  <2>1. CASE WindowEnds
    BY <2>1, ConstantsAssumption DEF WindowEnds, ThrottleInv
  <2>2. CASE Deliver
    <3>1. ~throttle.open
      <4>1. queue # Append(queue, "refresh")
        <5>1. queue \in Seq(Actions) /\ "refresh" \in Actions
          BY DEF PageInv, Typed, Actions
        <5>2. Len(Append(queue, "refresh")) = Len(queue) + 1 /\ Len(queue) \in Nat
          BY <5>1
        <5> QED BY <5>2
      <4> QED BY <2>2, <4>1 DEF Deliver
    <3> QED BY <3>1 DEF ThrottleInv
  <2> QED BY <2>1, <2>2, RefreshComesFromThePanel
<1> QED BY <1>1, <1>2, ThrottleStep, PageInvariant, PTL DEF Spec, OneRefreshPerWindow
=============================================================================
